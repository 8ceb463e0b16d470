CONSTANTS
  Participants = {p1}
  Organizers = {}
  Duties = {d1}
  Hour = 2
  DayLength = 5
  Limits = {1}
  MaxFaults = 0
  Nobody = Nobody
SPECIFICATION FairSpec
PROPERTIES
  NewDutiesAnnounced
