CONSTANTS
  Participants = {p1}
  Organizers = {}
  Duties = {d1}
  Hour = 1
  DayLength = 5
  Limits = {0, 2}
  MaxFaults = 2
  Nobody = Nobody
SPECIFICATION FairSpec
INVARIANTS
  TypeOK
  LogWithinLimit
  MailsBounded
PROPERTIES
  LoggedAnHourApart
  Reminded
