CONSTANTS
  ann = ann
  org = org
  t = t
  twin = twin
  other = other
  boss = boss
  DayLength = 2
  WeekLength = 3
  MonthDays <- TwoMonths
  FirstMonth = 1
  Zones = {0, 1}
  People <- Team
  Rows <- ThreeRows
  Groups = {1}
  Periods <- OnePeriod
  MaxDuties = 2
  MaxParts = 2
  MaxChanges = 1
  MaxLost = 1
  Nows = {17, 22}
  Boards <- SomeBoards
  Views <- SomeViews
  ShownMonths = {2}
  TopSize = 1
SPECIFICATION Spec
SYMMETRY Symmetric
INVARIANTS
  TypeOK
  BoardIsOfThisYear
  ExportTrue
  ParticipantsRanked
  ProfileTrue
  CalendarTrue
  ListsTrue
