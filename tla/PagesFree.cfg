CONSTANTS
  ann = ann
  org = org
  t = t
  twin = twin
  other = other
  boss = boss
  DayLength = 2
  WeekLength = 3
  MonthDays <- TwoMonths
  FirstMonth = 1
  Zones = {0}
  People <- Team
  Rows <- EarlyRow
  Groups = {}
  Periods = {}
  MaxDuties = 1
  MaxParts = 1
  MaxChanges = 0
  MaxLost = 0
  Nows = {20}
  Boards = {}
  Views = {}
  ShownMonths = {}
  TopSize = 1
SPECIFICATION Spec
INVARIANT
  LeastDoneFirst
