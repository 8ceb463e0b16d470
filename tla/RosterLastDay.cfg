CONSTANTS
  Users = {u1, u2}
  Requests = {r1}
  Days = {1, 2}
  Times = {"am"}
  Limits = {1}
  MaxOccurrences = 1
  MaxPeriods = 1
  Ops = {"signup", "create", "addooo"}
  UncheckedErrors = FALSE
SPECIFICATION Spec
INVARIANTS
  NoDutyDuringAbsence
