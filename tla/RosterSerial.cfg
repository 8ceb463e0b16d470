CONSTANTS
  Users = {u1, u2}
  Requests = {r1}
  Days = {1, 2, 3}
  Times = {"am"}
  Limits = {1, 2}
  MaxOccurrences = 1
  MaxPeriods = 2
  Ops = {"signup", "withdraw", "assign", "remove", "create", "update",
         "delete", "addooo", "removeooo", "deleteuser"}
  UncheckedErrors = FALSE
SPECIFICATION Spec
SYMMETRY UsersSymmetric
INVARIANTS
  PeriodsDisjoint
  NoDutyInsideAbsence
PROPERTIES
  SignUpFindsPlace
  KeepsPromise
