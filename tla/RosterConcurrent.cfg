CONSTANTS
  Users = {u1, u2}
  Requests = {r1, r2}
  Days = {1}
  Times = {"am", "pm"}
  Limits = {1}
  MaxOccurrences = 1
  MaxPeriods = 1
  Ops = {"signup", "withdraw", "assign", "remove", "create", "update",
         "delete", "addooo", "removeooo", "deleteuser"}
  UncheckedErrors = TRUE
\* Two administrators can delete each other; then nobody can make a request.
CHECK_DEADLOCK FALSE
SPECIFICATION Spec
INVARIANTS
  TypeOK
  NoDanglingRows
PROPERTY
  NothingResurrected
