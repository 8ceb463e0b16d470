CONSTANTS
  Users = {u1, u2}
  Requests = {r1, r2}
  Days = {1}
  Times = {"am"}
  Limits = {1}
  MaxOccurrences = 1
  MaxPeriods = 0
  Ops = {"signup", "create"}
  UncheckedErrors = FALSE
SPECIFICATION Spec
PROPERTIES
  SignUpFindsPlace
