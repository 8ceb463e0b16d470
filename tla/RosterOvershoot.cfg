CONSTANTS
  Users = {u1, u2, u3, u4}
  Requests = {r1, r2, r3}
  Days = {1}
  Times = {"am"}
  Limits = {1}
  MaxOccurrences = 2
  MaxPeriods = 0
  Ops = {"signup", "withdraw", "remove", "create", "delete"}
  UncheckedErrors = FALSE
SPECIFICATION Spec
SYMMETRY Symmetric
INVARIANTS
  OvershootBounded
