CONSTANTS
  a = a
  b = b
  p = p
  q = q
  Browsers = {1}
  Requests = {r1, r2}
  Addresses = {a, b}
  Passwords = {p, q}
  FormRoles = {"admin", "participant"}
  Duties = {d1}
  Founders <- OneAdmin
  MaxUsers = 2
  MaxComments = 1
SPECIFICATION Spec
SYMMETRY RequestsSymmetric
INVARIANTS
  TypeOK
  AddressesUnique
PROPERTIES
  StaleCookieStaysStale
  EditsOneField
  LastAdminFallsToRace
  CommentsDeletedByTheirOwn
