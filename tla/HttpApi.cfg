SPECIFICATION Spec
CONSTANTS
  Requests = {r1, r2, r3}
  Names = {n1}
  Passwords = {p1, p2}
  Tenants = {t1}
  Messages = {m1}
  Roles = {"", "admin"}
  SecondTicks = 2
  Expiry = 3
  MaxTime = 3
  MaxFailures = 1
  None = None
  Null = Null
SYMMETRY Symmetry
INVARIANTS
  TypeOK
  RegistrationStands
  TokenVouchesForUser
  ServedWhileValid
  KnownIsServed
CHECK_DEADLOCK FALSE
