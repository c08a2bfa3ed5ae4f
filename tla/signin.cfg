\* PostgreSQL: two account requests at once, handlers that may die.
CONSTANTS
  Phones = {p1, p2}
  Users = {u1, u2}
  Codes = {o1, o2, o3}
  Sessions = {s1, s2}
  Cards = {k1, k2, k3}
  Tokens = {t1, t2}
  DriverIds = {d1, d2}
  Calls = {c1, c2}
  None = None
  Store = "postgres"
  OtpTtl = 2
  SendWindow = 1
  SendMax = 1
  MaxAttempts = 2
  RefreshTtl = 2
  MaxTime = 2
  Workloads = {{"otp", "guess", "clock"}, {"otp", "verify", "clock"}, {"otp", "verify", "refresh", "logout"}, {"otp", "verify", "card"}, {"driver"}}
  Faults = TRUE
SPECIFICATION Spec
SYMMETRY Symmetry
INVARIANTS AccountInv OneUserPerPhone SessionIsBacked SendsNearlyBounded NoEarlyLockout
  NewestIsDefault OneRowPerToken OneDriverPerPhone
\* With its ids used and its clock at the bound, the instance rests.
CHECK_DEADLOCK FALSE
