\* The development wiring: one request at a time.
CONSTANTS
  Phones = {p1, p2}
  Users = {u1, u2}
  Codes = {o1, o2, o3}
  Sessions = {s1, s2, s3}
  Cards = {k1, k2, k3}
  Tokens = {t1, t2}
  DriverIds = {d1}
  Calls = {c1}
  None = None
  Store = "memory"
  OtpTtl = 2
  SendWindow = 1
  SendMax = 2
  MaxAttempts = 2
  RefreshTtl = 2
  MaxTime = 3
  Workloads = {{"otp", "verify", "guess", "refresh", "clock"}, {"otp", "verify", "refresh", "logout"}, {"otp", "verify", "card"}}
  Faults = FALSE
SPECIFICATION Spec
SYMMETRY Symmetry
INVARIANTS SerialInv GuessesBounded SendsBounded DefaultIsNewest
PROPERTIES ImplementsLogin LockoutHolds
\* With its ids used and its clock at the bound, the instance rests.
CHECK_DEADLOCK FALSE
