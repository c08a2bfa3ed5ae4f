\* PostgreSQL: two refreshes with one token.
CONSTANTS
  Phones = {p1}
  Users = {u1}
  Codes = {o1}
  Sessions = {s1, s2, s3}
  Cards = {}
  Tokens = {}
  DriverIds = {}
  Calls = {c1, c2}
  None = None
  Store = "postgres"
  OtpTtl = 2
  SendWindow = 1
  SendMax = 1
  MaxAttempts = 2
  RefreshTtl = 2
  MaxTime = 0
  Workloads = {{"otp", "verify", "refresh"}}
  Faults = FALSE
SPECIFICATION Spec
INVARIANTS RefreshIsSingleUse
\* With its ids used and its clock at the bound, the instance rests.
CHECK_DEADLOCK FALSE
