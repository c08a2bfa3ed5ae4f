\* One request at a time: a fresh code after wrong guesses at the last one.
CONSTANTS
  Phones = {p1}
  Users = {u1}
  Codes = {o1, o2}
  Sessions = {s1}
  Cards = {}
  Tokens = {}
  DriverIds = {}
  Calls = {c1}
  None = None
  Store = "memory"
  OtpTtl = 2
  SendWindow = 2
  SendMax = 2
  MaxAttempts = 2
  RefreshTtl = 2
  MaxTime = 1
  Workloads = {{"otp", "verify", "guess", "clock"}}
  Faults = FALSE
SPECIFICATION Spec
PROPERTIES LockoutIsOfPhone
\* With its ids used and its clock at the bound, the instance rests.
CHECK_DEADLOCK FALSE
