\* PostgreSQL with the default gateway: a cancellation that races completion.
CONSTANTS
  Quotes = {q1}
  Rides = {r1}
  Drivers = {d1}
  Calls = {c1, c2}
  None = None
  Fare = 3
  Store = "postgres"
  Gateway = "fake"
  Operations = {"accept", "cancel"}
  MaxPings = 0
  Faults = FALSE
SPECIFICATION Spec
SYMMETRY Symmetry
INVARIANTS SettledOnce
\* With its quotes used or lapsed and its rides over, the instance rests.
CHECK_DEADLOCK FALSE
