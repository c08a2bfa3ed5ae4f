\* Operator dispatch alone assigns drivers: two rides, two drivers, two
\* requests at once, handlers that may die.
CONSTANTS
  Quotes = {q1, q2}
  Rides = {r1, r2}
  Drivers = {d1, d2}
  Calls = {c1, c2}
  None = None
  Fare = 3
  Store = "postgres"
  Gateway = "stripe"
  Operations = {"assign", "cancel"}
  MaxPings = 0
  Faults = TRUE
SPECIFICATION Spec
SYMMETRY Symmetry
INVARIANTS NoDoubleAssignment SummaryAddsUp
\* With its quotes used or lapsed and its rides over, the instance rests.
CHECK_DEADLOCK FALSE
