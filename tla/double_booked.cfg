\* One request at a time: a driver who accepts two offers.
CONSTANTS
  Quotes = {q1, q2}
  Rides = {r1, r2}
  Drivers = {d1}
  Calls = {c1}
  None = None
  Fare = 3
  Store = "postgres"
  Gateway = "stripe"
  Operations = {"accept", "assign"}
  MaxPings = 0
  Faults = FALSE
SPECIFICATION Spec
SYMMETRY Symmetry
INVARIANTS NoDoubleAssignment
\* With its quotes used or lapsed and its rides over, the instance rests.
CHECK_DEADLOCK FALSE
