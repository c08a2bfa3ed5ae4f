\* The development wiring (in-memory store, fake gateway), one request at a
\* time: what the tests exercise.
CONSTANTS
  Quotes = {q1, q2}
  Rides = {r1, r2}
  Drivers = {d1, d2}
  Calls = {c1}
  None = None
  Fare = 3
  Store = "memory"
  Gateway = "fake"
  Operations = {"accept", "startTrip", "wrongOtp", "assign", "cancel", "ping", "expire"}
  MaxPings = 1
  Faults = FALSE
SPECIFICATION Spec
SYMMETRY Symmetry
INVARIANTS ActiveRideIsPayable
PROPERTIES ImplementsTripLifecycle ClaimsAreFresh
\* With its quotes used or lapsed and its rides over, the instance rests.
CHECK_DEADLOCK FALSE
