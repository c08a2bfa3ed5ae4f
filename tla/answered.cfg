\* The production wiring without deaths: what must eventually happen, and the
\* holds nobody may forget.  No symmetry, because of the liveness properties.
CONSTANTS
  Quotes = {q1}
  Rides = {r1, r2}
  Drivers = {d1}
  Calls = {c1, c2}
  None = None
  Fare = 3
  Store = "postgres"
  Gateway = "stripe"
  Operations = {"accept", "startTrip", "assign", "ping", "cancel", "expire"}
  MaxPings = 1
  Faults = FALSE
SPECIFICATION FairSpec
INVARIANTS NoOrphanHold HoldInv IInv
PROPERTIES CaptureGetsBooked RequestsAreAnswered
\* With its quotes used or lapsed and its rides over, the instance rests.
CHECK_DEADLOCK FALSE
