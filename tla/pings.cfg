\* GPS pings of a trip, three requests at once.
CONSTANTS
  Quotes = {q1}
  Rides = {r1}
  Drivers = {d1}
  Calls = {c1, c2, c3}
  None = None
  Fare = 3
  Store = "postgres"
  Gateway = "stripe"
  Operations = {"accept", "startTrip", "ping", "cancel"}
  MaxPings = 3
  Faults = TRUE
  BelowHalf <- SomeBelowHalf
SPECIFICATION ViewSpec
SYMMETRY Symmetry
INVARIANTS PingSeqContiguous PingsNeedTripStart YouKeepIsFare ViewsAgree ViewInv
\* With its quotes used or lapsed and its rides over, the instance rests.
CHECK_DEADLOCK FALSE
