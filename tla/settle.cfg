\* The production wiring (PostgreSQL and Stripe), three requests at once on the
\* money path, handlers that may die, two rides that may come of one quote.
CONSTANTS
  Quotes = {q1}
  Rides = {r1, r2}
  Drivers = {d1, d2}
  Calls = {c1, c2, c3}
  None = None
  Fare = 3
  Store = "postgres"
  Gateway = "stripe"
  Operations = {"accept", "startTrip", "cancel", "expire"}
  MaxPings = 0
  Faults = TRUE
SPECIFICATION Spec
SYMMETRY Symmetry
INVARIANTS TypeOK LedgerBalanced CaptureIsBacked TakeHomeExact MoneyAgrees
  SettledOnce OneRidePerQuote IInv LedgerInv
PROPERTIES DriverKeepsRide ImplementsSettlement
\* With its quotes used or lapsed and its rides over, the instance rests.
CHECK_DEADLOCK FALSE
