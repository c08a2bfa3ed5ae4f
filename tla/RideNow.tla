------------------------------ MODULE RideNow ------------------------------
(***************************************************************************)
(* The ride flow of the API: any number of requests in flight (at most one *)
(* per member of Calls), each a handler of RideService, DispatchService or *)
(* GpsService, over one store and one payment gateway.                     *)
(***************************************************************************)
EXTENDS DispatchService, GpsService

CONSTANTS
  Operations,   \* the client operations this instance lets come in
  Faults        \* whether a handler may die between two of its steps

\* A process that dies takes the in-memory implementations with it: what is
\* left behind is a question about the real ones.
ASSUME FaultsAssumption ==
  /\ Faults \in BOOLEAN
  /\ Faults => Store = "postgres" /\ Gateway = "stripe"

Init ==
  /\ StoreInit
  /\ GatewayInit
  /\ req = [c \in Calls |-> Idle]
  /\ lapsed = {}

-----------------------------------------------------------------------------
Asked(op) == op \in Operations

CreateQuote(q) ==
  InsertQuote(q) /\ UNCHANGED <<gatewayVars, req, lapsed>>

\* A request comes in.
Arrive(c) ==
  \/ \E q \in Quotes, r \in Rides : Confirm(c, q, r)
  \/ \E r \in Rides, d \in Drivers : Asked("accept") /\ Accept(c, r, d)
  \/ \E r \in Rides, at \in {"startTrip", "wrongOtp"} :
       Asked(at) /\ StartTrip(c, r, at)
  \/ \E r \in Rides : Complete(c, r)
  \/ \E r \in Rides : Asked("cancel") /\ Cancel(c, r)
  \/ \E r \in Rides, d \in Drivers : Asked("assign") /\ AssignTo(c, r, d)
  \/ \E r \in Rides : Asked("assign") /\ AssignGreedy(c, r)
  \/ \E r \in Rides : Asked("ping") /\ Ping(c, r)

Step(c) == RideStep(c) \/ DispatchStep(c) \/ GpsStep(c)

\* A deadline passes while something still depends on it.
Expire ==
  /\ Asked("expire")
  /\ \E t \in Deadlines \ lapsed :
       /\ \/ \E q \in Quotes : t = QuoteTtl(q) /\ quotes[q] = "active"
          \/ \E r \in Rides : t = OfferTtl(r) /\ rides[r].status = "offered"
          \/ \E r \in Rides : t = OtpTtl(r) /\ rides[r].status = "accepted"
       /\ lapsed' = lapsed \cup {t}
  /\ UNCHANGED <<storeVars, gatewayVars, req>>

\* The process dies, the connection drops or an answer is lost: the handler
\* never resumes, and an open transaction is rolled back.  The death of the
\* whole process is this step for every handler.
Abort(c) ==
  /\ Faults
  /\ ~At(c, "idle")
  /\ Finish(c)
  /\ UNCHANGED <<storeVars, gatewayVars, lapsed>>

Next ==
  \/ \E q \in Quotes : CreateQuote(q)
  \/ \E d \in Drivers : Asked("assign") /\ ReportLocation(d)
  \/ \E c \in Calls : Arrive(c) \/ Step(c) \/ GatewayRefuses(c) \/ Abort(c)
  \/ Expire

Spec == Init /\ [][Next]_vars

\* The event loop resumes every handler whose await has been answered, and the
\* database grants a row lock in the order it was asked for: a handler that can
\* go on again and again does.
Fairness == \A c \in Calls : SF_vars(Step(c))
FairSpec == Spec /\ Fairness

-----------------------------------------------------------------------------
TypeOK ==
  /\ quotes \in [Quotes -> {"none", "active", "consumed"}]
  /\ rides \in [Rides -> RideRows]
  /\ payments \in [Rides -> PaymentStatuses]
  /\ ledger \subseteq Postings(Calls, Rides, Drivers, {0, Fare})
  /\ pings \in [Rides -> Seq(Nat)]
  /\ located \subseteq Drivers
  /\ intents \in [Rides -> IntentStatuses]
  /\ keyed \in [Quotes -> Rides \cup {None}]
  /\ req \in [Calls -> Requests]
  /\ lapsed \subseteq Deadlines

\* What the ledger says of a ride's hold.
Held(r) == Posted(ledger, r, "authorization")
Captured(r) == Posted(ledger, r, "capture")
Voided(r) == Posted(ledger, r, "void")

\* The ledger of every ride balances, whatever was retried or raced: what
\* isBalanced tells the driver's earnings view.
LedgerBalanced == \A r \in Rides : IsBalanced(OfRide(ledger, r))

\* The ledger never says money moved that the gateway did not move: complete
\* calls the gateway first.
CaptureIsBacked ==
  \A r \in Rides : Captured(r) => intents[rides[r].intent] = "captured"

\* The driver on the ride, and nobody else, is credited the whole fare, once,
\* exactly when the fare was captured (driverTakeHomeCents).
TakeHomeExact ==
  \A r \in Rides, d \in Drivers :
    DriverTakeHome(OfRide(ledger, r), d) =
      IF Captured(r) /\ rides[r].driver = d THEN Fare ELSE 0

\* With the real gateway, a completed ride was paid and a cancelled ride was
\* not, in the ride, the payment, the ledger and the gateway alike.
MoneyAgrees ==
  \A r \in Rides :
    LET i == rides[r].intent IN
    /\ rides[r].status = "completed" =>
         payments[r] = "captured" /\ intents[i] = "captured"
           /\ Captured(r) /\ ~Voided(r)
    /\ rides[r].status = "cancelled" =>
         payments[r] = "voided" /\ intents[i] = "voided"
           /\ Voided(r) /\ ~Captured(r)

\* The hold of a ride is released once: captured or voided, not both.
SettledOnce == \A r \in Rides : ~(Captured(r) /\ Voided(r))

\* The settlement of every ride, as the ledger tells it, is one of Settlement's.
HoldOf(r) ==
  CASE Captured(r) /\ Voided(r) -> "both"
    [] Captured(r) /\ ~Voided(r) -> "captured"
    [] Voided(r) /\ ~Captured(r) -> "voided"
    [] OTHER -> IF Held(r) THEN "held" ELSE "none"
Settles == INSTANCE Settlement WITH hold <- [r \in Rides |-> HoldOf(r)]
ImplementsSettlement == Settles!Spec

\* A quote becomes one ride (a double tap on confirm).
OneRidePerQuote ==
  \A r, s \in Rides :
    Present(r) /\ Present(s) /\ rides[r].quote = rides[s].quote => r = s

\* No hold on the rider's card is left behind: every authorized intent is the
\* open hold of a ride, or a handler is still working on it.
NoOrphanHold ==
  \A i \in Rides :
    intents[i] = "authorized" =>
      \/ \E r \in Rides : /\ Present(r)
                          /\ rides[r].intent = i
                          /\ payments[r] = "authorized"
      \/ \E c \in Calls : req[c].intent = i

\* Money the gateway captured gets booked.
CaptureGetsBooked ==
  \A r \in Rides :
    (Present(r) /\ intents[rides[r].intent] = "captured") ~> Captured(r)

\* Every request is answered.  No handler waits forever for a row: an accept that
\* holds its ride's row and an assign that holds its driver's may wait for each
\* other, and then the error that PostgreSQL ends one of them with is its answer.
RequestsAreAnswered == \A c \in Calls : ~At(c, "idle") ~> At(c, "idle")

\* Once a driver has a ride, nobody takes it from them (the accept race).
DriverKeepsRide ==
  [][\A r \in Rides :
       rides[r].driver # None => rides'[r].driver = rides[r].driver]_vars

\* completed and cancelled are terminal.
TerminalIsFinal ==
  [][\A r \in Rides :
       rides[r].status \in {"completed", "cancelled"}
         => rides'[r].status = rides[r].status]_vars

\* Ride statuses move along TRIP_TRANSITIONS only.
Trips == INSTANCE TripLifecycle WITH status <- [r \in Rides |-> rides[r].status]
ImplementsTripLifecycle == Trips!Spec

\* A driver is on at most one active ride.
NoDoubleAssignment ==
  \A d \in Drivers, r, s \in Rides : BusyOn(d, r) /\ BusyOn(d, s) => r = s

\* A driver on their way or on a trip can be paid for it: the hold is open.
ActiveRideIsPayable ==
  \A r \in Rides : rides[r].status \in Active => payments[r] = "authorized"

\* The pings of a ride are numbered 1, 2, 3, ... as they are inserted.
PingSeqContiguous ==
  \A r \in Rides : \A k \in DOMAIN pings[r] : pings[r][k] = k

\* Only a ride whose trip was started by its OTP has pings.
PingsNeedTripStart ==
  \A r \in Rides : pings[r] # << >> => rides[r].started

\* One request at a time: no driver gets a ride whose offer has lapsed.
ClaimsAreFresh ==
  [][\A r \in Rides :
       rides[r].driver # rides'[r].driver => OfferTtl(r) \notin lapsed]_vars

\* The summary of a driver adds up: what the ledger credits them over all their
\* trips is the fare of each trip it counts, whatever raced on the way.
SummaryAddsUp ==
  \A d \in Drivers : DriverTakeHome(ledger, d) = Fare * TripsCredited(ledger, d)

-----------------------------------------------------------------------------
\* The inductive invariant.  A request in flight refers to what it may: a
\* confirm to a ride id nobody else knows and no store or gateway has seen, any
\* other handler to a ride that exists, with the driver and the intent it has.
Confirming(c) == req[c].at \in {"authorize", "persistAuthorization"}

CallRefs(c) ==
  IF Confirming(c)
  THEN req[c].ride \in Rides /\ req[c].quote \in Quotes /\ ~Present(req[c].ride)
  ELSE ~At(c, "idle") => req[c].ride \in Rides /\ Present(req[c].ride)

CallMoney(c) ==
  /\ At(c, "authorize") => intents[req[c].ride] = "none"
  /\ At(c, "persistAuthorization") =>
       req[c].intent \in Rides /\ intents[req[c].intent] # "none"
  /\ req[c].at \in {"acceptOffer", "driverKey", "lock", "assignDriver",
                     "payment", "capture", "persistCapture"} => req[c].driver \in Drivers
  /\ req[c].at \in {"payment", "capture", "persistCapture", "void", "persistVoid"} =>
       req[c].intent = rides[req[c].ride].intent
  /\ At(c, "persistCapture") => intents[req[c].intent] = "captured"
  /\ At(c, "persistVoid") /\ Gateway = "stripe" => intents[req[c].intent] = "voided"

Reserved ==
  \A b, c \in Calls : b # c /\ Confirming(c) => req[b].ride # req[c].ride

RowOK(r) ==
  IF Present(r)
  THEN rides[r].intent \in Rides /\ intents[rides[r].intent] # "none"
  ELSE rides[r].driver = None

\* An entry of the ledger belongs to a ride, and is backed by the gateway.
EntryOK(e) ==
  /\ Present(e.ride)
  /\ e.kind = "capture" => intents[rides[e.ride].intent] = "captured"
  /\ e.kind = "void" /\ Gateway = "stripe" => intents[rides[e.ride].intent] = "voided"

\* The row an accept holds while it waits for its driver's can still be
\* claimed, and nobody else holds it: the accept commits what it tested.
HoldsRow(c) ==
  At(c, "driverKey") =>
    /\ Store = "postgres"
    /\ Claimable(req[c].ride)
    /\ \A b \in Calls : At(b, "driverKey") /\ req[b].ride = req[c].ride => b = c

KeyOK(q) == keyed[q] # None => intents[keyed[q]] # "none"

IInv ==
  /\ TypeOK
  /\ \A c \in Calls : CallRefs(c) /\ CallMoney(c)
  /\ \A c \in Calls : HoldsRow(c)
  /\ Reserved
  /\ \A r \in Rides : RowOK(r)
  /\ \A e \in ledger : EntryOK(e)
  /\ \A q \in Quotes : KeyOK(q)
  /\ Store = "postgres" => OneRidePerQuote

-----------------------------------------------------------------------------
\* The books of a ride are whole entry groups, each posted at most once: its
\* hold, its capture in favour of its driver, its void.
BooksOK(r) ==
  \E held \in {AuthorizationPostings(g, r, Fare) : g \in Calls} \cup {{}},
     captured \in {CapturePostings(g, r, rides[r].driver, Fare) : g \in Calls} \cup {{}},
     voided \in {VoidPostings(g, r, Fare) : g \in Calls} \cup {{}} :
    /\ OfRide(ledger, r) = held \cup captured \cup voided
    /\ Present(r) => held # {}
    /\ captured # {} => rides[r].driver # None

\* However retries and races interleave, no entry group is on the books in
\* part or twice, and a payment is not marked settled without its group.
LedgerInv ==
  /\ IsFiniteSet(ledger)
  /\ \A r \in Rides : /\ BooksOK(r)
                      /\ payments[r] = "captured" => Captured(r)
                      /\ payments[r] = "voided" => Voided(r)
  /\ \A c \in Calls : req[c].at \in {"payment", "capture", "persistCapture"}
                         => req[c].driver = rides[req[c].ride].driver

\* Unless a handler dies, Stripe's holds are accounted for: the key of a quote
\* leads to the one intent its rides share, and that intent is authorized for
\* a ride that is there and unsettled or for a confirm about to insert one.
HoldInv ==
  /\ \A r \in Rides :
       Present(r) =>
         /\ rides[r].quote \in Quotes /\ keyed[rides[r].quote] = rides[r].intent
         /\ intents[rides[r].intent] = "authorized" => payments[r] = "authorized"
  /\ \A c \in Calls :
       At(c, "persistAuthorization") => keyed[req[c].quote] = req[c].intent
  /\ \A i \in Rides :
       intents[i] = "authorized" =>
         \/ \E r \in Rides : Present(r) /\ rides[r].intent = i
         \/ \E c \in Calls : At(c, "persistAuthorization") /\ req[c].intent = i
=============================================================================
