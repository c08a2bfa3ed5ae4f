------------------------------ MODULE Earnings ------------------------------
(***************************************************************************)
(* The views of one trip (take-home ledger, trip earnings, receipt), read  *)
(* while the ride flow goes on.  Each is a sequence of separate reads: the *)
(* ride first, then its payment or its ledger.  A view changes nothing the *)
(* ride flow looks at, so one reader at a time tells all they can see.     *)
(***************************************************************************)
EXTENDS RideNow

VARIABLE view   \* the view being read: its next read and what it has so far

viewVars == <<vars, view>>

ViewKinds == {"takeHome", "earnings", "receipt"}

\* charged is the receipt's amountChargedCents: the fare on the row that was
\* read, whatever became of the ride.
Views ==
  [kind : ViewKinds, at : {"ride", "payment", "ledger", "done"},
   ride : Rides \cup {None}, driver : Drivers \cup {None},
   status : RideStatuses, charged : {0, Fare}, paid : BOOLEAN, kept : Int]
NoView ==
  [kind |-> "receipt", at |-> "ride", ride |-> None, driver |-> None,
   status |-> "absent", charged |-> 0, paid |-> FALSE, kept |-> 0]

\* The read that comes after another.
LedgerFirst(kind, at) ==   \* mutant: the payment is read last
  CASE kind = "takeHome" /\ at = "ride"   -> "ledger"
    [] kind = "takeHome" /\ at = "ledger" -> "payment"
    [] kind = "receipt" /\ at = "ride"    -> "payment"
    [] kind = "earnings" /\ at = "ride"   -> "ledger"
    [] OTHER                              -> "done"
NextRead(kind, at) ==
  CASE kind = "takeHome" /\ at = "ride"    -> "payment"
    [] kind = "takeHome" /\ at = "payment" -> "ledger"
    [] kind = "receipt" /\ at = "ride"     -> "payment"
    [] kind = "earnings" /\ at = "ride"    -> "ledger"
    [] OTHER                               -> "done"

Read(at, v) ==
  /\ view.at = at
  /\ view' = [v EXCEPT !.at = NextRead(v.kind, at)]
  /\ UNCHANGED vars

ReadRide(kind, r) ==
  /\ Present(r)
  /\ Read("ride", [NoView EXCEPT !.kind = kind, !.ride = r,
                                 !.driver = rides[r].driver, !.status = rides[r].status,
                                 !.charged = Fare])

ReadPayment == Read("payment", [view EXCEPT !.paid = payments[view.ride] = "captured"])

\* No driver on the row that was read, no take-home.
ReadLedger ==
  Read("ledger",
       [view EXCEPT !.kept =
          IF view.driver = None THEN 0
          ELSE DriverTakeHome(OfRide(ledger, view.ride), view.driver)])

Answer == view.at = "done" /\ view' = NoView /\ UNCHANGED vars

ViewInit == Init /\ view = NoView
ViewNext ==
  \/ Next /\ UNCHANGED view
  \/ \E kind \in ViewKinds, r \in Rides : ReadRide(kind, r)
  \/ ReadPayment \/ ReadLedger \/ Answer
ViewSpec == ViewInit /\ [][ViewNext]_viewVars

-----------------------------------------------------------------------------
Answered(kind) == view.at = "done" /\ view.kind = kind

\* Before the capture the locked fare, after it what the ledger gave.
YouKeep == IF view.paid THEN view.kept ELSE Fare

\* A driver who opens the take-home view of their trip is told the whole fare,
\* at whatever moment the trip is completed under the three reads.
YouKeepIsFare ==
  Answered("takeHome") /\ view.driver # None => YouKeep = Fare

\* The captured flag of a receipt goes with the status it shows, and a completed
\* trip's earnings are the fare.
FlagsAgree ==
  /\ Answered("receipt") => /\ view.status = "completed" => view.paid
                            /\ view.status = "cancelled" => ~view.paid
  /\ Answered("earnings") /\ view.status = "completed" => view.kept = Fare

\* A completed trip's receipt says captured and charges what the ledger credits
\* the driver of the trip, its earnings are the fare, and a cancelled trip's
\* receipt does not say captured.  Of the amount charged nothing is said but for
\* a completed trip: a cancelled ride's receipt shows the whole fare there too.
ViewsAgree ==
  /\ FlagsAgree
  /\ Answered("receipt") /\ view.status = "completed" =>
       view.charged = DriverTakeHome(OfRide(ledger, view.ride), rides[view.ride].driver)

-----------------------------------------------------------------------------
\* The inductive invariant of a reader.  What a view has read stays true behind
\* its back: the driver of the ride, a capture on the books and, with Stripe, the
\* payment of a ride that was over.
ViewInv ==
  LET r == view.ride IN
  /\ view \in Views
  /\ view.at = "payment" => view.kind # "earnings"
  /\ view.at = "ledger" => view.kind # "receipt"
  /\ view.at # "ride" => r \in Rides /\ Present(r)
  /\ view.driver # None => view.at # "ride" /\ rides[r].driver = view.driver
  /\ view.paid => view.at # "ride" /\ Captured(r)
  /\ view.at # "ride" /\ Gateway = "stripe" =>
       /\ view.status = "completed" => payments[r] = "captured" /\ view.driver # None
       /\ view.status = "cancelled" => payments[r] = "voided"
  /\ Answered("takeHome") /\ view.paid /\ view.driver # None => view.kept = Fare
  /\ view.at # "ride" => view.charged = Fare
  /\ Gateway = "stripe" => FlagsAgree
=============================================================================
