---------------------------- MODULE RideNowProofs ----------------------------
(***************************************************************************)
(* Proofs about RideNow, for every set of quotes, rides, drivers and       *)
(* requests in flight, and for both stores and both gateways.              *)
(***************************************************************************)
EXTENDS RideNow, TLAPS

LEMMA InitIInv == Init => IInv
<1> SUFFICES ASSUME Init PROVE IInv
  OBVIOUS
<1> USE DEF Init, StoreInit, GatewayInit, Idle, NoRow
<1>1. TypeOK
  BY NoneAssumption DEF TypeOK, RideRows, RideStatuses, PaymentStatuses, IntentStatuses,
     Requests, Positions, Postings, Deadlines
<1>2. \A c \in Calls : CallRefs(c) /\ CallMoney(c)
  BY DEF CallRefs, CallMoney, Confirming, At
<1>6. \A c \in Calls : HoldsRow(c)
  BY DEF HoldsRow, At
<1>3. Reserved
  BY DEF Reserved, Confirming
<1>4. \A r \in Rides : RowOK(r) /\ ~Present(r)
  BY DEF RowOK, Present
<1>5. \A q \in Quotes : KeyOK(q)
  BY DEF KeyOK
<1> QED
  BY <1>1, <1>2, <1>3, <1>4, <1>5, <1>6 DEF IInv, OneRidePerQuote

-----------------------------------------------------------------------------
(***************************************************************************)
(* Frames.  Most steps change little; each of these lemmas says what is    *)
(* enough for such a step to keep the invariant.                           *)
(***************************************************************************)

\* Nothing but the request table and the clock changes.
LEMMA RequestFrame ==
  ASSUME IInv, NEW c \in Calls, NEW v \in Requests, Go(c, v),
         UNCHANGED <<storeVars, gatewayVars>>, lapsed' \subseteq Deadlines,
         CallRefs(c)', CallMoney(c)',
         v.at = "driverKey" => /\ Store = "postgres"
                               /\ Claimable(v.ride) /\ ~RowHeld(v.ride),
         \A b \in Calls : b # c /\ (Confirming(b) \/ Confirming(c)')
                            => req[b].ride # v.ride
  PROVE  IInv'
<1> USE DEF Go, storeVars, gatewayVars
<1>1. TypeOK'
  BY DEF IInv, TypeOK
<1>2. \A b \in Calls : b # c => req'[b] = req[b]
  BY DEF IInv, TypeOK
<1>3. req'[c] = v
  BY DEF IInv, TypeOK
<1>4. \A b \in Calls : CallRefs(b)' /\ CallMoney(b)'
  <2> SUFFICES ASSUME NEW b \in Calls, b # c PROVE CallRefs(b)' /\ CallMoney(b)'
    OBVIOUS
  <2> QED
    BY <1>2 DEF IInv, CallRefs, CallMoney, Confirming, At, Present
<1>10. \A b \in Calls : HoldsRow(b)'
  <2>1. ASSUME NEW b \in Calls, b # c PROVE HoldsRow(b)'
    BY <2>1, <1>2, <1>3 DEF IInv, HoldsRow, RowHeld, Claimable, At
  <2>2. HoldsRow(c)'
    BY <1>2, <1>3 DEF HoldsRow, RowHeld, Claimable, At
  <2> QED
    BY <2>1, <2>2
<1>5. Reserved'
  BY <1>2, <1>3 DEF IInv, Reserved, Confirming
<1>6. \A r \in Rides : RowOK(r)'
  BY DEF IInv, RowOK, Present
<1>7. \A e \in ledger' : EntryOK(e)'
  BY DEF IInv, EntryOK, Present
<1>8. \A q \in Quotes : KeyOK(q)'
  BY DEF IInv, KeyOK
<1>9. Store = "postgres" => OneRidePerQuote'
  BY DEF IInv, OneRidePerQuote, Present
<1> QED
  BY <1>1, <1>4, <1>5, <1>6, <1>7, <1>8, <1>9, <1>10 DEF IInv

\* A handler ends, or goes on with the ride it has, without writing.
LEMMA HandlerFrame ==
  ASSUME IInv, NEW c \in Calls, NEW v \in Requests, Go(c, v),
         UNCHANGED <<storeVars, gatewayVars, lapsed>>,
         \/ v.at = "idle" /\ v.ride = None
         \/ /\ ~Confirming(c) /\ ~Confirming(c)'
            /\ v.ride = req[c].ride /\ ~At(c, "idle"),
         v.at = "driverKey" => /\ Store = "postgres"
                               /\ Claimable(v.ride) /\ ~RowHeld(v.ride),
         CallMoney(c)'
  PROVE  IInv'
<1>1. req'[c] = v
  BY DEF Go, IInv, TypeOK
<1>2. lapsed' \subseteq Deadlines
  BY DEF IInv, TypeOK
<1>3. CallRefs(c)'
  BY <1>1 DEF IInv, CallRefs, Confirming, At, Present, storeVars
<1>4. \A b \in Calls : b # c /\ (Confirming(b) \/ Confirming(c)')
                         => req[b].ride # v.ride
  BY <1>1, NoneAssumption DEF IInv, CallRefs, Reserved, Confirming
<1> QED
  BY <1>2, <1>3, <1>4, RequestFrame

LEMMA FinishFrame ==
  ASSUME IInv, NEW c \in Calls, Finish(c), UNCHANGED <<storeVars, gatewayVars, lapsed>>
  PROVE  IInv'
<1>1. Idle \in Requests
  BY NoneAssumption DEF Idle, Requests, Positions
<1>2. req'[c] = Idle
  BY <1>1 DEF Finish, Go, IInv, TypeOK
<1>3. CallMoney(c)'
  BY <1>2 DEF CallMoney, At, Idle
<1>4. Idle.at = "idle" /\ Idle.ride = None
  BY DEF Idle
<1>5. Go(c, Idle)
  BY DEF Finish
<1> QED
  BY <1>1, <1>3, <1>4, <1>5, HandlerFrame

-----------------------------------------------------------------------------
(***************************************************************************)
(* Requests that come in.                                                  *)
(***************************************************************************)

LEMMA ConfirmStep ==
  ASSUME IInv, NEW c \in Calls, NEW q \in Quotes, NEW r \in Rides, Confirm(c, q, r)
  PROVE  IInv'
<1> DEFINE v == [Idle EXCEPT !.at = "authorize", !.quote = q, !.ride = r]
<1> USE DEF Confirm
<1>1. v \in Requests
  BY DEF Idle, Requests, Positions
<1>2. req'[c] = v
  BY <1>1 DEF Go, IInv, TypeOK
<1>3. CallRefs(c)' /\ CallMoney(c)'
  BY <1>2 DEF CallRefs, CallMoney, Confirming, At, Idle, Present, FreshRide,
     storeVars, gatewayVars
<1>4. v.at # "driverKey" /\ \A b \in Calls : req[b].ride # v.ride
  BY DEF FreshRide, Idle
<1>5. lapsed' \subseteq Deadlines
  BY DEF IInv, TypeOK
<1>6. Go(c, v)
  BY DEF Idle
<1> HIDE DEF v
<1> QED
  BY <1>1, <1>3, <1>4, <1>5, <1>6, RequestFrame

\* Any other request is about a ride that exists.
LEMMA ArriveFrame ==
  ASSUME IInv, NEW c \in Calls, NEW v \in Requests, Go(c, v),
         UNCHANGED <<storeVars, gatewayVars, lapsed>>,
         v.ride \in Rides, Present(v.ride),
         v.at \notin {"authorize", "persistAuthorization", "driverKey"},
         CallMoney(c)'
  PROVE  IInv'
<1>1. req'[c] = v
  BY DEF Go, IInv, TypeOK
<1>2. CallRefs(c)' /\ ~Confirming(c)'
  BY <1>1 DEF CallRefs, Confirming, At, Present, storeVars
<1>3. \A b \in Calls : b # c /\ (Confirming(b) \/ Confirming(c)')
                         => req[b].ride # v.ride
  BY <1>2 DEF IInv, CallRefs
<1>4. lapsed' \subseteq Deadlines
  BY DEF IInv, TypeOK
<1> QED
  BY <1>2, <1>3, <1>4, RequestFrame

LEMMA ArriveStep ==
  ASSUME IInv, NEW c \in Calls, Arrive(c)
  PROVE  IInv'
<1> USE DEF Idle, Requests, Positions, CallMoney, At, storeVars, gatewayVars
<1>0. TypeOK /\ \A r \in Rides : RowOK(r)
  BY DEF IInv
<1>1. ASSUME NEW r \in Rides, NEW d \in Drivers, Accept(c, r, d)
      PROVE  IInv'
  <2> DEFINE v == [Idle EXCEPT !.at = "acceptOffer", !.ride = r, !.driver = d]
  <2>1. v \in Requests /\ v.ride = r /\ v.at = "acceptOffer" /\ v.driver \in Drivers
    BY NoneAssumption
  <2>2. Go(c, v) /\ UNCHANGED <<storeVars, gatewayVars, lapsed>> /\ Present(r)
    BY <1>1 DEF Accept
  <2>3. CallMoney(c)'
    BY <2>1, <2>2, <1>0 DEF Go, TypeOK
  <2> HIDE DEF v
  <2> QED
    BY <2>1, <2>2, <2>3, ArriveFrame
<1>2. ASSUME NEW r \in Rides, NEW at \in {"startTrip", "wrongOtp"}, StartTrip(c, r, at)
      PROVE  IInv'
  <2> DEFINE v == [Idle EXCEPT !.at = at, !.ride = r, !.n = rides[r].tries]
  <2>1. v \in Requests /\ v.ride = r /\ v.at \in {"startTrip", "wrongOtp"}
    BY <1>0, NoneAssumption DEF TypeOK, RideRows
  <2>2. Go(c, v) /\ UNCHANGED <<storeVars, gatewayVars, lapsed>> /\ Present(r)
    BY <1>2 DEF StartTrip, CanStart, Present
  <2>3. CallMoney(c)'
    BY <2>1, <2>2, <1>0 DEF Go, TypeOK
  <2> HIDE DEF v
  <2> QED
    BY <2>1, <2>2, <2>3, ArriveFrame
<1>3. ASSUME NEW r \in Rides, Complete(c, r)
      PROVE  IInv'
  <2> DEFINE v == [Idle EXCEPT !.at = "payment", !.ride = r,
                               !.driver = rides[r].driver, !.intent = rides[r].intent]
  <2>1. v \in Requests /\ v.ride = r /\ v.at = "payment" /\ v.driver \in Drivers
          /\ v.intent = rides[r].intent
    BY <1>0, <1>3, NoneAssumption DEF TypeOK, RideRows, Complete
  <2>2. Go(c, v) /\ UNCHANGED <<storeVars, gatewayVars, lapsed>> /\ Present(r)
    BY <1>3 DEF Complete, Present, Active
  <2>3. CallMoney(c)'
    BY <2>1, <2>2, <1>0 DEF Go, TypeOK
  <2> HIDE DEF v
  <2> QED
    BY <2>1, <2>2, <2>3, ArriveFrame
<1>4. ASSUME NEW r \in Rides, Cancel(c, r)
      PROVE  IInv'
  <2> DEFINE v == [Idle EXCEPT !.at = "void", !.ride = r, !.intent = rides[r].intent]
  <2>1. v \in Requests /\ v.ride = r /\ v.at = "void" /\ v.intent = rides[r].intent
    BY <1>0, NoneAssumption DEF TypeOK, RideRows
  <2>2. Go(c, v) /\ UNCHANGED <<storeVars, gatewayVars, lapsed>> /\ Present(r)
    BY <1>4 DEF Cancel, Present
  <2>3. CallMoney(c)'
    BY <2>1, <2>2, <1>0 DEF Go, TypeOK
  <2> HIDE DEF v
  <2> QED
    BY <2>1, <2>2, <2>3, ArriveFrame
<1>5. ASSUME NEW r \in Rides, NEW d \in Drivers, AssignTo(c, r, d)
      PROVE  IInv'
  <2> DEFINE v == [Idle EXCEPT !.at = "claim", !.ride = r, !.cands = {d}]
  <2>1. v \in Requests /\ v.ride = r /\ v.at = "claim"
    BY NoneAssumption
  <2>2. Go(c, v) /\ UNCHANGED <<storeVars, gatewayVars, lapsed>> /\ Present(r)
    BY <1>5 DEF AssignTo
  <2>3. CallMoney(c)'
    BY <2>1, <2>2, <1>0 DEF Go, TypeOK
  <2> HIDE DEF v
  <2> QED
    BY <2>1, <2>2, <2>3, ArriveFrame
<1>6. ASSUME NEW r \in Rides, AssignGreedy(c, r)
      PROVE  IInv'
  <2> DEFINE v == [Idle EXCEPT !.at = "rank", !.ride = r]
  <2>1. v \in Requests /\ v.ride = r /\ v.at = "rank"
    BY NoneAssumption
  <2>2. Go(c, v) /\ UNCHANGED <<storeVars, gatewayVars, lapsed>> /\ Present(r)
    BY <1>6 DEF AssignGreedy
  <2>3. CallMoney(c)'
    BY <2>1, <2>2, <1>0 DEF Go, TypeOK
  <2> HIDE DEF v
  <2> QED
    BY <2>1, <2>2, <2>3, ArriveFrame
<1>7. ASSUME NEW r \in Rides, Ping(c, r)
      PROVE  IInv'
  <2> DEFINE v == [Idle EXCEPT !.at = "ping", !.ride = r]
  <2>1. v \in Requests /\ v.ride = r /\ v.at = "ping"
    BY NoneAssumption
  <2>2. Go(c, v) /\ UNCHANGED <<storeVars, gatewayVars, lapsed>> /\ Present(r)
    BY <1>7 DEF Ping, Present
  <2>3. CallMoney(c)'
    BY <2>1, <2>2, <1>0 DEF Go, TypeOK
  <2> HIDE DEF v
  <2> QED
    BY <2>1, <2>2, <2>3, ArriveFrame
<1> QED
  BY <1>1, <1>2, <1>3, <1>4, <1>5, <1>6, <1>7, ConfirmStep DEF Arrive

-----------------------------------------------------------------------------
(***************************************************************************)
(* Steps that write to the store.                                          *)
(***************************************************************************)

\* No other handler holds the row of the ride of this one.
RowIsFree(c) ==
  \A b \in Calls : b # c => ~(At(b, "driverKey") /\ req[b].ride = req[c].ride)

\* A handler writes the row of its ride, which keeps its quote and its
\* intent, books what the gateway backs, and ends.
LEMMA WriteFrame ==
  ASSUME IInv, NEW c \in Calls, ~At(c, "idle"), ~Confirming(c), RowIsFree(c), Finish(c),
         UNCHANGED <<gatewayVars, lapsed, quotes>>,
         NEW row \in RideRows, row.status # "absent",
         row.intent = rides[req[c].ride].intent, row.quote = rides[req[c].ride].quote,
         rides' = [rides EXCEPT ![req[c].ride] = row],
         payments' \in [Rides -> PaymentStatuses],
         ledger' \subseteq Postings(Calls, Rides, Drivers, {0, Fare}),
         pings' \in [Rides -> Seq(Nat)],
         located' \subseteq Drivers,
         \A e \in ledger' \ ledger :
           /\ e.ride = req[c].ride
           /\ e.kind = "capture" => intents[row.intent] = "captured"
           /\ e.kind = "void" /\ Gateway = "stripe" => intents[row.intent] = "voided"
  PROVE  IInv'
<1> DEFINE r == req[c].ride
<1> USE DEF gatewayVars
<1>1. r \in Rides /\ Present(r)
  BY DEF IInv, CallRefs
<1>2. Idle \in Requests /\ Idle.at = "idle" /\ Idle.ride = None
  BY NoneAssumption DEF Idle, Requests, Positions
<1>3. TypeOK'
  BY <1>2 DEF IInv, TypeOK, Finish, Go
<1>4. /\ \A s \in Rides : s # r => rides'[s] = rides[s]
      /\ rides'[r] = row
  BY <1>1 DEF IInv, TypeOK
<1>5. /\ \A s \in Rides : Present(s)' <=> Present(s)
      /\ \A s \in Rides : /\ rides'[s].intent = rides[s].intent
                          /\ rides'[s].quote = rides[s].quote
  BY <1>1, <1>4 DEF Present
<1>6. /\ \A b \in Calls : b # c => req'[b] = req[b]
      /\ req'[c] = Idle
  BY <1>2 DEF IInv, TypeOK, Finish, Go
<1> HIDE DEF r
<1>7. \A b \in Calls : CallRefs(b)' /\ CallMoney(b)'
  <2>1. CallRefs(c)' /\ CallMoney(c)'
    BY <1>2, <1>6 DEF CallRefs, CallMoney, Confirming, At
  <2>2. ASSUME NEW b \in Calls, b # c PROVE CallRefs(b)'
    BY <2>2, <1>5, <1>6 DEF IInv, CallRefs, Confirming, At
  <2>3. ASSUME NEW b \in Calls, b # c PROVE CallMoney(b)'
    <3>1. CallRefs(b) /\ CallMoney(b)
      BY DEF IInv
    <3> QED
      BY <2>3, <3>1, <1>5, <1>6 DEF CallRefs, CallMoney, Confirming, At
  <2> QED
    BY <2>1, <2>2, <2>3
<1>13. \A b \in Calls : HoldsRow(b)'
  <2>1. HoldsRow(c)'
    BY <1>2, <1>6 DEF HoldsRow, At
  <2>2. ASSUME NEW b \in Calls, b # c, At(b, "driverKey") PROVE HoldsRow(b)'
    <3>1. HoldsRow(b) /\ req[b].ride # r /\ req[b].ride \in Rides
      BY <2>2 DEF IInv, RowIsFree, CallRefs, Confirming, At, r
    <3> QED
      BY <2>2, <3>1, <1>2, <1>4, <1>6 DEF HoldsRow, Claimable, At
  <2>3. ASSUME NEW b \in Calls, b # c, ~At(b, "driverKey") PROVE HoldsRow(b)'
    BY <2>3, <1>6 DEF HoldsRow, At
  <2> QED
    BY <2>1, <2>2, <2>3
<1>8. Reserved'
  BY <1>2, <1>6, NoneAssumption DEF IInv, Reserved, Confirming, CallRefs
<1>9. \A s \in Rides : RowOK(s)'
  BY <1>1, <1>4, <1>5 DEF IInv, RowOK
<1>10. \A e \in ledger' : EntryOK(e)'
  <2> SUFFICES ASSUME NEW e \in ledger' PROVE EntryOK(e)'
    OBVIOUS
  <2>1. e.ride \in Rides
    BY DEF Postings
  <2>2. CASE e \in ledger
    BY <2>1, <2>2, <1>5 DEF IInv, EntryOK
  <2>3. CASE e \notin ledger
    BY <2>1, <2>3, <1>1, <1>4, <1>5 DEF EntryOK, r
  <2> QED
    BY <2>2, <2>3
<1>11. \A q \in Quotes : KeyOK(q)'
  BY DEF IInv, KeyOK
<1>12. Store = "postgres" => OneRidePerQuote'
  BY <1>5 DEF IInv, OneRidePerQuote
<1> QED
  BY <1>3, <1>7, <1>8, <1>9, <1>10, <1>11, <1>12, <1>13 DEF IInv

\* Posting loses nothing, adds no more than what is posted, and leaves every
\* key it is given taken.
LEMMA PostFacts ==
  ASSUME NEW entries, NEW ps, NEW universe,
         entries \subseteq universe, ps \subseteq universe
  PROVE  /\ entries \subseteq Post(entries, ps)
         /\ Post(entries, ps) \subseteq universe
         /\ \A e \in Post(entries, ps) \ entries : e \in ps
BY DEF Post, FreshPostings

LEMMA PostingTypes ==
  ASSUME NEW g \in Calls, NEW r \in Rides, NEW d \in Drivers
  PROVE  LET P == Postings(Calls, Rides, Drivers, {0, Fare}) IN
         /\ AuthorizationPostings(g, r, Fare) \subseteq P
         /\ CapturePostings(g, r, d, Fare) \subseteq P
         /\ VoidPostings(g, r, Fare) \subseteq P
BY DEF Postings, AuthorizationPostings, CapturePostings, VoidPostings, Posting,
   Kinds, Accounts, Cash, RiderReceivable, AuthorizationHold, PlatformCommission

LEMMA ClaimWrite ==
  ASSUME IInv, NEW c \in Calls, ~At(c, "idle"), ~Confirming(c), RowIsFree(c), Finish(c),
         UNCHANGED <<gatewayVars, lapsed>>, NEW d \in Drivers, Claim(req[c].ride, d)
  PROVE  IInv'
<1> DEFINE r == req[c].ride
           row == [rides[r] EXCEPT !.status = "accepted", !.driver = d,
                                   !.otp = "live", !.tries = 0]
<1>1. r \in Rides /\ rides[r] \in RideRows
  BY DEF IInv, CallRefs, TypeOK
<1>2. row \in RideRows /\ row.status # "absent" /\ row.intent = rides[r].intent
        /\ row.quote = rides[r].quote
  BY <1>1 DEF RideRows, RideStatuses
<1>3. rides' = [rides EXCEPT ![r] = row]
  BY <1>1 DEF Claim, IInv, TypeOK, RideRows
<1> HIDE DEF row
<1> QED
  BY <1>2, <1>3, WriteFrame DEF Claim, IInv, TypeOK

LEMMA StartTripWriteStep ==
  ASSUME IInv, NEW c \in Calls, StartTripWrite(c)
  PROVE  IInv'
<1> DEFINE r == req[c].ride
           row == [rides[r] EXCEPT !.status = "in_progress", !.started = TRUE,
                                   !.otp = "consumed"]
<1>1. ~At(c, "idle") /\ ~Confirming(c) /\ RowIsFree(c)
  BY DEF StartTripWrite, At, Confirming, RowIsFree, RowHeld
<1>2. r \in Rides /\ rides[r] \in RideRows
  BY <1>1 DEF IInv, CallRefs, TypeOK
<1>3. row \in RideRows /\ row.status # "absent" /\ row.intent = rides[r].intent
        /\ row.quote = rides[r].quote
  BY <1>2 DEF RideRows, RideStatuses
<1>4. rides' = [rides EXCEPT ![r] = row]
  BY <1>2 DEF StartTripWrite, StartRide, IInv, TypeOK, RideRows
<1> HIDE DEF row
<1> QED
  BY <1>1, <1>3, <1>4, WriteFrame DEF StartTripWrite, StartRide, IInv, TypeOK

LEMMA WrongOtpWriteStep ==
  ASSUME IInv, NEW c \in Calls, WrongOtpWrite(c)
  PROVE  IInv'
<1> DEFINE r == req[c].ride
           row == [rides[r] EXCEPT !.tries = req[c].n + 1]
<1>1. ~At(c, "idle") /\ ~Confirming(c) /\ RowIsFree(c)
  BY DEF WrongOtpWrite, At, Confirming, RowIsFree, RowHeld
<1>2. r \in Rides /\ rides[r] \in RideRows /\ Present(r) /\ req[c].n \in Nat
  BY <1>1 DEF IInv, CallRefs, TypeOK, Requests
<1>3. row \in RideRows /\ row.status # "absent" /\ row.intent = rides[r].intent
        /\ row.quote = rides[r].quote
  BY <1>2 DEF RideRows, RideStatuses, Present
<1>4. rides' = [rides EXCEPT ![r] = row]
  BY <1>2 DEF WrongOtpWrite, SetTries, IInv, TypeOK, RideRows
<1> HIDE DEF row
<1> QED
  BY <1>1, <1>3, <1>4, WriteFrame DEF WrongOtpWrite, SetTries, IInv, TypeOK

LEMMA CompletePersistStep ==
  ASSUME IInv, NEW c \in Calls, CompletePersist(c)
  PROVE  IInv'
<1> DEFINE r == req[c].ride
           d == req[c].driver
           row == [rides[r] EXCEPT !.status = "completed"]
           ps == CapturePostings(c, r, d, Fare)
           P == Postings(Calls, Rides, Drivers, {0, Fare})
<1>1. ~At(c, "idle") /\ ~Confirming(c) /\ RowIsFree(c) /\ At(c, "persistCapture")
  BY DEF CompletePersist, At, Confirming, RowIsFree, RowHeld
<1>2. r \in Rides /\ rides[r] \in RideRows /\ d \in Drivers
        /\ intents[rides[r].intent] = "captured"
  BY <1>1 DEF IInv, CallRefs, CallMoney, TypeOK, At
<1>3. row \in RideRows /\ row.status # "absent" /\ row.intent = rides[r].intent
        /\ row.quote = rides[r].quote
  BY <1>2 DEF RideRows, RideStatuses
<1>4. rides' = [rides EXCEPT ![r] = row] /\ ledger' = Post(ledger, ps)
  BY <1>2 DEF CompletePersist, PersistCapture, IInv, TypeOK, RideRows
<1>5. ledger \subseteq P /\ ps \subseteq P
  BY <1>2, PostingTypes DEF IInv, TypeOK
<1>6. \A e \in ps : e.ride = r /\ e.kind # "void"
  BY DEF CapturePostings, Posting
<1>7. payments' \in [Rides -> PaymentStatuses]
  BY DEF CompletePersist, PersistCapture, IInv, TypeOK, PaymentStatuses
<1>8. /\ UNCHANGED <<gatewayVars, lapsed, quotes>> /\ Finish(c)
      /\ pings' \in [Rides -> Seq(Nat)] /\ located' \subseteq Drivers
  BY DEF CompletePersist, PersistCapture, IInv, TypeOK
<1> HIDE DEF row, ps, P
<1>9. ledger' \subseteq P /\ \A e \in ledger' \ ledger : e \in ps
  BY <1>4, <1>5, PostFacts
<1>10. \A e \in ledger' \ ledger :
         /\ e.ride = r
         /\ e.kind = "capture" => intents[row.intent] = "captured"
         /\ e.kind = "void" /\ Gateway = "stripe" => intents[row.intent] = "voided"
  BY <1>2, <1>3, <1>6, <1>9
<1> QED
  BY <1>1, <1>3, <1>4, <1>7, <1>8, <1>9, <1>10, WriteFrame DEF P

LEMMA CancelPersistStep ==
  ASSUME IInv, NEW c \in Calls, CancelPersist(c)
  PROVE  IInv'
<1> DEFINE r == req[c].ride
           row == [rides[r] EXCEPT !.status = "cancelled"]
           ps == VoidPostings(c, r, Fare)
           P == Postings(Calls, Rides, Drivers, {0, Fare})
<1>1. ~At(c, "idle") /\ ~Confirming(c) /\ RowIsFree(c) /\ At(c, "persistVoid")
  BY DEF CancelPersist, At, Confirming, RowIsFree, RowHeld
<1>2. r \in Rides /\ rides[r] \in RideRows
        /\ (Gateway = "stripe" => intents[rides[r].intent] = "voided")
  BY <1>1 DEF IInv, CallRefs, CallMoney, TypeOK, At
<1>3. row \in RideRows /\ row.status # "absent" /\ row.intent = rides[r].intent
        /\ row.quote = rides[r].quote
  BY <1>2 DEF RideRows, RideStatuses
<1>4. rides' = [rides EXCEPT ![r] = row] /\ ledger' = Post(ledger, ps)
  BY <1>2 DEF CancelPersist, PersistVoid, IInv, TypeOK, RideRows
<1>5. ledger \subseteq P /\ ps \subseteq P
  <2>1. ps \subseteq P
    BY <1>2 DEF Postings, VoidPostings, Posting, Kinds, Accounts,
       RiderReceivable, AuthorizationHold
  <2> QED
    BY <2>1 DEF IInv, TypeOK
<1>6. \A e \in ps : e.ride = r /\ e.kind = "void"
  BY DEF VoidPostings, Posting
<1>7. payments' \in [Rides -> PaymentStatuses]
  BY DEF CancelPersist, PersistVoid, IInv, TypeOK, PaymentStatuses
<1>8. /\ UNCHANGED <<gatewayVars, lapsed, quotes>> /\ Finish(c)
      /\ pings' \in [Rides -> Seq(Nat)] /\ located' \subseteq Drivers
  BY DEF CancelPersist, PersistVoid, IInv, TypeOK
<1> HIDE DEF row, ps, P
<1>9. ledger' \subseteq P /\ \A e \in ledger' \ ledger : e \in ps
  BY <1>4, <1>5, PostFacts
<1>10. \A e \in ledger' \ ledger :
         /\ e.ride = r
         /\ e.kind = "capture" => intents[row.intent] = "captured"
         /\ e.kind = "void" /\ Gateway = "stripe" => intents[row.intent] = "voided"
  BY <1>2, <1>3, <1>6, <1>9
<1> QED
  BY <1>1, <1>3, <1>4, <1>7, <1>8, <1>9, <1>10, WriteFrame DEF P

LEMMA InsertPingWrite ==
  ASSUME IInv, NEW c \in Calls, ~At(c, "idle"), ~Confirming(c), RowIsFree(c), Finish(c),
         UNCHANGED <<gatewayVars, lapsed>>, NEW n \in Nat, InsertPing(req[c].ride, n)
  PROVE  IInv'
<1> DEFINE r == req[c].ride
           row == rides[r]
<1>1. r \in Rides /\ row \in RideRows /\ row.status # "absent"
  BY DEF IInv, CallRefs, TypeOK, Present
<1>2. rides' = [rides EXCEPT ![r] = row]
  BY DEF InsertPing, IInv, TypeOK
<1>3. pings' \in [Rides -> Seq(Nat)]
  BY <1>1 DEF InsertPing, IInv, TypeOK
<1> HIDE DEF row
<1>4. row.intent = rides[r].intent /\ row.quote = rides[r].quote
  BY DEF row
<1> QED
  BY <1>1, <1>2, <1>3, <1>4, WriteFrame DEF InsertPing, IInv, TypeOK

-----------------------------------------------------------------------------
(***************************************************************************)
(* Steps at the gateway.                                                   *)
(***************************************************************************)

\* The gateway forgets no intent, no capture and, with Stripe, no void.
LEMMA GatewayFrame ==
  ASSUME IInv, NEW c \in Calls, ~At(c, "idle"), NEW v \in Requests, Go(c, v),
         v.at \notin {"idle", "driverKey"}, v.ride = req[c].ride, v.quote = req[c].quote,
         v.at \in {"authorize", "persistAuthorization"} <=> Confirming(c),
         UNCHANGED <<storeVars, lapsed>>,
         intents' \in [Rides -> IntentStatuses],
         keyed' \in [Quotes -> Rides \cup {None}],
         \A i \in Rides :
           /\ intents[i] # "none" => intents'[i] # "none"
           /\ intents[i] = "captured" => intents'[i] = "captured"
           /\ intents[i] = "voided" /\ Gateway = "stripe" => intents'[i] = "voided",
         \A b \in Calls : b # c /\ At(b, "authorize") => intents'[req[b].ride] = "none",
         \A q \in Quotes : KeyOK(q)',
         CallMoney(c)'
  PROVE  IInv'
<1> USE DEF storeVars
<1>1. TypeOK'
  BY DEF IInv, TypeOK, Go
<1>2. /\ \A b \in Calls : b # c => req'[b] = req[b]
      /\ req'[c] = v
  BY DEF IInv, TypeOK, Go
<1>3. \A r \in Rides : Present(r) => rides[r].intent \in Rides
  BY DEF IInv, RowOK
<1>4. \A b \in Calls : CallRefs(b)' /\ CallMoney(b)'
  <2>1. CallRefs(c)'
    BY <1>2 DEF IInv, CallRefs, Confirming, At, Present
  <2>2. ASSUME NEW b \in Calls, b # c PROVE CallRefs(b)'
    BY <2>2, <1>2 DEF IInv, CallRefs, Confirming, At, Present
  <2>3. ASSUME NEW b \in Calls, b # c PROVE CallMoney(b)'
    <3>1. CallRefs(b) /\ CallMoney(b)
      BY DEF IInv
    <3> QED
      BY <2>3, <3>1, <1>2, <1>3 DEF CallRefs, CallMoney, Confirming, At
  <2> QED
    BY <2>1, <2>2, <2>3
<1>9. \A b \in Calls : HoldsRow(b)'
  <2>1. HoldsRow(c)'
    BY <1>2 DEF HoldsRow, At
  <2>2. ASSUME NEW b \in Calls, b # c PROVE HoldsRow(b)'
    BY <2>2, <1>2 DEF IInv, HoldsRow, Claimable, At
  <2> QED
    BY <2>1, <2>2
<1>5. Reserved'
  BY <1>2 DEF IInv, Reserved, Confirming
<1>6. \A r \in Rides : RowOK(r)'
  BY DEF IInv, RowOK, Present
<1>7. \A e \in ledger' : EntryOK(e)'
  <2> SUFFICES ASSUME NEW e \in ledger PROVE EntryOK(e)'
    OBVIOUS
  <2>1. e.ride \in Rides
    BY DEF IInv, TypeOK, Postings
  <2> QED
    BY <2>1, <1>3 DEF IInv, EntryOK, Present
<1>8. Store = "postgres" => OneRidePerQuote'
  BY DEF IInv, OneRidePerQuote, Present
<1> QED
  BY <1>1, <1>4, <1>5, <1>6, <1>7, <1>8, <1>9 DEF IInv

LEMMA ConfirmAuthorizeStep ==
  ASSUME IInv, NEW c \in Calls, ConfirmAuthorize(c)
  PROVE  IInv'
<1> DEFINE q == req[c].quote
           r == req[c].ride
           i == AuthorizeResult(q, r)
           v == [req[c] EXCEPT !.at = "persistAuthorization", !.intent = i]
<1>1. ~At(c, "idle") /\ Confirming(c) /\ At(c, "authorize")
  BY DEF ConfirmAuthorize, At, Confirming
<1>2. q \in Quotes /\ r \in Rides /\ intents[r] = "none" /\ req[c] \in Requests
  BY <1>1 DEF IInv, TypeOK, CallRefs, CallMoney
<1>3. i \in Rides /\ (i # r => intents[i] # "none")
  BY <1>2 DEF IInv, TypeOK, KeyOK, AuthorizeResult
<1>4. /\ v \in Requests /\ Go(c, v) /\ v.at = "persistAuthorization"
      /\ v.ride = r /\ v.quote = q /\ v.intent = i
  BY <1>2, <1>3 DEF ConfirmAuthorize, Requests, Positions
<1>5. /\ intents' = IF i = r THEN [intents EXCEPT ![r] = "authorized"] ELSE intents
      /\ keyed' = IF Gateway = "stripe" THEN [keyed EXCEPT ![q] = i] ELSE keyed
      /\ UNCHANGED <<storeVars, lapsed>>
  BY DEF ConfirmAuthorize, Authorize
<1> HIDE DEF v, i
<1>6. /\ intents' \in [Rides -> IntentStatuses]
      /\ keyed' \in [Quotes -> Rides \cup {None}]
  BY <1>2, <1>3, <1>5 DEF IInv, TypeOK, IntentStatuses
<1>7. /\ \A j \in Rides : j # r => intents'[j] = intents[j]
      /\ intents'[i] # "none" /\ \A j \in Rides : intents[j] # "none" => intents'[j] # "none"
  BY <1>2, <1>3, <1>5 DEF IInv, TypeOK
<1>8. \A b \in Calls : b # c /\ At(b, "authorize") => intents'[req[b].ride] = "none"
  BY <1>1, <1>7 DEF IInv, Reserved, CallRefs, CallMoney, Confirming, At
<1>9. \A p \in Quotes : KeyOK(p)'
  BY <1>2, <1>3, <1>5, <1>7 DEF IInv, TypeOK, KeyOK
<1>10. CallMoney(c)'
  BY <1>3, <1>4, <1>7 DEF CallMoney, At, Go, IInv, TypeOK
<1> QED
  BY <1>1, <1>2, <1>4, <1>5, <1>6, <1>7, <1>8, <1>9, <1>10, GatewayFrame

LEMMA CompleteCaptureStep ==
  ASSUME IInv, NEW c \in Calls, CompleteCapture(c)
  PROVE  IInv'
<1> DEFINE i == req[c].intent
           v == [req[c] EXCEPT !.at = "persistCapture"]
<1>1. ~At(c, "idle") /\ ~Confirming(c) /\ At(c, "capture")
  BY DEF CompleteCapture, At, Confirming
<1>2. CASE ~CanCapture(i)
  BY <1>2, FinishFrame DEF CompleteCapture, gatewayVars
<1>3. CASE CanCapture(i)
  <2>1. /\ req[c] \in Requests /\ req[c].driver \in Drivers
        /\ req[c].ride \in Rides /\ i = rides[req[c].ride].intent /\ i \in Rides
    BY <1>1 DEF IInv, TypeOK, CallRefs, CallMoney, RowOK, At
  <2>2. /\ v \in Requests /\ v.at = "persistCapture" /\ v.ride = req[c].ride
        /\ v.quote = req[c].quote /\ v.driver = req[c].driver /\ v.intent = i
    BY <2>1 DEF Requests, Positions
  <2>3. /\ Go(c, v) /\ intents' = [intents EXCEPT ![i] = "captured"]
        /\ UNCHANGED <<storeVars, lapsed, keyed>>
    BY <1>3, <2>1 DEF CompleteCapture, Capture, Goto, Go, IInv, TypeOK, Requests
  <2> HIDE DEF v, i
  <2>4. intents' \in [Rides -> IntentStatuses] /\ keyed' \in [Quotes -> Rides \cup {None}]
    BY <2>3 DEF IInv, TypeOK, IntentStatuses
  <2>5. /\ intents'[i] = "captured"
        /\ \A j \in Rides : j # i => intents'[j] = intents[j]
    BY <2>1, <2>3 DEF IInv, TypeOK
  <2>6. \A b \in Calls : b # c /\ At(b, "authorize") => intents'[req[b].ride] = "none"
    <3> SUFFICES ASSUME NEW b \in Calls, At(b, "authorize")
                 PROVE  intents'[req[b].ride] = "none"
      OBVIOUS
    <3>1. req[b].ride \in Rides /\ intents[req[b].ride] = "none"
      BY DEF IInv, CallRefs, CallMoney, Confirming, At
    <3> QED
      BY <3>1, <2>5, <1>3 DEF CanCapture
  <2>7. \A q \in Quotes : KeyOK(q)'
    BY <2>3, <2>5 DEF IInv, TypeOK, KeyOK
  <2>8. CallMoney(c)'
    BY <2>1, <2>2, <2>3, <2>5 DEF CallMoney, At, Go, IInv, TypeOK, storeVars
  <2>9. \A j \in Rides :
           /\ intents[j] # "none" => intents'[j] # "none"
           /\ intents[j] = "captured" => intents'[j] = "captured"
           /\ intents[j] = "voided" /\ Gateway = "stripe" => intents'[j] = "voided"
    BY <2>5, <1>3 DEF CanCapture
  <2> QED
    BY <1>1, <2>2, <2>3, <2>4, <2>6, <2>7, <2>8, <2>9, GatewayFrame DEF Confirming
<1> QED
  BY <1>2, <1>3

LEMMA CancelVoidStep ==
  ASSUME IInv, NEW c \in Calls, CancelVoid(c)
  PROVE  IInv'
<1> DEFINE i == req[c].intent
           v == [req[c] EXCEPT !.at = "persistVoid"]
<1>1. ~At(c, "idle") /\ ~Confirming(c) /\ At(c, "void")
  BY DEF CancelVoid, At, Confirming
<1>2. CASE ~CanVoid(i)
  BY <1>2, FinishFrame DEF CancelVoid, gatewayVars
<1>3. CASE CanVoid(i)
  <2>1. /\ req[c] \in Requests
        /\ req[c].ride \in Rides /\ i = rides[req[c].ride].intent /\ i \in Rides
    BY <1>1 DEF IInv, TypeOK, CallRefs, CallMoney, RowOK, At
  <2>2. /\ v \in Requests /\ v.at = "persistVoid" /\ v.ride = req[c].ride
        /\ v.quote = req[c].quote /\ v.intent = i
    BY <2>1 DEF Requests, Positions
  <2>3. /\ Go(c, v) /\ UNCHANGED <<storeVars, lapsed, keyed>>
        /\ intents' = IF intents[i] = "authorized"
                      THEN [intents EXCEPT ![i] = "voided"] ELSE intents
    BY <1>3, <2>1 DEF CancelVoid, Void, Goto, Go, IInv, TypeOK, Requests
  <2> HIDE DEF v, i
  <2>4. intents' \in [Rides -> IntentStatuses] /\ keyed' \in [Quotes -> Rides \cup {None}]
    BY <2>3 DEF IInv, TypeOK, IntentStatuses
  <2>5. /\ Gateway = "stripe" => intents'[i] = "voided"
        /\ \A j \in Rides : intents'[j] = intents[j] \/ (intents[j] = "authorized" /\ intents'[j] = "voided")
    BY <2>1, <2>3, <1>3, GatewayAssumption DEF IInv, TypeOK, CanVoid
  <2>6. \A b \in Calls : b # c /\ At(b, "authorize") => intents'[req[b].ride] = "none"
    <3> SUFFICES ASSUME NEW b \in Calls, At(b, "authorize")
                 PROVE  intents'[req[b].ride] = "none"
      OBVIOUS
    <3>1. req[b].ride \in Rides /\ intents[req[b].ride] = "none"
      BY DEF IInv, CallRefs, CallMoney, Confirming, At
    <3> QED
      BY <3>1, <2>5
  <2>7. \A q \in Quotes : KeyOK(q)'
    BY <2>3, <2>5 DEF IInv, TypeOK, KeyOK
  <2>8. CallMoney(c)'
    BY <2>1, <2>2, <2>3, <2>5 DEF CallMoney, At, Go, IInv, TypeOK, storeVars
  <2>9. \A j \in Rides :
           /\ intents[j] # "none" => intents'[j] # "none"
           /\ intents[j] = "captured" => intents'[j] = "captured"
           /\ intents[j] = "voided" /\ Gateway = "stripe" => intents'[j] = "voided"
    BY <2>5
  <2> QED
    BY <1>1, <2>2, <2>3, <2>4, <2>6, <2>7, <2>8, <2>9, GatewayFrame DEF Confirming
<1> QED
  BY <1>2, <1>3

-----------------------------------------------------------------------------
(***************************************************************************)
(* The insertion of a ride: nobody else refers to it, and in Postgres no   *)
(* other ride has its quote.                                               *)
(***************************************************************************)
LEMMA ConfirmPersistStep ==
  ASSUME IInv, NEW c \in Calls, ConfirmPersist(c)
  PROVE  IInv'
<1> DEFINE q == req[c].quote
           r == req[c].ride
           i == req[c].intent
           ps == AuthorizationPostings(c, r, Fare)
           P == Postings(Calls, Rides, Drivers, {0, Fare})
<1>1. ~At(c, "idle") /\ Confirming(c) /\ At(c, "persistAuthorization")
  BY DEF ConfirmPersist, At, Confirming
<1>2. CASE UniqueViolation(q, i)
  BY <1>2, FinishFrame DEF ConfirmPersist
<1>3. CASE ~UniqueViolation(q, i)
  <2>1. /\ q \in Quotes /\ r \in Rides /\ ~Present(r)
        /\ i \in Rides /\ intents[i] # "none"
    BY <1>1 DEF IInv, CallRefs, CallMoney
  <2>2. PersistAuthorization(r, q, i, c) /\ Finish(c) /\ UNCHANGED <<gatewayVars, lapsed>>
    BY <1>3 DEF ConfirmPersist
  <2>3. OfferedRow(q, i) \in RideRows /\ OfferedRow(q, i).status = "offered"
          /\ OfferedRow(q, i).intent = i /\ OfferedRow(q, i).quote = q
    BY <2>1 DEF OfferedRow, NoRow, RideRows, RideStatuses
  <2>4. /\ rides'[r] = OfferedRow(q, i)
        /\ \A s \in Rides : s # r => rides'[s] = rides[s]
    BY <2>1, <2>2 DEF PersistAuthorization, IInv, TypeOK
  <2>5. Idle \in Requests /\ Idle.at = "idle" /\ Idle.ride = None
    BY NoneAssumption DEF Idle, Requests, Positions
  <2>6. /\ \A b \in Calls : b # c => req'[b] = req[b]
        /\ req'[c] = Idle
    BY <2>2, <2>5 DEF IInv, TypeOK, Finish, Go
  <2>7. \A e \in ps : e.ride = r /\ e.kind = "authorization"
    BY DEF AuthorizationPostings, Posting
  <2>8. ledger \subseteq P /\ ps \subseteq P
    <3>1. ps \subseteq P
      BY <2>1 DEF Postings, AuthorizationPostings, Posting, Kinds, Accounts,
         RiderReceivable, AuthorizationHold
    <3> QED
      BY <3>1 DEF IInv, TypeOK
  <2>9. ledger' = Post(ledger, ps)
    BY <2>2 DEF PersistAuthorization
  <2> HIDE DEF ps, P, q, r, i
  <2>10. ledger' \subseteq P /\ \A e \in ledger' \ ledger : e \in ps
    BY <2>8, <2>9, PostFacts
  <2>11. TypeOK'
    <3>1. rides' \in [Rides -> RideRows]
      BY <2>2, <2>3 DEF PersistAuthorization, IInv, TypeOK
    <3>2. payments' \in [Rides -> PaymentStatuses]
            /\ quotes' \in [Quotes -> {"none", "active", "consumed"}]
      BY <2>2 DEF PersistAuthorization, IInv, TypeOK, PaymentStatuses
    <3>3. req' \in [Calls -> Requests]
      BY <2>2, <2>5 DEF IInv, TypeOK, Finish, Go
    <3> QED
      BY <2>2, <2>10, <3>1, <3>2, <3>3
         DEF PersistAuthorization, P, IInv, TypeOK, gatewayVars
  <2>12. /\ rides'[r].status # "absent"
         /\ \A s \in Rides : s # r => (Present(s)' <=> Present(s))
    BY <2>3, <2>4 DEF Present
  <2>13. \A b \in Calls : CallRefs(b)' /\ CallMoney(b)'
    <3>1. CallRefs(c)' /\ CallMoney(c)'
      BY <2>5, <2>6 DEF CallRefs, CallMoney, Confirming, At
    <3>2. ASSUME NEW b \in Calls, b # c PROVE req[b].ride # r
      BY <3>2, <1>1, <2>1, NoneAssumption DEF IInv, Reserved, r
    <3>3. ASSUME NEW b \in Calls, b # c PROVE CallRefs(b)'
      BY <3>2, <3>3, <2>6, <2>12 DEF IInv, CallRefs, Confirming, At
    <3>4. ASSUME NEW b \in Calls, b # c PROVE CallMoney(b)'
      <4>1. CallRefs(b) /\ CallMoney(b)
        BY DEF IInv
      <4> QED
        BY <4>1, <3>2, <3>4, <2>2, <2>4, <2>6 DEF CallRefs, CallMoney, Confirming, At, gatewayVars
    <3> QED
      BY <3>1, <3>3, <3>4
  <2>19. \A b \in Calls : HoldsRow(b)'
    <3>1. HoldsRow(c)'
      BY <2>5, <2>6 DEF HoldsRow, At
    <3>2. ASSUME NEW b \in Calls, b # c, At(b, "driverKey") PROVE HoldsRow(b)'
      <4>1. HoldsRow(b) /\ req[b].ride \in Rides /\ req[b].ride # r
        BY <2>1, <3>2 DEF IInv, CallRefs, Confirming, At
      <4> QED
        BY <3>2, <4>1, <2>4, <2>5, <2>6 DEF HoldsRow, Claimable, At
    <3>3. ASSUME NEW b \in Calls, b # c, ~At(b, "driverKey") PROVE HoldsRow(b)'
      BY <3>3, <2>6 DEF HoldsRow, At
    <3> QED
      BY <3>1, <3>2, <3>3
  <2>14. Reserved'
    BY <2>5, <2>6, NoneAssumption DEF IInv, Reserved, CallRefs, Confirming
  <2>15. \A s \in Rides : RowOK(s)'
    <3> SUFFICES ASSUME NEW s \in Rides PROVE RowOK(s)'
      OBVIOUS
    <3>1. UNCHANGED intents /\ RowOK(s)
      BY <2>2 DEF gatewayVars, IInv
    <3>2. CASE s = r
      BY <3>1, <3>2, <2>1, <2>3, <2>4, <2>12 DEF RowOK, Present
    <3>3. CASE s # r
      BY <3>1, <3>3, <2>4, <2>12 DEF RowOK
    <3> QED
      BY <3>2, <3>3
  <2>16. \A e \in ledger' : EntryOK(e)'
    <3> SUFFICES ASSUME NEW e \in ledger' PROVE EntryOK(e)'
      OBVIOUS
    <3>1. CASE e \in ledger
      <4>1. EntryOK(e) /\ e.ride \in Rides
        BY <3>1 DEF IInv, TypeOK, Postings
      <4> QED
        BY <4>1, <2>1, <2>2, <2>4, <2>12 DEF EntryOK, gatewayVars
    <3>2. CASE e \notin ledger
      BY <3>2, <2>1, <2>7, <2>10, <2>12 DEF EntryOK, Present
    <3> QED
      BY <3>1, <3>2
  <2>17. \A p \in Quotes : KeyOK(p)'
    BY <2>2 DEF IInv, KeyOK, gatewayVars
  <2>18. Store = "postgres" => OneRidePerQuote'
    BY <1>3, <2>1, <2>3, <2>4, <2>12 DEF IInv, OneRidePerQuote, UniqueViolation, q, i
  <2> QED
    BY <2>11, <2>13, <2>14, <2>15, <2>16, <2>17, <2>18, <2>19 DEF IInv
<1> QED
  BY <1>2, <1>3

-----------------------------------------------------------------------------
(***************************************************************************)
(* Accepting, dispatching and pinging.                                     *)
(***************************************************************************)
LEMMA AcceptOfferStep ==
  ASSUME IInv, NEW c \in Calls, AcceptOffer(c)
  PROVE  IInv'
<1> DEFINE r == req[c].ride
           v == [req[c] EXCEPT !.at = "driverKey"]
<1>1. /\ ~At(c, "idle") /\ ~Confirming(c) /\ req[c].driver \in Drivers
      /\ req[c] \in Requests /\ UNCHANGED <<gatewayVars, lapsed>>
  BY DEF AcceptOffer, At, Confirming, IInv, CallMoney, TypeOK
<1>2. CASE UNCHANGED storeVars /\ Finish(c)
  BY <1>1, <1>2, FinishFrame
<1>3. CASE ~RowHeld(r) /\ Claim(r, req[c].driver) /\ Finish(c)
  <2>1. RowIsFree(c)
    BY <1>3 DEF RowIsFree, RowHeld
  <2> QED
    BY <1>1, <1>3, <2>1, ClaimWrite
<1>4. CASE /\ Store = "postgres" /\ Claimable(r) /\ ~RowHeld(r)
           /\ UNCHANGED storeVars /\ Goto(c, "driverKey")
  <2>1. /\ v \in Requests /\ v.at = "driverKey" /\ v.ride = r
        /\ v.driver = req[c].driver
    BY <1>1 DEF Requests, Positions
  <2>2. Go(c, v)
    BY <1>1, <1>4 DEF Goto, Go
  <2> HIDE DEF v
  <2>3. CallMoney(c)' /\ ~Confirming(c)'
    BY <1>1, <2>1, <2>2 DEF CallMoney, Confirming, At, Go, IInv, TypeOK
  <2> QED
    BY <1>1, <1>4, <2>1, <2>2, <2>3, HandlerFrame
<1> QED
  BY <1>2, <1>3, <1>4 DEF AcceptOffer

\* The accept that waited holds its ride's row alone, so nobody else's claim
\* is written over.
LEMMA AcceptCommitStep ==
  ASSUME IInv, NEW c \in Calls, AcceptCommit(c)
  PROVE  IInv'
<1>1. ~At(c, "idle") /\ ~Confirming(c) /\ req[c].driver \in Drivers
  BY DEF AcceptCommit, At, Confirming, IInv, CallMoney
<1>2. RowIsFree(c)
  BY DEF AcceptCommit, IInv, HoldsRow, RowIsFree
<1> QED
  BY <1>1, <1>2, ClaimWrite DEF AcceptCommit

LEMMA CompletePaymentStep ==
  ASSUME IInv, NEW c \in Calls, CompletePayment(c)
  PROVE  IInv'
<1> DEFINE v == [req[c] EXCEPT !.at = "capture"]
<1>1. CASE payments[req[c].ride] = "authorized"
  <2>1. ~At(c, "idle") /\ ~Confirming(c) /\ req[c] \in Requests
    BY DEF CompletePayment, At, Confirming, IInv, TypeOK
  <2>2. v \in Requests /\ v.at = "capture" /\ v.ride = req[c].ride
          /\ v.driver = req[c].driver /\ v.intent = req[c].intent
    BY <2>1 DEF Requests, Positions
  <2>3. Go(c, v) /\ UNCHANGED <<storeVars, gatewayVars, lapsed>>
    BY <1>1 DEF CompletePayment, Goto, Go, IInv, TypeOK, Requests
  <2> HIDE DEF v
  <2>4. CallMoney(c)' /\ ~Confirming(c)'
    BY <2>2, <2>3 DEF CompletePayment, CallMoney, Confirming, At, Go, IInv, TypeOK, storeVars
  <2> QED
    BY <2>1, <2>2, <2>3, <2>4, HandlerFrame
<1>2. CASE payments[req[c].ride] # "authorized"
  BY <1>2, FinishFrame DEF CompletePayment
<1> QED
  BY <1>1, <1>2

\* A failed claim goes on with the same ride.
LEMMA NextCandidateFrame ==
  ASSUME IInv, NEW c \in Calls, ~At(c, "idle"), ~Confirming(c), NEW d,
         NextCandidate(c, d), UNCHANGED <<storeVars, gatewayVars, lapsed>>
  PROVE  IInv'
<1> DEFINE v == [req[c] EXCEPT !.at = "claim", !.driver = None, !.cands = @ \ {d}]
<1>1. req[c] \in Requests
  BY DEF IInv, TypeOK
<1>2. v \in Requests /\ v.at = "claim" /\ v.ride = req[c].ride
  BY <1>1 DEF Requests, Positions
<1>3. Go(c, v)
  BY DEF NextCandidate
<1> HIDE DEF v
<1>4. CallMoney(c)' /\ ~Confirming(c)'
  BY <1>2, <1>3 DEF CallMoney, Confirming, At, Go, IInv, TypeOK
<1> QED
  BY <1>2, <1>3, <1>4, HandlerFrame

LEMMA DispatchStepKeeps ==
  ASSUME IInv, NEW c \in Calls, DispatchStep(c)
  PROVE  IInv'
<1>0. req[c] \in Requests
  BY DEF IInv, TypeOK
<1>1. CASE Rank(c)
  <2> DEFINE v == [req[c] EXCEPT !.at = "claim", !.cands = AvailableDrivers]
  <2>1. ~At(c, "idle") /\ ~Confirming(c)
    BY <1>1 DEF Rank, At, Confirming
  <2>2. v \in Requests /\ v.at = "claim" /\ v.ride = req[c].ride
    BY <1>0 DEF Requests, Positions, AvailableDrivers, IInv, TypeOK
  <2>3. Go(c, v) /\ UNCHANGED <<storeVars, gatewayVars, lapsed>>
    BY <1>1 DEF Rank
  <2> HIDE DEF v
  <2>4. CallMoney(c)' /\ ~Confirming(c)'
    BY <2>2, <2>3 DEF CallMoney, Confirming, At, Go, IInv, TypeOK
  <2> QED
    BY <2>1, <2>2, <2>3, <2>4, HandlerFrame
<1>2. CASE TryClaim(c)
  <2>1. ~At(c, "idle") /\ ~Confirming(c) /\ UNCHANGED <<gatewayVars, lapsed>>
    BY <1>2 DEF TryClaim, At, Confirming
  <2>2. PICK d \in req[c].cands : TryClaimMemory(c, d) \/ TryClaimPostgres(c, d)
    BY <1>2 DEF TryClaim
  <2>3. d \in Drivers
    BY <1>0 DEF Requests
  <2>4. CASE TryClaimMemory(c, d)
    <3>1. RowIsFree(c)
      BY <2>4, StoreAssumption DEF TryClaimMemory, IInv, HoldsRow, RowIsFree
    <3> QED
      BY <2>1, <2>3, <2>4, <3>1, ClaimWrite, NextCandidateFrame DEF TryClaimMemory
  <2>5. CASE TryClaimPostgres(c, d)
    <3> DEFINE v == [req[c] EXCEPT !.at = "lock", !.driver = d]
    <3>1. CASE NextCandidate(c, d)
      BY <2>1, <2>5, <3>1, NextCandidateFrame DEF TryClaimPostgres
    <3>2. CASE Go(c, v)
      <4>1. v \in Requests /\ v.at = "lock" /\ v.ride = req[c].ride /\ v.driver = d
        BY <1>0, <2>3 DEF Requests, Positions
      <4>2. UNCHANGED <<storeVars, gatewayVars, lapsed>>
        BY <2>1, <2>5 DEF TryClaimPostgres
      <4> HIDE DEF v
      <4>3. CallMoney(c)' /\ ~Confirming(c)'
        BY <2>3, <3>2, <4>1 DEF CallMoney, Confirming, At, Go, IInv, TypeOK
      <4> QED
        BY <2>1, <3>2, <4>1, <4>2, <4>3, HandlerFrame
    <3> QED
      BY <2>5, <3>1, <3>2 DEF TryClaimPostgres
  <2> QED
    BY <2>2, <2>4, <2>5
<1>3. CASE LockDriver(c)
  <2> DEFINE v == [req[c] EXCEPT !.at = "assignDriver"]
  <2>1. ~At(c, "idle") /\ ~Confirming(c) /\ UNCHANGED <<storeVars, gatewayVars, lapsed>>
    BY <1>3 DEF LockDriver, At, Confirming
  <2>2. CASE Busy(req[c].driver)
    BY <1>3, <2>1, <2>2, NextCandidateFrame DEF LockDriver
  <2>3. CASE ~Busy(req[c].driver)
    <3>1. /\ v \in Requests /\ v.at = "assignDriver" /\ v.ride = req[c].ride
          /\ v.driver = req[c].driver /\ req[c].driver \in Drivers
      BY <1>0, <1>3 DEF Requests, Positions, LockDriver, At, IInv, CallMoney
    <3>2. Go(c, v)
      BY <1>3, <2>3, <1>0 DEF LockDriver, Goto, Go, IInv, TypeOK, Requests
    <3> HIDE DEF v
    <3>3. CallMoney(c)' /\ ~Confirming(c)'
      BY <3>1, <3>2 DEF CallMoney, Confirming, At, Go, IInv, TypeOK
    <3> QED
      BY <2>1, <3>1, <3>2, <3>3, HandlerFrame
  <2> QED
    BY <2>2, <2>3
<1>4. CASE AssignDriver(c)
  <2>1. /\ ~At(c, "idle") /\ ~Confirming(c) /\ UNCHANGED <<gatewayVars, lapsed>>
        /\ req[c].driver \in Drivers
    BY <1>4 DEF AssignDriver, At, Confirming, IInv, CallMoney
  <2>2. ~RowHeld(req[c].ride) => RowIsFree(c)
    BY DEF RowHeld, RowIsFree
  <2> QED
    BY <1>4, <2>1, <2>2, ClaimWrite, NextCandidateFrame DEF AssignDriver
<1>5. CASE Escalate(c)
  BY <1>5, FinishFrame DEF Escalate
<1> QED
  BY <1>1, <1>2, <1>3, <1>4, <1>5 DEF DispatchStep

LEMMA GpsStepKeeps ==
  ASSUME IInv, NEW c \in Calls, GpsStep(c)
  PROVE  IInv'
<1>0. req[c] \in Requests
  BY DEF IInv, TypeOK
<1>1. CASE PingSeq(c)
  <2>1. ~At(c, "idle") /\ ~Confirming(c) /\ UNCHANGED <<gatewayVars, lapsed>>
    BY <1>1 DEF PingSeq, At, Confirming
  <2>2. PICK n \in 1..(Len(pings[req[c].ride]) + 1) :
          \/ Store = "memory" /\ InsertPing(req[c].ride, n) /\ Finish(c)
          \/ /\ Go(c, [req[c] EXCEPT !.at = "insertPing", !.n = n])
             /\ UNCHANGED storeVars
    BY <1>1 DEF PingSeq
  <2>3. n \in Nat
    BY <2>1, <2>2 DEF IInv, TypeOK, CallRefs
  <2>4. CASE Store = "memory" /\ InsertPing(req[c].ride, n) /\ Finish(c)
    <3>1. RowIsFree(c)
      BY <2>4 DEF IInv, HoldsRow, RowIsFree
    <3> QED
      BY <2>1, <2>3, <2>4, <3>1, InsertPingWrite
  <2> DEFINE v == [req[c] EXCEPT !.at = "insertPing", !.n = n]
  <2>5. CASE Go(c, v) /\ UNCHANGED storeVars
    <3>1. v \in Requests /\ v.at = "insertPing" /\ v.ride = req[c].ride
      BY <1>0, <2>3 DEF Requests, Positions
    <3> HIDE DEF v
    <3>2. CallMoney(c)' /\ ~Confirming(c)'
      BY <2>5, <3>1 DEF CallMoney, Confirming, At, Go, IInv, TypeOK
    <3> QED
      BY <2>1, <2>5, <3>1, <3>2, HandlerFrame
  <2> QED
    BY <2>2, <2>4, <2>5
<1>2. CASE PingInsert(c)
  <2>1. ~At(c, "idle") /\ ~Confirming(c) /\ req[c].n \in Nat
    BY <1>0, <1>2 DEF PingInsert, At, Confirming, Requests
  <2>2. ~RowHeld(req[c].ride) => RowIsFree(c)
    BY DEF RowHeld, RowIsFree
  <2> QED
    BY <1>2, <2>1, <2>2, InsertPingWrite, FinishFrame DEF PingInsert
<1> QED
  BY <1>1, <1>2 DEF GpsStep

-----------------------------------------------------------------------------
(***************************************************************************)
(* Steps outside any request.                                              *)
(***************************************************************************)

\* Nothing the invariant relates changes.
LEMMA BystanderFrame ==
  ASSUME IInv, TypeOK', UNCHANGED <<rides, payments, ledger, pings, gatewayVars, req>>
  PROVE  IInv'
<1>1. \A c \in Calls : CallRefs(c)' /\ CallMoney(c)'
  BY DEF IInv, CallRefs, CallMoney, Confirming, At, Present, gatewayVars
<1>7. \A c \in Calls : HoldsRow(c)'
  BY DEF IInv, HoldsRow, Claimable, At
<1>2. Reserved'
  BY DEF IInv, Reserved, Confirming
<1>3. \A r \in Rides : RowOK(r)'
  BY DEF IInv, RowOK, Present, gatewayVars
<1>4. \A e \in ledger' : EntryOK(e)'
  BY DEF IInv, EntryOK, Present, gatewayVars
<1>5. \A q \in Quotes : KeyOK(q)'
  BY DEF IInv, KeyOK, gatewayVars
<1>6. Store = "postgres" => OneRidePerQuote'
  BY DEF IInv, OneRidePerQuote, Present
<1> QED
  BY <1>1, <1>2, <1>3, <1>4, <1>5, <1>6, <1>7 DEF IInv

LEMMA NextIInv == IInv /\ [Next]_vars => IInv'
<1> SUFFICES ASSUME IInv, [Next]_vars PROVE IInv'
  OBVIOUS
<1>1. ASSUME NEW q \in Quotes, CreateQuote(q) PROVE IInv'
  <2>1. TypeOK'
    BY <1>1 DEF CreateQuote, InsertQuote, gatewayVars, IInv, TypeOK
  <2> QED
    BY <1>1, <2>1, BystanderFrame DEF CreateQuote, InsertQuote
<1>2. ASSUME NEW d \in Drivers, ReportLocation(d) PROVE IInv'
  <2>1. TypeOK'
    BY <1>2 DEF ReportLocation, UpdateDriverLocation, gatewayVars, IInv, TypeOK
  <2> QED
    BY <1>2, <2>1, BystanderFrame DEF ReportLocation, UpdateDriverLocation
<1>3. CASE Expire
  <2>1. TypeOK'
    BY <1>3 DEF Expire, storeVars, gatewayVars, IInv, TypeOK
  <2> QED
    BY <1>3, <2>1, BystanderFrame DEF Expire, storeVars
<1>4. ASSUME NEW c \in Calls, Step(c) PROVE IInv'
  <2>1. CASE DeadlockAbort(c)
    BY <2>1, FinishFrame DEF DeadlockAbort
  <2> QED
    BY <1>4, <2>1, ConfirmAuthorizeStep, ConfirmPersistStep, AcceptOfferStep, AcceptCommitStep, StartTripWriteStep,
       WrongOtpWriteStep, CompletePaymentStep, CompleteCaptureStep, CompletePersistStep,
       CancelVoidStep, CancelPersistStep, DispatchStepKeeps, GpsStepKeeps
       DEF Step, RideStep
<1>5. ASSUME NEW c \in Calls, GatewayRefuses(c) \/ Abort(c) PROVE IInv'
  BY <1>5, FinishFrame DEF GatewayRefuses, Abort
<1>6. CASE UNCHANGED vars
  <2>1. TypeOK'
    BY <1>6 DEF vars, storeVars, gatewayVars, IInv, TypeOK
  <2> QED
    BY <1>6, <2>1, BystanderFrame DEF vars, storeVars
<1> QED
  BY <1>1, <1>2, <1>3, <1>4, <1>5, <1>6, ArriveStep DEF Next

-----------------------------------------------------------------------------
(***************************************************************************)
(* What one step can do to the rows of the store, and to the gateway.      *)
(***************************************************************************)

\* A driver is claimed by acceptOffer, at once or after a wait for the driver's
\* row, or by dispatch: in one turn in memory, under the lock of the driver in
\* Postgres.
ClaimGuard(c, d) ==
  \/ /\ At(c, "acceptOffer") /\ d = req[c].driver
     /\ Store = "memory" => OfferTtl(req[c].ride) \notin lapsed
  \/ At(c, "driverKey") /\ d = req[c].driver
  \/ /\ At(c, "claim") /\ Store = "memory" /\ ~Busy(d)
     /\ OfferTtl(req[c].ride) \notin lapsed
  \/ At(c, "assignDriver") /\ d = req[c].driver

\* A step leaves the rides, the payments and the ledger alone, or is one of
\* the six writes with which a handler ends, each under the condition it has
\* established.
RowWrite(c) ==
  LET r == req[c].ride IN
  \/ /\ ~Present(r) /\ At(c, "persistAuthorization")
     /\ PersistAuthorization(r, req[c].quote, req[c].intent, c)
  \/ /\ Present(r) /\ Claimable(r)
     /\ \E d \in Drivers : ClaimGuard(c, d) /\ Claim(r, d)
  \/ Present(r) /\ At(c, "startTrip") /\ StartRide(r)
  \/ Present(r) /\ \E n \in Nat : SetTries(r, n)
  \/ Present(r) /\ At(c, "persistCapture") /\ PersistCapture(r, req[c].driver, c)
  \/ Present(r) /\ At(c, "persistVoid") /\ PersistVoid(r, c)

LEMMA WritesAreGuarded ==
  ASSUME IInv, [Next]_vars
  PROVE  \/ UNCHANGED <<rides, payments, ledger>>
         \/ /\ UNCHANGED gatewayVars
            /\ \E c \in Calls : req[c].ride \in Rides /\ RowWrite(c) /\ Finish(c)
<1> USE DEF storeVars
<1>1. CASE \/ \E q \in Quotes : CreateQuote(q)
           \/ \E d \in Drivers : ReportLocation(d)
           \/ \E c \in Calls : Arrive(c) \/ GatewayRefuses(c) \/ Abort(c)
           \/ Expire
           \/ UNCHANGED vars
  BY <1>1 DEF CreateQuote, InsertQuote, ReportLocation, UpdateDriverLocation, Arrive,
     Confirm, Accept, StartTrip, Complete, Cancel, AssignTo, AssignGreedy, Ping,
     GatewayRefuses, Abort, Expire, vars
<1>2. ASSUME NEW c \in Calls, RideStep(c)
      PROVE  \/ UNCHANGED <<rides, payments, ledger>>
             \/ UNCHANGED gatewayVars /\ req[c].ride \in Rides /\ RowWrite(c) /\ Finish(c)
  <2>1. CallRefs(c) /\ CallMoney(c) /\ req[c] \in Requests
    BY DEF IInv, TypeOK
  <2>2. CASE ConfirmPersist(c)
    BY <2>1, <2>2 DEF ConfirmPersist, CallRefs, Confirming, At, RowWrite
  <2>3. CASE AcceptOffer(c)
    BY <2>1, <2>3 DEF AcceptOffer, CallRefs, CallMoney, Confirming, At, RowWrite, ClaimGuard
  <2>9. CASE AcceptCommit(c)
    <3>1. Claimable(req[c].ride) /\ At(c, "driverKey")
      BY <2>9 DEF AcceptCommit, IInv, HoldsRow
    <3> QED
      BY <2>1, <2>9, <3>1 DEF AcceptCommit, CallRefs, CallMoney, Confirming, At, RowWrite,
         ClaimGuard
  <2>4. CASE StartTripWrite(c)
    BY <2>1, <2>4 DEF StartTripWrite, CallRefs, Confirming, At, RowWrite
  <2>5. CASE WrongOtpWrite(c)
    <3>1. req[c].n + 1 \in Nat
      BY <2>1 DEF Requests
    <3> QED
      BY <2>1, <2>5, <3>1 DEF WrongOtpWrite, CallRefs, Confirming, At, RowWrite
  <2>6. CASE CompletePersist(c)
    BY <2>1, <2>6 DEF CompletePersist, CallRefs, Confirming, At, RowWrite
  <2>7. CASE CancelPersist(c)
    BY <2>1, <2>7 DEF CancelPersist, CallRefs, Confirming, At, RowWrite
  <2>8. CASE \/ ConfirmAuthorize(c) \/ CompletePayment(c) \/ CompleteCapture(c) \/ CancelVoid(c)
             \/ DeadlockAbort(c)
    BY <2>8 DEF ConfirmAuthorize, CompletePayment, CompleteCapture, CancelVoid, DeadlockAbort
  <2> QED
    BY <1>2, <2>2, <2>3, <2>4, <2>5, <2>6, <2>7, <2>8, <2>9 DEF RideStep
<1>3. ASSUME NEW c \in Calls, DispatchStep(c)
      PROVE  \/ UNCHANGED <<rides, payments, ledger>>
             \/ UNCHANGED gatewayVars /\ req[c].ride \in Rides /\ RowWrite(c) /\ Finish(c)
  <2>1. CallRefs(c) /\ CallMoney(c) /\ req[c].cands \subseteq Drivers
    BY DEF IInv, TypeOK, Requests
  <2>2. CASE TryClaim(c)
    BY <2>1, <2>2 DEF TryClaim, TryClaimMemory, TryClaimPostgres, CallRefs, Confirming, At,
       RowWrite, ClaimGuard
  <2>3. CASE AssignDriver(c)
    BY <2>1, <2>3 DEF AssignDriver, CallRefs, CallMoney, Confirming, At, RowWrite, ClaimGuard
  <2>4. CASE Rank(c) \/ LockDriver(c) \/ Escalate(c)
    BY <2>4 DEF Rank, LockDriver, Escalate
  <2> QED
    BY <1>3, <2>2, <2>3, <2>4 DEF DispatchStep
<1>4. ASSUME NEW c \in Calls, GpsStep(c)
      PROVE  UNCHANGED <<rides, payments, ledger>>
  BY <1>4 DEF GpsStep, PingSeq, PingInsert, InsertPing
<1> QED
  BY <1>1, <1>2, <1>3, <1>4 DEF Next, Step

\* A row that is there stays there, with its quote, its intent, the driver it
\* has and the start of its trip.
LEMMA RowKeeps ==
  ASSUME IInv, [Next]_vars, NEW r \in Rides, Present(r)
  PROVE  /\ Present(r)'
         /\ rides'[r].quote = rides[r].quote
         /\ rides'[r].intent = rides[r].intent
         /\ rides[r].driver # None => rides'[r].driver = rides[r].driver
         /\ rides[r].started => rides'[r].started
<1> USE DEF Present
<1>0. rides \in [Rides -> RideRows]
  BY DEF IInv, TypeOK
<1>1. CASE UNCHANGED rides
  BY <1>1
<1>2. ASSUME NEW c \in Calls, req[c].ride \in Rides, RowWrite(c)
      PROVE  /\ rides'[r].status # "absent"
             /\ rides'[r].quote = rides[r].quote
             /\ rides'[r].intent = rides[r].intent
             /\ rides[r].driver # None => rides'[r].driver = rides[r].driver
             /\ rides[r].started => rides'[r].started
  <2> DEFINE s == req[c].ride
  <2>2. CASE ~Present(s) /\ PersistAuthorization(s, req[c].quote, req[c].intent, c)
    BY <1>0, <1>2, <2>2 DEF PersistAuthorization
  <2>3. CASE Claimable(s) /\ \E d \in Drivers : Claim(s, d)
    BY <1>0, <1>2, <2>3 DEF Claimable, Claim, RideRows
  <2>4. CASE StartRide(s)
    BY <1>0, <1>2, <2>4 DEF StartRide, RideRows
  <2>5. CASE \E n \in Nat : SetTries(s, n)
    BY <1>0, <1>2, <2>5 DEF SetTries, RideRows
  <2>6. CASE PersistCapture(s, req[c].driver, c)
    BY <1>0, <1>2, <2>6 DEF PersistCapture, RideRows
  <2>7. CASE PersistVoid(s, c)
    BY <1>0, <1>2, <2>7 DEF PersistVoid, RideRows
  <2> QED
    BY <1>2, <2>2, <2>3, <2>4, <2>5, <2>6, <2>7 DEF RowWrite
<1> QED
  BY <1>1, <1>2, WritesAreGuarded

\* The steps after which a handler goes on.
GoesOn(c) ==
  \/ ConfirmAuthorize(c) \/ CompletePayment(c) \/ CompleteCapture(c) \/ CancelVoid(c)
  \/ AcceptOffer(c)
  \/ Rank(c) \/ TryClaim(c) \/ LockDriver(c) \/ AssignDriver(c) \/ PingSeq(c)

\* A request comes in, goes on or ends by a step of its own, and nobody else's.
LEMMA WhoMoves ==
  ASSUME IInv, [Next]_vars, NEW c \in Calls
  PROVE  req'[c] = req[c] \/ req'[c] = Idle \/ Arrive(c) \/ GoesOn(c)
<1>0. req \in [Calls -> Requests]
  BY DEF IInv, TypeOK
<1>1. ASSUME NEW b \in Calls, NEW v, Go(b, v)
      PROVE  IF b = c THEN req'[c] = v ELSE req'[c] = req[c]
  BY <1>0, <1>1 DEF Go
<1>2. CASE \/ \E q \in Quotes : CreateQuote(q)
           \/ \E d \in Drivers : ReportLocation(d)
           \/ Expire
           \/ UNCHANGED vars
  BY <1>2 DEF CreateQuote, ReportLocation, Expire, vars
<1>3. ASSUME NEW b \in Calls, GatewayRefuses(b) \/ Abort(b)
      PROVE  req'[c] = req[c] \/ req'[c] = Idle
  BY <1>1, <1>3 DEF GatewayRefuses, Abort, Finish
<1>4. ASSUME NEW b \in Calls, Arrive(b), b # c PROVE req'[c] = req[c]
  BY <1>1, <1>4 DEF Arrive, Confirm, Accept, StartTrip, Complete, Cancel, AssignTo,
     AssignGreedy, Ping
<1>5. ASSUME NEW b \in Calls, RideStep(b)
      PROVE  req'[c] = req[c] \/ req'[c] = Idle \/ GoesOn(c)
  <2>1. CASE \/ ConfirmPersist(b) \/ AcceptCommit(b) \/ DeadlockAbort(b)
             \/ StartTripWrite(b) \/ WrongOtpWrite(b) \/ CompletePersist(b)
             \/ CancelPersist(b)
    BY <1>1, <2>1 DEF ConfirmPersist, AcceptCommit, DeadlockAbort, StartTripWrite,
       WrongOtpWrite, CompletePersist, CancelPersist, Finish
  <2>2. CASE \/ ConfirmAuthorize(b) \/ CompletePayment(b) \/ CompleteCapture(b)
             \/ CancelVoid(b) \/ AcceptOffer(b)
    <3>1. CASE b = c
      BY <2>2, <3>1 DEF GoesOn
    <3>2. CASE b # c
      BY <1>0, <2>2, <3>2 DEF ConfirmAuthorize, CompletePayment, CompleteCapture,
         CancelVoid, AcceptOffer, Goto, Finish, Go
    <3> QED
      BY <3>1, <3>2
  <2> QED
    BY <1>5, <2>1, <2>2 DEF RideStep
<1>6. ASSUME NEW b \in Calls, DispatchStep(b) \/ GpsStep(b)
      PROVE  req'[c] = req[c] \/ req'[c] = Idle \/ GoesOn(c)
  <2>1. CASE Escalate(b) \/ PingInsert(b)
    BY <1>1, <2>1 DEF Escalate, PingInsert, Finish
  <2>2. CASE Rank(b) \/ TryClaim(b) \/ LockDriver(b) \/ AssignDriver(b) \/ PingSeq(b)
    <3>1. CASE b = c
      BY <2>2, <3>1 DEF GoesOn
    <3>2. CASE b # c
      BY <1>0, <2>2, <3>2 DEF Rank, TryClaim, TryClaimMemory, TryClaimPostgres, LockDriver,
         AssignDriver, PingSeq, NextCandidate, Goto, Finish, Go
    <3> QED
      BY <3>1, <3>2
  <2> QED
    BY <1>6, <2>1, <2>2 DEF DispatchStep, GpsStep
<1> QED
  BY <1>2, <1>3, <1>4, <1>5, <1>6 DEF Next, Step

\* A step of one request leaves the others where they are.
LEMMA OthersStand ==
  ASSUME IInv, NEW b \in Calls, NEW c \in Calls, b # c,
         Arrive(b) \/ Step(b) \/ GatewayRefuses(b) \/ Abort(b)
  PROVE  req'[c] = req[c]
<1>0. req \in [Calls -> Requests]
  BY DEF IInv, TypeOK
<1>1. ASSUME NEW v, Go(b, v) PROVE req'[c] = req[c]
  BY <1>0, <1>1 DEF Go
<1>2. ASSUME NEW at, Goto(b, at) PROVE req'[c] = req[c]
  BY <1>0, <1>2 DEF Goto
<1>3. CASE Arrive(b) \/ GatewayRefuses(b) \/ Abort(b)
  BY <1>1, <1>3 DEF Arrive, Confirm, Accept, StartTrip, Complete, Cancel, AssignTo,
     AssignGreedy, Ping, GatewayRefuses, Abort, Finish
<1>4. CASE RideStep(b)
  BY <1>1, <1>2, <1>4 DEF RideStep, ConfirmAuthorize, ConfirmPersist, AcceptOffer,
     AcceptCommit, DeadlockAbort, StartTripWrite, WrongOtpWrite, CompletePayment, CompleteCapture, CompletePersist,
     CancelVoid, CancelPersist, Finish
<1>5. CASE DispatchStep(b)
  BY <1>1, <1>2, <1>5 DEF DispatchStep, Rank, TryClaim, TryClaimMemory, TryClaimPostgres,
     LockDriver, AssignDriver, Escalate, NextCandidate, Finish
<1>6. CASE GpsStep(b)
  BY <1>1, <1>2, <1>6 DEF GpsStep, PingSeq, PingInsert, Finish
<1> QED
  BY <1>3, <1>4, <1>5, <1>6 DEF Step

\* A request comes in at the start of its handler, and changes nothing yet.
LEMMA ArrivesAt ==
  ASSUME IInv, NEW c \in Calls, Arrive(c)
  PROVE  /\ At(c, "idle") /\ UNCHANGED <<storeVars, gatewayVars, lapsed>>
         /\ \/ /\ req'[c].at = "authorize"
               /\ \E q \in Quotes, r \in Rides : Confirm(c, q, r)
            \/ /\ req'[c].at = "acceptOffer" /\ Asked("accept")
               /\ \E r \in Rides, d \in Drivers : Accept(c, r, d)
            \/ /\ req'[c].at \in {"startTrip", "wrongOtp"} /\ Asked(req'[c].at)
               /\ \E r \in Rides : StartTrip(c, r, req'[c].at)
            \/ req'[c].at = "payment" /\ \E r \in Rides : Complete(c, r)
            \/ req'[c].at = "void" /\ \E r \in Rides : Cancel(c, r)
            \/ req'[c].at \in {"claim", "rank"}
            \/ req'[c].at = "ping" /\ \E r \in Rides : Ping(c, r)
<1>1. ASSUME NEW v, Go(c, v) PROVE req'[c] = v
  BY <1>1 DEF IInv, TypeOK, Go
<1>2. ASSUME NEW q \in Quotes, NEW r \in Rides, Confirm(c, q, r)
      PROVE  At(c, "idle") /\ req'[c].at = "authorize"
  BY <1>1, <1>2 DEF Confirm, Idle
<1>3. ASSUME NEW r \in Rides, NEW d \in Drivers, Accept(c, r, d)
      PROVE  At(c, "idle") /\ req'[c].at = "acceptOffer"
  BY <1>1, <1>3 DEF Accept, Idle
<1>4. ASSUME NEW r \in Rides, NEW at \in {"startTrip", "wrongOtp"}, StartTrip(c, r, at)
      PROVE  At(c, "idle") /\ req'[c].at = at
  BY <1>1, <1>4 DEF StartTrip, Idle
<1>5. ASSUME NEW r \in Rides, Complete(c, r)
      PROVE  At(c, "idle") /\ req'[c].at = "payment"
  BY <1>1, <1>5 DEF Complete, Idle
<1>6. ASSUME NEW r \in Rides, Cancel(c, r)
      PROVE  At(c, "idle") /\ req'[c].at = "void"
  BY <1>1, <1>6 DEF Cancel, Idle
<1>7. ASSUME NEW r \in Rides, NEW d \in Drivers, AssignTo(c, r, d)
      PROVE  At(c, "idle") /\ req'[c].at = "claim"
  BY <1>1, <1>7 DEF AssignTo, Idle
<1>8. ASSUME NEW r \in Rides, AssignGreedy(c, r)
      PROVE  At(c, "idle") /\ req'[c].at = "rank"
  BY <1>1, <1>8 DEF AssignGreedy, Idle
<1>9. ASSUME NEW r \in Rides, Ping(c, r)
      PROVE  At(c, "idle") /\ req'[c].at = "ping"
  BY <1>1, <1>9 DEF Ping, Idle
<1>10. UNCHANGED <<storeVars, gatewayVars, lapsed>>
  BY DEF Arrive, Confirm, Accept, StartTrip, Complete, Cancel, AssignTo, AssignGreedy, Ping
<1> QED
  BY <1>2, <1>3, <1>4, <1>5, <1>6, <1>7, <1>8, <1>9, <1>10 DEF Arrive

\* Where a handler that goes on goes, and by which step.
LEMMA GoesOnTo ==
  ASSUME IInv, NEW c \in Calls, GoesOn(c)
  PROVE  \/ req'[c] = Idle
         \/ req'[c].at = "persistAuthorization" /\ ConfirmAuthorize(c)
         \/ req'[c].at = "driverKey" /\ AcceptOffer(c)
         \/ req'[c].at = "capture" /\ CompletePayment(c)
         \/ req'[c].at = "persistCapture" /\ CompleteCapture(c)
         \/ req'[c].at = "persistVoid" /\ CancelVoid(c)
         \/ req'[c].at = "claim"
         \/ req'[c].at = "lock" /\ TryClaim(c)
         \/ req'[c].at = "assignDriver" /\ LockDriver(c)
         \/ req'[c].at = "insertPing" /\ PingSeq(c)
<1>0. req \in [Calls -> Requests] /\ req[c] \in Requests
  BY DEF IInv, TypeOK
<1>1. ASSUME NEW v, Go(c, v) PROVE req'[c] = v
  BY <1>0, <1>1 DEF Go
<1>2. ASSUME NEW at, Goto(c, at) PROVE req'[c].at = at
  BY <1>0, <1>2 DEF Goto, Requests
<1>3. ASSUME NEW d, NextCandidate(c, d) PROVE req'[c].at = "claim"
  BY <1>0, <1>1, <1>3 DEF NextCandidate, Requests
<1>4. CASE ConfirmAuthorize(c)
  BY <1>0, <1>1, <1>4 DEF ConfirmAuthorize, Requests
<1>5. CASE CompletePayment(c) \/ CompleteCapture(c) \/ CancelVoid(c) \/ AcceptOffer(c)
  BY <1>1, <1>2, <1>5 DEF CompletePayment, CompleteCapture, CancelVoid, AcceptOffer, Finish
<1>6. CASE Rank(c)
  BY <1>0, <1>1, <1>6 DEF Rank, Requests
<1>7. CASE TryClaim(c)
  <2>1. PICK d \in req[c].cands : TryClaimMemory(c, d) \/ TryClaimPostgres(c, d)
    BY <1>7 DEF TryClaim
  <2>2. Go(c, [req[c] EXCEPT !.at = "lock", !.driver = d]) => req'[c].at = "lock"
    BY <1>0, <1>1 DEF Requests
  <2> QED
    BY <1>1, <1>3, <1>7, <2>1, <2>2 DEF TryClaimMemory, TryClaimPostgres, Finish
<1>8. CASE LockDriver(c)
  BY <1>2, <1>3, <1>8 DEF LockDriver
<1>9. CASE AssignDriver(c)
  BY <1>1, <1>3, <1>9 DEF AssignDriver, Finish
<1>10. CASE PingSeq(c)
  <2>1. PICK n \in 1..(Len(pings[req[c].ride]) + 1) :
          Finish(c) \/ Go(c, [req[c] EXCEPT !.at = "insertPing", !.n = n])
    BY <1>10 DEF PingSeq
  <2>2. Go(c, [req[c] EXCEPT !.at = "insertPing", !.n = n]) => req'[c].at = "insertPing"
    BY <1>0, <1>1 DEF Requests
  <2> QED
    BY <1>1, <1>10, <2>1, <2>2 DEF Finish
<1> QED
  BY <1>4, <1>5, <1>6, <1>7, <1>8, <1>9, <1>10 DEF GoesOn

\* The gateway moves by an authorize, a capture or a void.
LEMMA GatewayMoves ==
  ASSUME [Next]_vars
  PROVE  \/ UNCHANGED gatewayVars
         \/ \E c \in Calls : ConfirmAuthorize(c) \/ CompleteCapture(c) \/ CancelVoid(c)
<1>1. CASE \/ \E q \in Quotes : CreateQuote(q)
           \/ \E d \in Drivers : ReportLocation(d)
           \/ \E c \in Calls : Arrive(c) \/ GatewayRefuses(c) \/ Abort(c)
           \/ Expire
           \/ UNCHANGED vars
  BY <1>1 DEF CreateQuote, ReportLocation, Arrive,
     Confirm, Accept, StartTrip, Complete, Cancel, AssignTo, AssignGreedy, Ping,
     GatewayRefuses, Abort, Expire, vars
<1>2. ASSUME NEW c \in Calls,
             \/ ConfirmPersist(c) \/ AcceptOffer(c) \/ AcceptCommit(c)
             \/ DeadlockAbort(c) \/ StartTripWrite(c)
             \/ WrongOtpWrite(c) \/ CompletePayment(c) \/ CompletePersist(c)
             \/ CancelPersist(c) \/ DispatchStep(c) \/ GpsStep(c)
      PROVE  UNCHANGED gatewayVars
  BY <1>2 DEF ConfirmPersist, AcceptOffer, AcceptCommit, DeadlockAbort, StartTripWrite, WrongOtpWrite, CompletePayment,
     CompletePersist, CancelPersist, DispatchStep, Rank, TryClaim, LockDriver, AssignDriver,
     Escalate, GpsStep, PingSeq, PingInsert
<1> QED
  BY <1>1, <1>2 DEF Next, Step, RideStep

\* A handler of accept, dispatch or the pings that goes on keeps its ride, and has
\* nothing to do with the money.
LEMMA GoesOnAside ==
  ASSUME IInv, NEW c \in Calls,
         \/ AcceptOffer(c) \/ Rank(c) \/ TryClaim(c) \/ LockDriver(c)
         \/ AssignDriver(c) \/ PingSeq(c)
  PROVE  \/ req'[c] = Idle
         \/ /\ req'[c].at \in {"driverKey", "claim", "lock", "assignDriver", "insertPing"}
            /\ req'[c].ride = req[c].ride /\ req'[c].intent = req[c].intent
<1>0. req \in [Calls -> Requests] /\ req[c] \in Requests
  BY DEF IInv, TypeOK
<1>1. ASSUME NEW v, Go(c, v) PROVE req'[c] = v
  BY <1>0, <1>1 DEF Go
<1>2. ASSUME NEW d, NextCandidate(c, d)
      PROVE  /\ req'[c].at = "claim" /\ req'[c].ride = req[c].ride
             /\ req'[c].intent = req[c].intent
  BY <1>0, <1>1, <1>2 DEF NextCandidate, Requests
<1>3. CASE Rank(c)
  BY <1>0, <1>1, <1>3 DEF Rank, Requests
<1>4. CASE TryClaim(c)
  <2>1. PICK d \in req[c].cands : TryClaimMemory(c, d) \/ TryClaimPostgres(c, d)
    BY <1>4 DEF TryClaim
  <2>2. CASE TryClaimMemory(c, d)
    BY <1>1, <1>2, <2>2 DEF TryClaimMemory, Finish
  <2>3. CASE TryClaimPostgres(c, d)
    <3>1. CASE Go(c, [req[c] EXCEPT !.at = "lock", !.driver = d])
      BY <1>0, <1>1, <3>1 DEF Requests
    <3> QED
      BY <1>2, <2>3, <3>1 DEF TryClaimPostgres
  <2> QED
    BY <2>1, <2>2, <2>3
<1>5. CASE LockDriver(c)
  <2>1. CASE Goto(c, "assignDriver")
    BY <1>0, <2>1 DEF Goto, Requests
  <2> QED
    BY <1>2, <1>5, <2>1 DEF LockDriver
<1>6. CASE AssignDriver(c)
  BY <1>1, <1>2, <1>6 DEF AssignDriver, Finish
<1>8. CASE AcceptOffer(c)
  <2>1. CASE Goto(c, "driverKey")
    BY <1>0, <2>1 DEF Goto, Requests
  <2> QED
    BY <1>1, <1>8, <2>1 DEF AcceptOffer, Finish
<1>7. CASE PingSeq(c)
  <2>1. PICK n \in 1..(Len(pings[req[c].ride]) + 1) :
          Finish(c) \/ Go(c, [req[c] EXCEPT !.at = "insertPing", !.n = n])
    BY <1>7 DEF PingSeq
  <2> QED
    BY <1>0, <1>1, <2>1 DEF Finish, Requests
<1> QED
  BY <1>3, <1>4, <1>5, <1>6, <1>7, <1>8

\* Money captured stays captured; with Stripe, a voided intent stays voided.
LEMMA GatewayKeeps ==
  ASSUME IInv, [Next]_vars, NEW i \in Rides
  PROVE  /\ intents[i] = "captured" => intents'[i] = "captured"
         /\ intents[i] = "voided" /\ Gateway = "stripe" => intents'[i] = "voided"
<1> USE DEF gatewayVars
<1>1. CASE UNCHANGED intents
  BY <1>1
<1>2. ASSUME NEW c \in Calls, ConfirmAuthorize(c)
      PROVE  intents[i] # "none" => intents'[i] = intents[i]
  <2>1. intents[req[c].ride] = "none"
    BY <1>2 DEF ConfirmAuthorize, IInv, CallMoney
  <2> QED
    BY <1>2, <2>1 DEF ConfirmAuthorize, Authorize, IInv, TypeOK
<1>3. ASSUME NEW c \in Calls, CompleteCapture(c)
      PROVE  /\ intents[i] = "captured" => intents'[i] = "captured"
             /\ intents[i] = "voided" => intents'[i] = "voided"
  BY <1>3 DEF CompleteCapture, Capture, CanCapture, IInv, TypeOK
<1>4. ASSUME NEW c \in Calls, CancelVoid(c)
      PROVE  /\ intents[i] = "captured" => intents'[i] = "captured"
             /\ intents[i] = "voided" => intents'[i] = "voided"
  BY <1>4 DEF CancelVoid, Void, IInv, TypeOK
<1>5. CASE \/ \E q \in Quotes : CreateQuote(q)
           \/ \E d \in Drivers : ReportLocation(d)
           \/ \E c \in Calls : Arrive(c) \/ GatewayRefuses(c) \/ Abort(c)
           \/ Expire
           \/ UNCHANGED vars
  BY <1>5 DEF CreateQuote, ReportLocation, Arrive,
     Confirm, Accept, StartTrip, Complete, Cancel, AssignTo, AssignGreedy, Ping,
     GatewayRefuses, Abort, Expire, vars
<1>6. ASSUME NEW c \in Calls,
             \/ ConfirmPersist(c) \/ AcceptOffer(c) \/ AcceptCommit(c)
             \/ DeadlockAbort(c) \/ StartTripWrite(c)
             \/ WrongOtpWrite(c) \/ CompletePayment(c) \/ CompletePersist(c)
             \/ CancelPersist(c) \/ DispatchStep(c) \/ GpsStep(c)
      PROVE  UNCHANGED intents
  BY <1>6 DEF ConfirmPersist, AcceptOffer, AcceptCommit, DeadlockAbort, StartTripWrite, WrongOtpWrite, CompletePayment,
     CompletePersist, CancelPersist, DispatchStep, Rank, TryClaim, LockDriver, AssignDriver,
     Escalate, GpsStep, PingSeq, PingInsert
<1> QED
  BY <1>1, <1>2, <1>3, <1>4, <1>5, <1>6 DEF Next, Step, RideStep

-----------------------------------------------------------------------------
(***************************************************************************)
(* Money.                                                                  *)
(***************************************************************************)

\* What is posted is on the books afterwards, even when its key was taken.
LEMMA PostedIsThere ==
  ASSUME NEW entries, NEW ps, NEW p \in ps
  PROVE  Posted(Post(entries, ps), p.ride, p.kind)
<1>1. CASE p \in FreshPostings(entries, ps)
  BY <1>1 DEF Posted, Post
<1>2. CASE p \notin FreshPostings(entries, ps)
  BY <1>2 DEF Posted, Post, FreshPostings
<1> QED
  BY <1>1, <1>2

\* Posting for one ride says nothing of another, and no kind it does not have.
LEMMA NotPostedElsewhere ==
  ASSUME NEW entries, NEW ps, NEW r, NEW k,
         \A p \in ps : p.ride # r \/ p.kind # k
  PROVE  Posted(Post(entries, ps), r, k) <=> Posted(entries, r, k)
BY DEF Posted, Post, FreshPostings

LEMMA MoneyStep ==
  ASSUME IInv, Gateway = "stripe", MoneyAgrees, [Next]_vars
  PROVE  MoneyAgrees'
<1> DEFINE Agrees(s) ==
      LET i == rides[s].intent IN
      /\ rides[s].status = "completed" =>
           /\ payments[s] = "captured" /\ intents[i] = "captured"
           /\ Posted(ledger, s, "capture") /\ ~Posted(ledger, s, "void")
      /\ rides[s].status = "cancelled" =>
           /\ payments[s] = "voided" /\ intents[i] = "voided"
           /\ Posted(ledger, s, "void") /\ ~Posted(ledger, s, "capture")
<1>1. \A s \in Rides : Agrees(s)
  BY DEF MoneyAgrees, Captured, Voided
<1>2. \A s \in Rides : rides[s].status # "absent" => rides[s].intent \in Rides
  BY DEF IInv, RowOK, Present
<1>3. SUFFICES ASSUME NEW s \in Rides PROVE Agrees(s)'
  BY DEF MoneyAgrees, Captured, Voided
<1>4. CASE UNCHANGED <<rides, payments, ledger>>
  <2>1. Agrees(s)
    BY <1>1
  <2> QED
    BY <2>1, <1>2, <1>4, GatewayKeeps
<1>5. ASSUME NEW c \in Calls, UNCHANGED gatewayVars, req[c].ride \in Rides, RowWrite(c)
      PROVE  Agrees(s)'
  <2> DEFINE r == req[c].ride
  <2>0. UNCHANGED intents
    BY <1>5 DEF gatewayVars
  <2>1. Agrees(s)
    BY <1>1
  <2>2. CASE /\ s # r \/ rides'[r].status \notin {"completed", "cancelled"}
             /\ s # r => /\ rides'[s] = rides[s] /\ payments'[s] = payments[s]
                         /\ \A k \in Kinds : Posted(ledger', s, k) <=> Posted(ledger, s, k)
    <3>1. CASE s # r
      BY <2>0, <2>1, <2>2, <3>1 DEF Kinds
    <3>2. CASE s = r
      BY <2>2, <3>2
    <3> QED
      BY <3>1, <3>2
  <2>3. CASE PersistAuthorization(r, req[c].quote, req[c].intent, c)
    <3>1. \A p \in AuthorizationPostings(c, r, Fare) : p.ride = r
      BY DEF AuthorizationPostings, Posting
    <3>2. s # r => \A k \in Kinds : Posted(ledger', s, k) <=> Posted(ledger, s, k)
      BY <3>1, <2>3, NotPostedElsewhere DEF PersistAuthorization
    <3>3. rides'[r].status = "offered"
      BY <1>5, <2>3 DEF PersistAuthorization, OfferedRow, NoRow, IInv, TypeOK
    <3> QED
      BY <3>2, <3>3, <2>2, <2>3 DEF PersistAuthorization, IInv, TypeOK
  <2>4. CASE (\E d \in Drivers : Claim(r, d)) \/ StartRide(r)
    <3>0. rides \in [Rides -> RideRows] /\ rides[r] \in RideRows
      BY <1>5 DEF IInv, TypeOK
    <3>1. rides'[r].status \in Active
      <4>1. CASE \E d \in Drivers : Claim(r, d)
        BY <1>5, <3>0, <4>1 DEF Claim, Active, RideRows
      <4>2. CASE StartRide(r)
        BY <1>5, <3>0, <4>2 DEF StartRide, Active, RideRows
      <4> QED
        BY <2>4, <4>1, <4>2
    <3>2. UNCHANGED <<payments, ledger>> /\ (s # r => rides'[s] = rides[s])
      BY <1>5, <2>4 DEF Claim, StartRide, IInv, TypeOK
    <3> QED
      BY <3>1, <3>2, <2>2 DEF Active
  <2>5. CASE \E n \in Nat : SetTries(r, n)
    <3>1. /\ rides'[s].status = rides[s].status /\ rides'[s].intent = rides[s].intent
          /\ UNCHANGED <<payments, ledger>>
      BY <1>5, <2>5 DEF SetTries, IInv, TypeOK, RideRows
    <3> QED
      BY <2>0, <2>1, <3>1
  <2>6. CASE At(c, "persistCapture") /\ PersistCapture(r, req[c].driver, c)
    <3> DEFINE ps == CapturePostings(c, r, req[c].driver, Fare)
    <3>1. ledger' = Post(ledger, ps)
      BY <2>6 DEF PersistCapture
    <3>2. \A p \in ps : p.ride = r /\ p.kind # "void"
      BY DEF CapturePostings, Posting
    <3>3. \E p \in ps : p.ride = r /\ p.kind = "capture"
      BY DEF CapturePostings, Posting
    <3>4. intents[rides[r].intent] = "captured"
      BY <2>6 DEF IInv, CallMoney, At
    <3>5. /\ s # r => rides'[s] = rides[s] /\ payments'[s] = payments[s]
          /\ s = r => /\ rides'[s].status = "completed" /\ payments'[s] = "captured"
                      /\ rides'[s].intent = rides[r].intent
      BY <1>5, <2>6 DEF PersistCapture, IInv, TypeOK, RideRows
    <3> HIDE DEF ps
    <3>6. s # r => \A k \in Kinds : Posted(ledger', s, k) <=> Posted(ledger, s, k)
      BY <3>1, <3>2, NotPostedElsewhere
    <3>7. Posted(ledger', r, "capture")
      BY <3>1, <3>3, PostedIsThere
    <3>8. ~Posted(ledger', r, "void")
      <4>1. ~Posted(ledger, r, "void")
        BY <3>4 DEF IInv, EntryOK, Posted
      <4> QED
        BY <4>1, <3>1, <3>2, NotPostedElsewhere
    <3>9. CASE s # r
      BY <3>9, <3>5, <3>6, <2>2
    <3>10. CASE s = r
      BY <3>10, <3>4, <3>5, <3>7, <3>8, <2>0
    <3> QED
      BY <3>9, <3>10
  <2>7. CASE At(c, "persistVoid") /\ PersistVoid(r, c)
    <3> DEFINE ps == VoidPostings(c, r, Fare)
    <3>1. ledger' = Post(ledger, ps)
      BY <2>7 DEF PersistVoid
    <3>2. \A p \in ps : p.ride = r /\ p.kind = "void"
      BY DEF VoidPostings, Posting
    <3>3. \E p \in ps : p.ride = r /\ p.kind = "void"
      BY DEF VoidPostings, Posting
    <3>4. intents[rides[r].intent] = "voided"
      BY <2>7 DEF IInv, CallMoney, At
    <3>5. /\ s # r => rides'[s] = rides[s] /\ payments'[s] = payments[s]
          /\ s = r => /\ rides'[s].status = "cancelled" /\ payments'[s] = "voided"
                      /\ rides'[s].intent = rides[r].intent
      BY <1>5, <2>7 DEF PersistVoid, IInv, TypeOK, RideRows
    <3> HIDE DEF ps
    <3>6. s # r => \A k \in Kinds : Posted(ledger', s, k) <=> Posted(ledger, s, k)
      BY <3>1, <3>2, NotPostedElsewhere
    <3>7. Posted(ledger', r, "void")
      BY <3>1, <3>3, PostedIsThere
    <3>8. ~Posted(ledger', r, "capture")
      <4>1. ~Posted(ledger, r, "capture")
        BY <3>4 DEF IInv, EntryOK, Posted
      <4> QED
        BY <4>1, <3>1, <3>2, NotPostedElsewhere
    <3>9. CASE s # r
      BY <3>9, <3>5, <3>6, <2>2
    <3>10. CASE s = r
      BY <3>10, <3>4, <3>5, <3>7, <3>8, <2>0
    <3> QED
      BY <3>9, <3>10
  <2> QED
    BY <1>5, <2>3, <2>4, <2>5, <2>6, <2>7 DEF RowWrite
<1> QED
  BY <1>4, <1>5, WritesAreGuarded

-----------------------------------------------------------------------------
(***************************************************************************)
(* The theorems.                                                           *)
(***************************************************************************)

\* The inductive invariant holds in every behaviour of the API.
THEOREM Invariance == Spec => []IInv
BY InitIInv, NextIInv, PTL DEF Spec

\* The state of the API keeps its shape, whatever requests overlap and
\* wherever handlers die.
THEOREM TypeCorrect == Spec => []TypeOK
<1>1. IInv => TypeOK
  BY DEF IInv
<1> QED
  BY <1>1, Invariance, PTL

\* The ledger books a capture only when the gateway has captured: complete
\* calls the gateway first, and a captured intent stays captured.
THEOREM CaptureBacked == Spec => []CaptureIsBacked
<1>1. IInv => CaptureIsBacked
  BY DEF IInv, CaptureIsBacked, Captured, Posted, EntryOK
<1> QED
  BY <1>1, Invariance, PTL

\* With Stripe no ride's hold is both captured and voided on the books, however
\* complete and cancel race: the ledger follows the gateway, which refuses one
\* of the two.
THEOREM Settled == Spec => [](Gateway = "stripe" => SettledOnce)
<1>1. IInv => (Gateway = "stripe" => SettledOnce)
  BY DEF IInv, SettledOnce, Captured, Voided, Posted, EntryOK
<1> QED
  BY <1>1, Invariance, PTL

\* With Stripe the ride, its payment, its ledger and the gateway agree on every
\* ride that is over: completed means paid, cancelled means released.
THEOREM MoneyConsistent == Spec => [](Gateway = "stripe" => MoneyAgrees)
<1>1. Init => MoneyAgrees
  BY DEF Init, StoreInit, NoRow, MoneyAgrees
<1>2. IInv /\ [Next]_vars /\ (Gateway = "stripe" => MoneyAgrees)
        => (Gateway = "stripe" => MoneyAgrees)'
  BY MoneyStep
<1> QED
  BY <1>1, <1>2, Invariance, PTL DEF Spec

\* In Postgres a quote never becomes two rides, even when two confirms both
\* found it active: the second one's payment is refused.
THEOREM OneRide == Spec => [](Store = "postgres" => OneRidePerQuote)
<1>1. IInv => (Store = "postgres" => OneRidePerQuote)
  BY DEF IInv
<1> QED
  BY <1>1, Invariance, PTL

\* No step takes a ride from the driver who has it: the claim is a
\* compare-and-set, and every other write leaves the driver alone.
THEOREM DriverKept == Spec => DriverKeepsRide
<1> DEFINE Keeps == \A r \in Rides :
                      rides[r].driver # None => rides'[r].driver = rides[r].driver
<1>1. IInv /\ [Next]_vars => Keeps
  <2> SUFFICES ASSUME IInv, [Next]_vars, NEW r \in Rides, rides[r].driver # None
               PROVE  rides'[r].driver = rides[r].driver
    OBVIOUS
  <2>1. Present(r)
    BY DEF IInv, RowOK
  <2> QED
    BY <2>1, RowKeeps
<1> QED
  BY <1>1, Invariance, PTL DEF Spec, DriverKeepsRide
=============================================================================
