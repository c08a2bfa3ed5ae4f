----------------------------- MODULE TripProofs -----------------------------
(***************************************************************************)
(* Proofs about the trip: its pings, the driver it is assigned and the     *)
(* statuses it goes through.                                               *)
(***************************************************************************)
EXTENDS RideNowProofs

(***************************************************************************)
(* Pings.                                                                  *)
(***************************************************************************)

\* The pings of a ride are 1, 2, 3, ..., a handler about to insert one has a
\* number that follows or one that is taken, and pings are of started trips.
PingInv ==
  /\ PingSeqContiguous
  /\ \A r \in Rides :
       /\ rides[r].status = "in_progress" => rides[r].started
       /\ pings[r] # << >> => Present(r) /\ rides[r].started
  /\ \A c \in Calls :
       /\ req[c].at \in {"ping", "insertPing"} => rides[req[c].ride].started
       /\ At(c, "insertPing") => req[c].n \in 1..(Len(pings[req[c].ride]) + 1)

\* A ping is inserted by its handler: with the next number in memory, with the
\* number it took in Postgres unless somebody else inserted that one.
PingWrite(c) ==
  \E r \in Rides, n \in Nat :
    /\ r = req[c].ride /\ req[c].at \in {"ping", "insertPing"}
    /\ InsertPing(r, n)
    /\ \/ At(c, "ping") /\ n \in 1..(Len(pings[r]) + 1) /\ IsNextSeq(r, n)
       \/ At(c, "insertPing") /\ n = req[c].n /\ SeqFree(r, n)

LEMMA PingsMove ==
  ASSUME IInv, [Next]_vars
  PROVE  UNCHANGED pings \/ \E c \in Calls : PingWrite(c)
<1> USE DEF storeVars
<1>1. CASE \/ \E q \in Quotes : CreateQuote(q)
           \/ \E d \in Drivers : ReportLocation(d)
           \/ \E c \in Calls : Arrive(c) \/ GatewayRefuses(c) \/ Abort(c)
           \/ Expire
           \/ UNCHANGED vars
  BY <1>1 DEF CreateQuote, InsertQuote, ReportLocation, UpdateDriverLocation, Arrive,
     Confirm, Accept, StartTrip, Complete, Cancel, AssignTo, AssignGreedy, Ping,
     GatewayRefuses, Abort, Expire, vars
<1>2. ASSUME NEW c \in Calls, RideStep(c) PROVE UNCHANGED pings
  BY <1>2 DEF RideStep, ConfirmAuthorize, ConfirmPersist, PersistAuthorization, AcceptOffer,
     AcceptCommit, DeadlockAbort, Claim, StartTripWrite, StartRide, WrongOtpWrite, SetTries, CompletePayment,
     CompleteCapture, CompletePersist, PersistCapture, CancelVoid, CancelPersist, PersistVoid
<1>3. ASSUME NEW c \in Calls, DispatchStep(c) PROVE UNCHANGED pings
  BY <1>3 DEF DispatchStep, Rank, TryClaim, TryClaimMemory, TryClaimPostgres, LockDriver,
     AssignDriver, Escalate, Claim
<1>4. ASSUME NEW c \in Calls, GpsStep(c) PROVE UNCHANGED pings \/ PingWrite(c)
  <2>0. CallRefs(c) /\ req[c].n \in Nat
    BY DEF IInv, TypeOK, Requests
  <2>1. CASE PingSeq(c)
    <3>1. req[c].ride \in Rides
      BY <2>0, <2>1 DEF PingSeq, CallRefs, Confirming, At
    <3>2. PICK n \in 1..(Len(pings[req[c].ride]) + 1) :
            IsNextSeq(req[c].ride, n) /\ (UNCHANGED pings \/ InsertPing(req[c].ride, n))
      BY <2>1 DEF PingSeq
    <3>3. n \in Nat
      BY <3>1, <3>2 DEF IInv, TypeOK
    <3> QED
      BY <2>1, <3>1, <3>2, <3>3 DEF PingSeq, At, PingWrite
  <2>2. CASE PingInsert(c)
    <3>1. req[c].ride \in Rides
      BY <2>0, <2>2 DEF PingInsert, CallRefs, Confirming, At
    <3> QED
      BY <2>0, <2>2, <3>1 DEF PingInsert, At, PingWrite
  <2> QED
    BY <1>4, <2>1, <2>2 DEF GpsStep
<1> QED
  BY <1>1, <1>2, <1>3, <1>4 DEF Next, Step

\* The number that is inserted follows the last.
LEMMA NextNumber ==
  ASSUME IInv, PingInv, NEW c \in Calls, NEW r \in Rides, NEW n \in Nat, r = req[c].ride,
         \/ At(c, "ping") /\ n \in 1..(Len(pings[r]) + 1) /\ IsNextSeq(r, n)
         \/ At(c, "insertPing") /\ n = req[c].n /\ SeqFree(r, n)
  PROVE  n = Len(pings[r]) + 1
<1>1. pings[r] \in Seq(Nat) /\ \A k \in DOMAIN pings[r] : pings[r][k] = k
  BY DEF IInv, TypeOK, PingInv, PingSeqContiguous
<1>2. Len(pings[r]) \in Nat /\ DOMAIN pings[r] = 1..Len(pings[r])
  BY <1>1
<1>3. n \in 1..(Len(pings[r]) + 1)
  BY DEF PingInv
<1>4. CASE IsNextSeq(r, n)
  <2>1. \A m \in 1..Len(pings[r]) : m < n
    BY <1>1, <1>2, <1>4 DEF IsNextSeq
  <2> QED
    BY <1>2, <1>3, <2>1
<1>5. CASE SeqFree(r, n)
  <2>1. n \notin 1..Len(pings[r])
    BY <1>1, <1>2, <1>5 DEF SeqFree
  <2> QED
    BY <1>2, <1>3, <2>1
<1> QED
  BY <1>4, <1>5

\* A trip that is under way was started.
LEMMA UnderWayStarted ==
  ASSUME IInv, PingInv, [Next]_vars, NEW r \in Rides, rides'[r].status = "in_progress"
  PROVE  rides'[r].started
<1>0. rides \in [Rides -> RideRows]
  BY DEF IInv, TypeOK
<1>1. CASE rides[r].status = "in_progress"
  BY <1>1, RowKeeps DEF PingInv, Present
<1>2. CASE rides[r].status # "in_progress"
  <2>1. PICK c \in Calls : req[c].ride \in Rides /\ RowWrite(c)
    BY <1>2, WritesAreGuarded
  <2>2. r = req[c].ride
    BY <1>0, <1>2, <2>1 DEF RowWrite, PersistAuthorization, Claim, StartRide, SetTries,
       PersistCapture, PersistVoid
  <2>3. CASE StartRide(r)
    BY <1>0, <2>3 DEF StartRide, RideRows
  <2>4. CASE PersistAuthorization(r, req[c].quote, req[c].intent, c)
    BY <1>0, <2>4 DEF PersistAuthorization, OfferedRow, NoRow
  <2>5. CASE (\E d \in Drivers : Claim(r, d)) \/ \E n \in Nat : SetTries(r, n)
    <3>1. ASSUME NEW d \in Drivers, Claim(r, d) PROVE rides'[r].status = "accepted"
      BY <1>0, <3>1 DEF Claim, RideRows
    <3>2. ASSUME NEW n \in Nat, SetTries(r, n) PROVE rides'[r].status = rides[r].status
      BY <1>0, <3>2 DEF SetTries, RideRows
    <3> QED
      BY <1>2, <2>5, <3>1, <3>2
  <2>6. CASE PersistCapture(r, req[c].driver, c) \/ PersistVoid(r, c)
    BY <1>0, <2>6 DEF PersistCapture, PersistVoid, RideRows
  <2> QED
    BY <2>1, <2>2, <2>3, <2>4, <2>5, <2>6 DEF RowWrite
<1> QED
  BY <1>1, <1>2

\* A handler of a ping keeps a ride whose trip was started, and a number that is
\* taken or follows.
LEMMA PingerStep ==
  ASSUME IInv, PingInv, [Next]_vars, NEW c \in Calls, req'[c].at \in {"ping", "insertPing"},
         \A r \in Rides : Len(pings'[r]) \in Nat /\ Len(pings[r]) <= Len(pings'[r])
  PROVE  /\ rides'[req'[c].ride].started
         /\ At(c, "insertPing")' => req'[c].n \in 1..(Len(pings'[req'[c].ride]) + 1)
<1>0. /\ req \in [Calls -> Requests] /\ req[c] \in Requests
      /\ rides \in [Rides -> RideRows] /\ pings \in [Rides -> Seq(Nat)]
  BY DEF IInv, TypeOK
<1>1. CASE req'[c] = req[c]
  <2>1. PICK r \in Rides : r = req[c].ride /\ Present(r)
    BY <1>1 DEF IInv, CallRefs, Confirming, At
  <2>2. rides'[r].started
    BY <1>1, <2>1, RowKeeps DEF PingInv
  <2>3. At(c, "insertPing") => req[c].n \in 1..(Len(pings[r]) + 1)
    BY <2>1 DEF PingInv
  <2>4. Len(pings[r]) \in Nat /\ Len(pings'[r]) \in Nat /\ Len(pings[r]) <= Len(pings'[r])
    BY <1>0
  <2>5. At(c, "insertPing") => req[c].n \in 1..(Len(pings'[r]) + 1)
    BY <2>3, <2>4
  <2> QED
    BY <1>1, <2>1, <2>2, <2>5 DEF At
<1>2. CASE Arrive(c)
  <2>1. req'[c].at = "ping" /\ \E r \in Rides : Ping(c, r)
    BY <1>2, ArrivesAt
  <2>2. PICK r \in Rides : Ping(c, r)
    BY <2>1
  <2>3. req'[c].ride = r /\ UNCHANGED rides /\ rides[r].status = "in_progress"
    BY <1>0, <2>2 DEF Ping, Go, Idle, storeVars
  <2> QED
    BY <2>1, <2>3 DEF PingInv, At
<1>3. CASE GoesOn(c) /\ req'[c] # Idle
  <2>1. PingSeq(c) /\ req'[c].at = "insertPing"
    BY <1>3, GoesOnTo
  <2>2. PICK r \in Rides : r = req[c].ride /\ Present(r)
    BY <2>1 DEF PingSeq, IInv, CallRefs, Confirming, At
  <2>3. PICK n \in 1..(Len(pings[r]) + 1) :
          Go(c, [req[c] EXCEPT !.at = "insertPing", !.n = n]) \/ Finish(c)
    BY <2>1, <2>2 DEF PingSeq
  <2>4. req'[c].ride = r /\ req'[c].n = n
    BY <1>0, <1>3, <2>2, <2>3 DEF Go, Finish, Requests
  <2>5. rides'[r].started
    BY <2>1, <2>2, RowKeeps DEF PingInv, PingSeq, At
  <2>6. Len(pings[r]) \in Nat /\ Len(pings'[r]) \in Nat /\ Len(pings[r]) <= Len(pings'[r])
    BY <1>0
  <2>7. n \in 1..(Len(pings'[r]) + 1)
    BY <2>3, <2>6
  <2> QED
    BY <2>4, <2>5, <2>7
<1> QED
  BY <1>1, <1>2, <1>3, WhoMoves DEF Idle

LEMMA PingStep == IInv /\ PingInv /\ [Next]_vars => PingInv'
<1> SUFFICES ASSUME IInv, PingInv, [Next]_vars PROVE PingInv'
  OBVIOUS
<1>0. pings \in [Rides -> Seq(Nat)] /\ \A r \in Rides : Len(pings[r]) \in Nat
  BY DEF IInv, TypeOK
<1>1. ASSUME NEW s \in Rides
      PROVE  /\ \A k \in DOMAIN pings'[s] : pings'[s][k] = k
             /\ pings'[s] # << >> => Present(s)' /\ rides'[s].started
             /\ Len(pings'[s]) \in Nat /\ Len(pings[s]) <= Len(pings'[s])
  <2>0. /\ \A k \in DOMAIN pings[s] : pings[s][k] = k
        /\ pings[s] # << >> => Present(s) /\ rides[s].started
    BY DEF PingInv, PingSeqContiguous
  <2>1. Present(s) /\ rides[s].started => Present(s)' /\ rides'[s].started
    BY RowKeeps
  <2>2. CASE pings'[s] = pings[s]
    BY <1>0, <2>0, <2>1, <2>2
  <2>3. ASSUME NEW c \in Calls, PingWrite(c), pings'[s] # pings[s]
        PROVE  /\ pings'[s] = Append(pings[s], Len(pings[s]) + 1)
               /\ Present(s) /\ rides[s].started
    <3>1. PICK r \in Rides, n \in Nat :
            /\ r = req[c].ride /\ req[c].at \in {"ping", "insertPing"}
            /\ InsertPing(r, n)
            /\ \/ At(c, "ping") /\ n \in 1..(Len(pings[r]) + 1) /\ IsNextSeq(r, n)
               \/ At(c, "insertPing") /\ n = req[c].n /\ SeqFree(r, n)
      BY <2>3 DEF PingWrite
    <3>2. s = r /\ pings'[s] = Append(pings[s], n)
      BY <1>0, <2>3, <3>1 DEF InsertPing
    <3>3. n = Len(pings[r]) + 1
      BY <3>1, NextNumber
    <3>4. Present(r) /\ rides[r].started
      BY <3>1 DEF IInv, CallRefs, Confirming, At, PingInv
    <3> QED
      BY <3>2, <3>3, <3>4
  <2>4. CASE /\ pings'[s] = Append(pings[s], Len(pings[s]) + 1)
             /\ Present(s) /\ rides[s].started
    <3> DEFINE p == pings[s]
    <3>1. p \in Seq(Nat)
      BY <1>0
    <3> HIDE DEF p
    <3>2. /\ Len(Append(p, Len(p) + 1)) = Len(p) + 1 /\ Len(p) \in Nat
          /\ DOMAIN p = 1..Len(p)
          /\ DOMAIN Append(p, Len(p) + 1) = 1..(Len(p) + 1)
          /\ \A k \in 1..(Len(p) + 1) :
               Append(p, Len(p) + 1)[k] = IF k = Len(p) + 1 THEN Len(p) + 1 ELSE p[k]
      BY <3>1
    <3>3. \A k \in 1..(Len(p) + 1) : k = Len(p) + 1 \/ k \in 1..Len(p)
      BY <3>2
    <3>4. \A k \in DOMAIN Append(p, Len(p) + 1) : Append(p, Len(p) + 1)[k] = k
      BY <2>0, <3>2, <3>3 DEF p
    <3> QED
      BY <2>1, <2>4, <3>2, <3>4 DEF p
  <2> QED
    BY <2>2, <2>3, <2>4, PingsMove
<1>2. ASSUME NEW c \in Calls
      PROVE  /\ req'[c].at \in {"ping", "insertPing"} => rides'[req'[c].ride].started
             /\ At(c, "insertPing")' => req'[c].n \in 1..(Len(pings'[req'[c].ride]) + 1)
  BY <1>1, PingerStep DEF At
<1> QED
  BY <1>1, <1>2, UnderWayStarted DEF PingInv, PingSeqContiguous

LEMMA PingInvariance == Spec => []PingInv
<1>1. Init => PingInv
  BY DEF Init, StoreInit, NoRow, Idle, PingInv, PingSeqContiguous, At
<1> QED
  BY <1>1, PingStep, Invariance, PTL DEF Spec

\* The pings of every ride are numbered 1, 2, 3, ... however many handlers take
\* a number at once: the unique index lets one of them insert it.
THEOREM PingsAreContiguous == Spec => []PingSeqContiguous
<1>1. PingInv => PingSeqContiguous
  BY DEF PingInv
<1> QED
  BY <1>1, PingInvariance, PTL

\* Only a trip that was started has pings, whatever became of it since the
\* handler of the ping looked.
THEOREM PingsAreOfTrips == Spec => []PingsNeedTripStart
<1>1. PingInv => PingsNeedTripStart
  BY DEF PingInv, PingsNeedTripStart
<1> QED
  BY <1>1, PingInvariance, PTL

-----------------------------------------------------------------------------
(***************************************************************************)
(* Statuses.                                                               *)
(***************************************************************************)

\* What a write of a handler does to the status, the driver and the payment of
\* its ride, and that it does nothing to any other ride's.
Moves(c, r) ==
  \/ /\ ~Present(r) /\ At(c, "persistAuthorization")
     /\ rides'[r].status = "offered" /\ rides'[r].driver = None
     /\ payments'[r] = "authorized"
  \/ /\ rides[r].status = "offered" /\ rides'[r].status = "accepted"
     /\ \E d \in Drivers : ClaimGuard(c, d) /\ rides'[r].driver = d
     /\ payments'[r] = payments[r]
  \/ /\ rides'[r].driver = rides[r].driver
     /\ Present(r)
     /\ \/ /\ At(c, "startTrip") /\ rides'[r].status = "in_progress"
           /\ payments'[r] = payments[r]
        \/ rides'[r].status = rides[r].status /\ payments'[r] = payments[r]
        \/ At(c, "persistCapture") /\ rides'[r].status = "completed"
        \/ At(c, "persistVoid") /\ rides'[r].status = "cancelled"

LEMMA WritesMove ==
  ASSUME IInv, NEW c \in Calls, NEW r \in Rides, r = req[c].ride, RowWrite(c)
  PROVE  /\ Moves(c, r)
         /\ \A s \in Rides : s # r => rides'[s] = rides[s] /\ payments'[s] = payments[s]
<1>0. rides \in [Rides -> RideRows] /\ payments \in [Rides -> PaymentStatuses]
  BY DEF IInv, TypeOK
<1>1. CASE /\ ~Present(r) /\ At(c, "persistAuthorization")
           /\ PersistAuthorization(r, req[c].quote, req[c].intent, c)
  BY <1>0, <1>1 DEF PersistAuthorization, OfferedRow, NoRow, Moves
<1>2. ASSUME NEW d \in Drivers, Claimable(r), ClaimGuard(c, d), Claim(r, d)
      PROVE  /\ Moves(c, r)
             /\ \A s \in Rides : s # r => rides'[s] = rides[s] /\ payments'[s] = payments[s]
  <2>1. rides'[r].status = "accepted" /\ rides'[r].driver = d
    BY <1>0, <1>2 DEF Claim, RideRows
  <2>2. /\ UNCHANGED payments
        /\ \A s \in Rides : s # r => rides'[s] = rides[s]
    BY <1>0, <1>2 DEF Claim
  <2> QED
    BY <1>2, <2>1, <2>2 DEF Claimable, Moves
<1>3. CASE Present(r) /\ At(c, "startTrip") /\ StartRide(r)
  BY <1>0, <1>3 DEF StartRide, RideRows, Moves
<1>4. ASSUME NEW n \in Nat, Present(r), SetTries(r, n)
      PROVE  /\ Moves(c, r)
             /\ \A s \in Rides : s # r => rides'[s] = rides[s] /\ payments'[s] = payments[s]
  BY <1>0, <1>4 DEF SetTries, RideRows, Moves
<1>5. CASE Present(r) /\ At(c, "persistCapture") /\ PersistCapture(r, req[c].driver, c)
  BY <1>0, <1>5 DEF PersistCapture, RideRows, Moves
<1>6. CASE Present(r) /\ At(c, "persistVoid") /\ PersistVoid(r, c)
  BY <1>0, <1>6 DEF PersistVoid, RideRows, Moves
<1> QED
  BY <1>1, <1>2, <1>3, <1>4, <1>5, <1>6 DEF RowWrite

\* One request at a time.
Serial == \A b, c \in Calls : b = c

\* One request at a time, the hold of a ride that is not over is open, and a
\* handler that looked at the status of its ride finds it as it was.
Looked(c) ==
  LET status == rides[req[c].ride].status IN
  /\ At(c, "startTrip") => status = "accepted"
  /\ req[c].at \in {"payment", "capture", "persistCapture"} => status \in Active
  /\ req[c].at \in {"void", "persistVoid"}
       => status \in {"offered", "accepted", "in_progress"}

TripInv ==
  /\ \A r \in Rides :
       rides[r].status \in {"offered", "accepted", "in_progress"}
         => payments[r] = "authorized"
  /\ \A c \in Calls : Looked(c)

\* What a handler saw still holds while nobody writes.
LEMMA LookedStays ==
  ASSUME IInv, TripInv, [Next]_vars, UNCHANGED rides, NEW c \in Calls
  PROVE  Looked(c)'
<1>0. /\ req \in [Calls -> Requests] /\ req[c] \in Requests
      /\ rides \in [Rides -> RideRows]
  BY DEF IInv, TypeOK
<1>1. Looked(c)
  BY DEF TripInv
<1>2. CASE req'[c] = req[c]
  BY <1>1, <1>2 DEF Looked, At
<1>3. CASE req'[c] = Idle
  BY <1>3 DEF Idle, Looked, At
<1>4. CASE Arrive(c)
  <2>1. ASSUME NEW r \in Rides, NEW at, StartTrip(c, r, at)
        PROVE  req'[c].ride = r /\ rides[r].status = "accepted"
    BY <1>0, <2>1 DEF StartTrip, CanStart, Go, Idle
  <2>2. ASSUME NEW r \in Rides, Complete(c, r)
        PROVE  req'[c].ride = r /\ rides[r].status \in Active
    BY <1>0, <2>2 DEF Complete, Go, Idle
  <2>3. ASSUME NEW r \in Rides, Cancel(c, r)
        PROVE  /\ req'[c].ride = r
               /\ rides[r].status \in {"offered", "accepted", "in_progress"}
    BY <1>0, <2>3 DEF Cancel, Go, Idle, RideRows, RideStatuses
  <2> QED
    BY <1>4, <2>1, <2>2, <2>3, ArrivesAt DEF Looked, At
<1>5. CASE GoesOn(c) /\ req'[c] # Idle
  <2>1. ASSUME NEW at, Goto(c, at) PROVE req'[c].ride = req[c].ride
    BY <1>0, <2>1 DEF Goto, Requests
  <2>2. CASE CompletePayment(c) /\ req'[c].at = "capture"
    BY <1>0, <1>1, <1>5, <2>1, <2>2 DEF CompletePayment, Finish, Go, Looked, At
  <2>3. CASE CompleteCapture(c) /\ req'[c].at = "persistCapture"
    BY <1>0, <1>1, <1>5, <2>1, <2>3 DEF CompleteCapture, Finish, Go, Looked, At
  <2>4. CASE CancelVoid(c) /\ req'[c].at = "persistVoid"
    BY <1>0, <1>1, <1>5, <2>1, <2>4 DEF CancelVoid, Finish, Go, Looked, At
  <2>5. CASE req'[c].at \in {"persistAuthorization", "driverKey", "claim", "lock", "assignDriver",
                             "insertPing"}
    BY <2>5 DEF Looked, At
  <2> QED
    BY <1>5, <2>2, <2>3, <2>4, <2>5, GoesOnTo
<1> QED
  BY <1>2, <1>3, <1>4, <1>5, WhoMoves

LEMMA TripStep ==
  ASSUME Serial, IInv, TripInv, [Next]_vars
  PROVE  TripInv'
<1>0. /\ req \in [Calls -> Requests] /\ rides \in [Rides -> RideRows]
      /\ payments \in [Rides -> PaymentStatuses]
  BY DEF IInv, TypeOK
<1>1. CASE UNCHANGED <<rides, payments, ledger>>
  BY <1>1, LookedStays DEF TripInv
<1>2. ASSUME NEW c \in Calls, req[c].ride \in Rides, RowWrite(c), Finish(c)
      PROVE  TripInv'
  <2>1. PICK r \in Rides : r = req[c].ride
    BY <1>2
  <2>2. /\ Moves(c, r)
        /\ \A s \in Rides : s # r => rides'[s] = rides[s] /\ payments'[s] = payments[s]
    BY <1>2, <2>1, WritesMove
  <2>3. rides'[r].status \in {"offered", "accepted", "in_progress"}
          => payments'[r] = "authorized"
    BY <2>1, <2>2 DEF TripInv, Looked, Moves, At, Active
  <2>4. \A b \in Calls : req'[b] = Idle
    BY <1>0, <1>2 DEF Serial, Finish, Go
  <2>5. \A b \in Calls : Looked(b)'
    BY <2>4 DEF Looked, At, Idle
  <2> QED
    BY <2>2, <2>3, <2>5 DEF TripInv
<1> QED
  BY <1>1, <1>2, WritesAreGuarded

LEMMA TripInvariance ==
  ASSUME Serial
  PROVE  Spec => []TripInv
<1>1. Init => TripInv
  BY DEF Init, StoreInit, NoRow, Idle, TripInv, Looked, At
<1>2. IInv /\ TripInv /\ [Next]_vars => TripInv'
  BY TripStep
<1> QED
  BY <1>1, <1>2, Invariance, PTL DEF Spec

\* One request at a time, the hold of an assigned ride is open: its driver can
\* be paid.  (Two at once, a cancelled ride can come back: the findings.)
THEOREM ActiveIsPayable ==
  ASSUME Serial
  PROVE  Spec => []ActiveRideIsPayable
<1>1. TripInv => ActiveRideIsPayable
  BY DEF TripInv, ActiveRideIsPayable, Active
<1> QED
  BY <1>1, TripInvariance, PTL

LEMMA TripsStep ==
  ASSUME Serial, IInv, TripInv, [Next]_vars
  PROVE  [Trips!Next]_([r \in Rides |-> rides[r].status])
<1> DEFINE statuses == [r \in Rides |-> rides[r].status]
<1>0. rides \in [Rides -> RideRows] /\ IInv'
  BY NextIInv DEF IInv, TypeOK
<1>1. CASE UNCHANGED <<rides, payments, ledger>>
  BY <1>1
<1>2. ASSUME NEW c \in Calls, req[c].ride \in Rides, RowWrite(c)
      PROVE  [Trips!Next]_statuses
  <2>1. PICK r \in Rides : r = req[c].ride
    BY <1>2
  <2>2. /\ Moves(c, r)
        /\ \A s \in Rides : s # r => rides'[s] = rides[s]
    BY <1>2, <2>1, WritesMove
  <2>3. /\ statuses' = [statuses EXCEPT ![r] = rides'[r].status]
        /\ statuses[r] = rides[r].status
    BY <2>2
  <2>4. \/ rides[r].status = "absent" /\ rides'[r].status = "offered"
        \/ rides[r].status = "offered" /\ rides'[r].status = "accepted"
        \/ rides[r].status = "accepted" /\ rides'[r].status = "in_progress"
        \/ rides'[r].status = rides[r].status
        \/ rides[r].status \in Active /\ rides'[r].status = "completed"
        \/ /\ rides[r].status \in {"offered", "accepted", "in_progress"}
           /\ rides'[r].status = "cancelled"
    BY <2>1, <2>2 DEF TripInv, Looked, Moves, At, Present
  <2> HIDE DEF statuses
  <2>5. CASE rides[r].status = "absent" /\ rides'[r].status = "offered"
    BY <2>1, <2>3, <2>5 DEF Trips!Next, Trips!Create, statuses
  <2>6. CASE rides'[r].status = rides[r].status
    BY <2>2, <2>6 DEF statuses
  <2>7. CASE \/ rides[r].status = "offered" /\ rides'[r].status = "accepted"
             \/ rides[r].status = "accepted" /\ rides'[r].status = "in_progress"
             \/ rides[r].status \in Active /\ rides'[r].status = "completed"
             \/ /\ rides[r].status \in {"offered", "accepted", "in_progress"}
                /\ rides'[r].status = "cancelled"
    <3>1. /\ rides[r].status \in Trips!TripStatuses
          /\ rides'[r].status \in Trips!TRIP_TRANSITIONS[rides[r].status]
      BY <2>7 DEF Trips!TripStatuses, Trips!TRIP_TRANSITIONS, Active
    <3> QED
      BY <2>1, <2>3, <3>1 DEF Trips!Next, Trips!Move, statuses
  <2> QED
    BY <2>4, <2>5, <2>6, <2>7
<1> QED
  BY <1>1, <1>2, WritesAreGuarded DEF statuses

\* One request at a time, the rides implement the trip state machine: each is
\* created offered and moves along TRIP_TRANSITIONS only.
THEOREM TripsImplemented ==
  ASSUME Serial
  PROVE  Spec => ImplementsTripLifecycle
<1>1. Init => Trips!Init
  BY DEF Init, StoreInit, NoRow, Trips!Init
<1>2. IInv /\ TripInv /\ [Next]_vars => [Trips!Next]_([r \in Rides |-> rides[r].status])
  BY TripsStep
<1> QED
  BY <1>1, <1>2, Invariance, TripInvariance, PTL DEF Spec, ImplementsTripLifecycle, Trips!Spec

-----------------------------------------------------------------------------
(***************************************************************************)
(* Dispatch.                                                               *)
(***************************************************************************)

\* Only Postgres has rows to lock.
LockInv == \A c \in Calls : req[c].at \in {"lock", "assignDriver"} => Store = "postgres"

LEMMA LockStep == IInv /\ LockInv /\ [Next]_vars => LockInv'
<1> SUFFICES ASSUME IInv, LockInv, [Next]_vars, NEW c \in Calls,
                    req'[c].at \in {"lock", "assignDriver"}
             PROVE  Store = "postgres"
  BY DEF LockInv
<1>1. CASE req'[c] = req[c]
  BY <1>1 DEF LockInv
<1>2. CASE Arrive(c)
  BY <1>2, ArrivesAt
<1>3. CASE GoesOn(c) /\ req'[c] # Idle
  <2>1. CASE TryClaim(c) /\ req'[c].at = "lock"
    <3>1. PICK d \in req[c].cands : TryClaimMemory(c, d) \/ TryClaimPostgres(c, d)
      BY <2>1 DEF TryClaim
    <3>2. CASE TryClaimMemory(c, d)
      <4>1. req \in [Calls -> Requests] /\ req[c] \in Requests
        BY DEF IInv, TypeOK
      <4>2. NextCandidate(c, d) => req'[c].at = "claim"
        BY <4>1 DEF NextCandidate, Go, Requests
      <4> QED
        BY <1>3, <2>1, <3>2, <4>1, <4>2 DEF TryClaimMemory, Finish, Go
    <3>3. CASE TryClaimPostgres(c, d)
      BY <3>3 DEF TryClaimPostgres
    <3> QED
      BY <3>1, <3>2, <3>3
  <2>2. CASE LockDriver(c)
    BY <2>2 DEF LockDriver, LockInv, At
  <2> QED
    BY <1>3, <2>1, <2>2, GoesOnTo
<1> QED
  BY <1>1, <1>2, <1>3, WhoMoves DEF Idle

LEMMA LockInvariance == Spec => []LockInv
<1>1. Init => LockInv
  BY DEF Init, Idle, LockInv
<1> QED
  BY <1>1, LockStep, Invariance, PTL DEF Spec

\* In memory a claim and the test of its deadline are one turn of the event
\* loop: no driver gets a ride whose offer has lapsed, however many requests are
\* at work.  (In Postgres the test comes earlier: the findings.)
THEOREM ClaimsFresh ==
  ASSUME Store = "memory"
  PROVE  Spec => ClaimsAreFresh
<1>1. ASSUME IInv, LockInv, [Next]_vars, NEW r \in Rides, rides[r].driver # rides'[r].driver
      PROVE  OfferTtl(r) \notin lapsed
  <2>1. PICK c \in Calls : req[c].ride \in Rides /\ RowWrite(c)
    BY <1>1, WritesAreGuarded
  <2>2. PICK s \in Rides : s = req[c].ride
    BY <2>1
  <2>3. r = s /\ Moves(c, r)
    BY <1>1, <2>1, <2>2, WritesMove
  <2>4. Present(r)
    BY <1>1, <2>3 DEF IInv, RowOK, Moves, Present
  <2>5. \E d \in Drivers : ClaimGuard(c, d)
    BY <1>1, <2>3, <2>4 DEF Moves
  <2> QED
    BY <1>1, <2>2, <2>3, <2>5 DEF ClaimGuard, LockInv, At, IInv, HoldsRow
<1>2. IInv /\ LockInv /\ [Next]_vars
        => [\A r \in Rides :
              rides[r].driver # rides'[r].driver => OfferTtl(r) \notin lapsed]_vars
  BY <1>1
<1> QED
  BY <1>2, Invariance, LockInvariance, PTL DEF Spec, ClaimsAreFresh

\* Where dispatch assigns the drivers: a handler that holds the lock of a driver
\* is the only one to, and the driver is free until it is done.
AssignInv ==
  /\ NoDoubleAssignment
  /\ \A c \in Calls :
       /\ req[c].at \notin {"acceptOffer", "driverKey"}
       /\ At(c, "assignDriver") => \A d \in Drivers : d = req[c].driver => ~Busy(d)
       /\ At(c, "startTrip") => Serial /\ rides[req[c].ride].status = "accepted"
  /\ \A b, c \in Calls :
       At(b, "assignDriver") /\ At(c, "assignDriver") /\ req[b].driver = req[c].driver
         => b = c

\* A driver becomes busy by a claim, and was free before it.
LEMMA FreeWhenClaimed ==
  ASSUME IInv, AssignInv, NEW c \in Calls, NEW r \in Rides, r = req[c].ride, RowWrite(c),
         NEW d \in Drivers, NEW s \in Rides, BusyOn(d, s)', ~BusyOn(d, s)
  PROVE  s = r /\ ~Busy(d) /\ ClaimGuard(c, d)
<1>1. s = r /\ Moves(c, r)
  BY WritesMove DEF BusyOn
<1>2. rides'[r].driver = d /\ rides'[r].status \in Active
  BY <1>1 DEF BusyOn
<1>3. ClaimGuard(c, d)
  BY <1>1, <1>2, NoneAssumption DEF Moves, BusyOn, Active, AssignInv
<1>4. ~Busy(d)
  BY <1>3 DEF ClaimGuard, AssignInv, At
<1> QED
  BY <1>1, <1>3, <1>4

LEMMA AssignWrite ==
  ASSUME IInv, LockInv, AssignInv, NEW c \in Calls, req[c].ride \in Rides, RowWrite(c),
         Finish(c)
  PROVE  AssignInv'
<1>0. req \in [Calls -> Requests]
  BY DEF IInv, TypeOK
<1>1. PICK r \in Rides : r = req[c].ride
  OBVIOUS
<1>2. req'[c] = Idle /\ \A b \in Calls : b # c => req'[b] = req[b]
  BY <1>0 DEF Finish, Go
<1>3. NoDoubleAssignment'
  <2> SUFFICES ASSUME NEW d \in Drivers, NEW s \in Rides, NEW t \in Rides,
                      BusyOn(d, s)', BusyOn(d, t)'
               PROVE  s = t
    BY DEF NoDoubleAssignment
  <2>1. BusyOn(d, s) /\ BusyOn(d, t) => s = t
    BY DEF AssignInv, NoDoubleAssignment
  <2>2. CASE ~BusyOn(d, s)
    <3>1. s = r /\ ~Busy(d)
      BY <1>1, <2>2, FreeWhenClaimed
    <3>2. t = r
      BY <1>1, <3>1, FreeWhenClaimed DEF Busy
    <3> QED
      BY <3>1, <3>2
  <2>3. CASE ~BusyOn(d, t)
    <3>1. t = r /\ ~Busy(d)
      BY <1>1, <2>3, FreeWhenClaimed
    <3>2. s = r
      BY <1>1, <3>1, FreeWhenClaimed DEF Busy
    <3> QED
      BY <3>1, <3>2
  <2> QED
    BY <2>1, <2>2, <2>3
<1>4. ASSUME NEW b \in Calls, NEW d \in Drivers, At(b, "assignDriver")', d = req'[b].driver
      PROVE  ~Busy(d)'
  <2>1. b # c /\ req'[b] = req[b] /\ At(b, "assignDriver")
    BY <1>2, <1>4 DEF At, Idle
  <2>2. d = req[b].driver
    BY <1>4, <2>1
  <2>3. ~Busy(d) /\ Store = "postgres"
    BY <2>1, <2>2 DEF AssignInv, LockInv, At
  <2>4. ASSUME NEW s \in Rides, BusyOn(d, s)' PROVE FALSE
    <3>1. ClaimGuard(c, d)
      BY <1>1, <2>3, <2>4, FreeWhenClaimed DEF Busy
    <3>2. At(c, "assignDriver") /\ req[c].driver = d
      BY <2>3, <3>1, StoreAssumption DEF ClaimGuard, AssignInv, At
    <3> QED
      BY <2>1, <2>2, <3>2 DEF AssignInv
  <2> QED
    BY <2>4 DEF Busy
<1>5. \A b \in Calls : req'[b].at \notin {"acceptOffer", "driverKey"}
  BY <1>2 DEF AssignInv, Idle
<1>6. ASSUME NEW b \in Calls, At(b, "startTrip")' PROVE FALSE
  <2>1. b # c /\ At(b, "startTrip")
    BY <1>2, <1>6 DEF At, Idle
  <2> QED
    BY <2>1 DEF AssignInv, Serial
<1>7. \A a, b \in Calls :
        At(a, "assignDriver")' /\ At(b, "assignDriver")' /\ req'[a].driver = req'[b].driver
          => a = b
  BY <1>2 DEF AssignInv, At, Idle
<1> QED
  BY <1>3, <1>4, <1>5, <1>6, <1>7 DEF AssignInv

\* A handler gets the lock of a driver when nobody has it and the driver is free.
LEMMA LocksAFreeDriver ==
  ASSUME IInv, NEW c \in Calls, LockDriver(c), At(c, "assignDriver")'
  PROVE  /\ req'[c].driver = req[c].driver /\ req[c].driver \in Drivers
         /\ ~Locked(req[c].driver) /\ ~Busy(req[c].driver)
         /\ \A b \in Calls : b # c => req'[b] = req[b]
<1>0. req \in [Calls -> Requests] /\ req[c] \in Requests /\ CallMoney(c)
  BY DEF IInv, TypeOK
<1>1. Goto(c, "assignDriver") => req'[c].driver = req[c].driver
  BY <1>0 DEF Goto, Requests
<1>2. NextCandidate(c, req[c].driver) => req'[c].at = "claim"
  BY <1>0 DEF NextCandidate, Go, Requests
<1>3. \A b \in Calls : b # c => req'[b] = req[b]
  BY OthersStand DEF Step, DispatchStep
<1> QED
  BY <1>0, <1>1, <1>2, <1>3 DEF LockDriver, CallMoney, At

LEMMA AssignStands ==
  ASSUME "accept" \notin Operations, "startTrip" \notin Operations \/ Serial,
         IInv, AssignInv, [Next]_vars, UNCHANGED rides
  PROVE  AssignInv'
<1>0. req \in [Calls -> Requests]
  BY DEF IInv, TypeOK
<1>1. NoDoubleAssignment'
  BY DEF AssignInv, NoDoubleAssignment, BusyOn
<1>2. \A d \in Drivers : ~Busy(d) => ~Busy(d)'
  BY DEF Busy, BusyOn
<1>3. ASSUME NEW c \in Calls PROVE req'[c].at \notin {"acceptOffer", "driverKey"}
  BY WhoMoves, ArrivesAt, GoesOnTo DEF AssignInv, AcceptOffer, Asked, At, Idle
<1>4. ASSUME NEW c \in Calls, At(c, "assignDriver")'
      PROVE  req'[c] = req[c] \/ LockDriver(c)
  BY <1>4, WhoMoves, ArrivesAt, GoesOnTo DEF At, Idle
<1>5. ASSUME NEW c \in Calls, At(c, "assignDriver")', NEW d \in Drivers, d = req'[c].driver
      PROVE  ~Busy(d)'
  BY <1>2, <1>4, <1>5, LocksAFreeDriver DEF AssignInv, At
<1>6. ASSUME NEW c \in Calls, At(c, "startTrip")'
      PROVE  Serial /\ rides'[req'[c].ride].status = "accepted"
  <2>1. CASE req'[c] = req[c]
    BY <1>6, <2>1 DEF AssignInv, At
  <2>2. CASE Arrive(c)
    <3>1. Asked("startTrip") /\ \E r \in Rides : StartTrip(c, r, "startTrip")
      BY <1>6, <2>2, ArrivesAt DEF At
    <3>2. PICK r \in Rides : StartTrip(c, r, "startTrip")
      BY <3>1
    <3>3. req'[c].ride = r /\ rides[r].status = "accepted"
      BY <1>0, <3>2 DEF StartTrip, CanStart, Go, Idle
    <3> QED
      BY <3>1, <3>3 DEF Asked
  <2>3. CASE GoesOn(c)
    BY <1>6, <2>3, GoesOnTo DEF At, Idle
  <2> QED
    BY <1>6, <2>1, <2>2, <2>3, WhoMoves DEF At, Idle
<1>7. ASSUME NEW b \in Calls, NEW c \in Calls, b # c, At(b, "assignDriver")',
             At(c, "assignDriver")', req'[b].driver = req'[c].driver
      PROVE  FALSE
  <2>1. CASE req'[b] = req[b] /\ req'[c] = req[c]
    BY <1>7, <2>1 DEF AssignInv, At
  <2>2. CASE LockDriver(c)
    <3>1. At(b, "assignDriver") /\ req[b].driver = req[c].driver
      BY <1>7, <2>2, LocksAFreeDriver DEF At
    <3> QED
      BY <1>7, <2>2, <3>1, LocksAFreeDriver DEF Locked
  <2>3. CASE LockDriver(b)
    <3>1. At(c, "assignDriver") /\ req[b].driver = req[c].driver
      BY <1>7, <2>3, LocksAFreeDriver DEF At
    <3> QED
      BY <1>7, <2>3, <3>1, LocksAFreeDriver DEF Locked
  <2> QED
    BY <1>4, <1>7, <2>1, <2>2, <2>3
<1> QED
  BY <1>1, <1>3, <1>5, <1>6, <1>7 DEF AssignInv

\* Where drivers are assigned by dispatch alone, no driver is on two active
\* rides, however many operators and handlers are at work.  Two conditions, both
\* needed (the findings): acceptOffer does not look at the driver's other rides,
\* and a startTrip that races a cancel or a complete brings a ride back.
THEOREM AssignedOnce ==
  ASSUME "accept" \notin Operations, "startTrip" \notin Operations \/ Serial
  PROVE  Spec => []NoDoubleAssignment
<1>1. Init => AssignInv
  BY NoneAssumption
     DEF Init, StoreInit, NoRow, Idle, AssignInv, NoDoubleAssignment, BusyOn, Active, At
<1>2. IInv /\ LockInv /\ AssignInv /\ [Next]_vars => AssignInv'
  BY WritesAreGuarded, AssignWrite, AssignStands
<1>3. AssignInv => NoDoubleAssignment
  BY DEF AssignInv
<1> QED
  BY <1>1, <1>2, <1>3, Invariance, LockInvariance, PTL DEF Spec
=============================================================================
