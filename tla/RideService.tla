---------------------------- MODULE RideService ----------------------------
(***************************************************************************)
(* The handlers of RideService as processes.  A handler runs alone from    *)
(* one await to the next, so it is cut there: each read, gateway call and  *)
(* write is one action, and what it read before an await is kept in its    *)
(* request.  A handler that rejects before it changed anything is a call   *)
(* the model does not make.                                                *)
(***************************************************************************)
EXTENDS RideRepository, PaymentGateway

VARIABLES
  req,     \* call -> the handler at work on it: its position and locals
  lapsed   \* the deadlines the clock has passed

vars == <<storeVars, gatewayVars, req, lapsed>>

-----------------------------------------------------------------------------
Positions ==
  {"idle", "authorize", "persistAuthorization", "acceptOffer", "driverKey",
   "startTrip", "wrongOtp", "payment", "capture", "persistCapture", "void", "persistVoid",
   "rank", "claim", "lock", "assignDriver", "ping", "insertPing"}

\* ride, quote, driver and intent are the handler's arguments and what it
\* read of the ride's row; n is a number it read (otp_attempts, the next
\* seq); cands are the drivers the greedy loop has still to try.
Requests ==
  [at : Positions, ride : Rides \cup {None}, quote : Quotes \cup {None},
   driver : Drivers \cup {None}, intent : Rides \cup {None}, n : Nat,
   cands : SUBSET Drivers]

Idle ==
  [at |-> "idle", ride |-> None, quote |-> None, driver |-> None,
   intent |-> None, n |-> 0, cands |-> {}]

At(c, at) == req[c].at = at
Go(c, r) == req' = [req EXCEPT ![c] = r]
Goto(c, at) == req' = [req EXCEPT ![c].at = at]
Finish(c) == Go(c, Idle)

\* Row locks, held until the statement or transaction commits.  assignDriver
\* holds its driver's row while it works on the ride; acceptOffer holds the
\* ride's row while its foreign key waits for the driver's, and every other
\* update of the ride waits for it (~RowHeld).
Locked(d) == \E c \in Calls : At(c, "assignDriver") /\ req[c].driver = d
RowHeld(r) == \E c \in Calls : At(c, "driverKey") /\ req[c].ride = r

-----------------------------------------------------------------------------
\* confirm.  The quote is checked once, before any await that changes
\* something; the ride id is random.
FreshToStore(r) == ~Present(r)   \* mutant: an id another confirm may hold
FreshRide(r) ==
  /\ ~Present(r)
  /\ intents[r] = "none"
  /\ \A c \in Calls : req[c].ride # r

Confirm(c, q, r) ==
  /\ At(c, "idle")
  /\ quotes[q] = "active"
  /\ QuoteTtl(q) \notin lapsed
  /\ FreshRide(r)
  /\ Go(c, [Idle EXCEPT !.at = "authorize", !.quote = q, !.ride = r])
  /\ UNCHANGED <<storeVars, gatewayVars, lapsed>>

ConfirmAuthorize(c) ==
  /\ At(c, "authorize")
  /\ Authorize(req[c].quote, req[c].ride)
  /\ Go(c, [req[c] EXCEPT !.at = "persistAuthorization",
                          !.intent = AuthorizeResult(req[c].quote, req[c].ride)])
  /\ UNCHANGED <<storeVars, lapsed>>

ConfirmPersist(c) ==
  /\ At(c, "persistAuthorization")
  /\ IF UniqueViolation(req[c].quote, req[c].intent)
     THEN UNCHANGED storeVars
     ELSE PersistAuthorization(req[c].ride, req[c].quote, req[c].intent, c)
  /\ Finish(c)
  /\ UNCHANGED <<gatewayVars, lapsed>>

-----------------------------------------------------------------------------
\* accept.  Postgres runs the update after the clock was read; the in-memory
\* method runs in the same turn.  A matching update first waits for the ride's
\* row; with that row in hand, its foreign key on rides.driver_id takes a key
\* lock on the driver's row, so it waits for an assignment that holds it.
Accept(c, r, d) ==
  /\ At(c, "idle")
  /\ Present(r)
  /\ OfferTtl(r) \notin lapsed
  /\ Go(c, [Idle EXCEPT !.at = "acceptOffer", !.ride = r, !.driver = d])
  /\ UNCHANGED <<storeVars, gatewayVars, lapsed>>

AcceptOffer(c) ==
  LET r == req[c].ride
      d == req[c].driver IN
  /\ At(c, "acceptOffer")
  /\ IF Claimable(r) /\ (Store = "memory" => OfferTtl(r) \notin lapsed)
     THEN /\ ~RowHeld(r)
          /\ IF Store = "postgres" /\ Locked(d)
             THEN UNCHANGED storeVars /\ Goto(c, "driverKey")
             ELSE Claim(r, d) /\ Finish(c)
     ELSE UNCHANGED storeVars /\ Finish(c)
  /\ UNCHANGED <<gatewayVars, lapsed>>

AcceptCommit(c) ==
  /\ At(c, "driverKey")
  /\ ~Locked(req[c].driver)
  /\ Claim(req[c].ride, req[c].driver)
  /\ Finish(c)
  /\ UNCHANGED <<gatewayVars, lapsed>>

\* An accept waits for the assignment that holds its driver's row, and that
\* assignment for the accept that holds its ride's row: PostgreSQL finds the
\* cycle and aborts one of them.  The error leaves the handler; nothing retries.
WaitsFor(b, c) ==
  \/ /\ At(b, "driverKey") /\ At(c, "assignDriver")
     /\ req[b].driver = req[c].driver
  \/ /\ At(b, "assignDriver") /\ At(c, "driverKey")
     /\ req[b].ride = req[c].ride

Deadlocked(c) ==
  \E S \in SUBSET Calls :
    /\ c \in S
    /\ \A b \in S : /\ \E e \in S : WaitsFor(b, e)
                    /\ \E e \in S : WaitsFor(e, b)

RetryVictim(c) ==   \* mutant: the aborted claim is tried again
  /\ Deadlocked(c)
  /\ Goto(c, IF At(c, "driverKey") THEN "acceptOffer" ELSE "lock")
  /\ UNCHANGED <<storeVars, gatewayVars, lapsed>>

DeadlockAbort(c) ==
  /\ Deadlocked(c)
  /\ Finish(c)
  /\ UNCHANGED <<storeVars, gatewayVars, lapsed>>

-----------------------------------------------------------------------------
\* startTrip.  The code is compared with the row that was read; the write
\* that follows looks at nothing.
MAX_OTP_ATTEMPTS == 5

CanStartAny(r) ==   \* mutant: the status is not looked at
  rides[r].otp = "live" /\ rides[r].tries < MAX_OTP_ATTEMPTS
CanStart(r) ==
  /\ rides[r].status = "accepted"
  /\ rides[r].otp = "live"
  /\ rides[r].tries < MAX_OTP_ATTEMPTS
  /\ OtpTtl(r) \notin lapsed

StartTrip(c, r, at) ==
  /\ At(c, "idle")
  /\ CanStart(r)
  /\ Go(c, [Idle EXCEPT !.at = at, !.ride = r, !.n = rides[r].tries])
  /\ UNCHANGED <<storeVars, gatewayVars, lapsed>>

StartTripWrite(c) ==
  /\ At(c, "startTrip")
  /\ ~RowHeld(req[c].ride)
  /\ StartRide(req[c].ride)
  /\ Finish(c)
  /\ UNCHANGED <<gatewayVars, lapsed>>

WrongOtpWrite(c) ==
  /\ At(c, "wrongOtp")
  /\ ~RowHeld(req[c].ride)
  /\ SetTries(req[c].ride, req[c].n + 1)
  /\ Finish(c)
  /\ UNCHANGED <<gatewayVars, lapsed>>

-----------------------------------------------------------------------------
\* complete.  The gateway first, then the store.
Complete(c, r) ==
  /\ At(c, "idle")
  /\ rides[r].driver # None
  /\ rides[r].status \in Active
  /\ Go(c, [Idle EXCEPT !.at = "payment", !.ride = r,
                        !.driver = rides[r].driver, !.intent = rides[r].intent])
  /\ UNCHANGED <<storeVars, gatewayVars, lapsed>>

CompletePayment(c) ==
  /\ At(c, "payment")
  /\ IF payments[req[c].ride] = "authorized" THEN Goto(c, "capture") ELSE Finish(c)
  /\ UNCHANGED <<storeVars, gatewayVars, lapsed>>

CaptureUnchecked(c) ==   \* mutant: a failed capture is swallowed
  /\ At(c, "capture")
  /\ IF CanCapture(req[c].intent) THEN Capture(req[c].intent)
                                  ELSE UNCHANGED gatewayVars
  /\ Goto(c, "persistCapture")
  /\ UNCHANGED <<storeVars, lapsed>>

CompleteCapture(c) ==
  /\ At(c, "capture")
  /\ IF CanCapture(req[c].intent)
     THEN Capture(req[c].intent) /\ Goto(c, "persistCapture")
     ELSE UNCHANGED gatewayVars /\ Finish(c)
  /\ UNCHANGED <<storeVars, lapsed>>

\* The credit's foreign key on ledger_entries.driver_id waits for the driver's
\* row too; a skipped posting does not.
CreditWaits(c) ==
  Locked(req[c].driver) /\ ~Posted(ledger, req[c].ride, "capture")

BookIfStarted(c) ==   \* mutant: forgets that an accepted ride can complete
  /\ At(c, "persistCapture")
  /\ ~RowHeld(req[c].ride) /\ ~CreditWaits(c)
  /\ IF rides[req[c].ride].status = "in_progress"
     THEN PersistCapture(req[c].ride, req[c].driver, c) ELSE UNCHANGED storeVars
  /\ Finish(c)
  /\ UNCHANGED <<gatewayVars, lapsed>>

CompletePersist(c) ==
  /\ At(c, "persistCapture")
  /\ ~RowHeld(req[c].ride) /\ ~CreditWaits(c)
  /\ PersistCapture(req[c].ride, req[c].driver, c)
  /\ Finish(c)
  /\ UNCHANGED <<gatewayVars, lapsed>>

-----------------------------------------------------------------------------
\* cancel.  The payment it reads in between only tells that there is one.
CancelAny(c, r) ==   \* mutant: a completed ride can be cancelled
  /\ At(c, "idle")
  /\ rides[r].status \notin {"absent", "cancelled"}
  /\ Go(c, [Idle EXCEPT !.at = "void", !.ride = r, !.intent = rides[r].intent])
  /\ UNCHANGED <<storeVars, gatewayVars, lapsed>>

Cancel(c, r) ==
  /\ At(c, "idle")
  /\ rides[r].status \notin {"absent", "completed", "cancelled"}
  /\ Go(c, [Idle EXCEPT !.at = "void", !.ride = r, !.intent = rides[r].intent])
  /\ UNCHANGED <<storeVars, gatewayVars, lapsed>>

VoidUnchecked(c) ==   \* mutant: a failed void is swallowed
  /\ At(c, "void")
  /\ IF CanVoid(req[c].intent) THEN Void(req[c].intent)
                               ELSE UNCHANGED gatewayVars
  /\ Goto(c, "persistVoid")
  /\ UNCHANGED <<storeVars, lapsed>>

CancelVoid(c) ==
  /\ At(c, "void")
  /\ IF CanVoid(req[c].intent)
     THEN Void(req[c].intent) /\ Goto(c, "persistVoid")
     ELSE UNCHANGED gatewayVars /\ Finish(c)
  /\ UNCHANGED <<storeVars, lapsed>>

CancelPersist(c) ==
  /\ At(c, "persistVoid")
  /\ ~RowHeld(req[c].ride)
  /\ PersistVoid(req[c].ride, c)
  /\ Finish(c)
  /\ UNCHANGED <<gatewayVars, lapsed>>

-----------------------------------------------------------------------------
\* The gateway declines or cannot be reached: it throws, and so does the
\* handler, with nothing written.
GatewayRefuses(c) ==
  /\ req[c].at \in {"authorize", "capture", "void"}
  /\ Finish(c)
  /\ UNCHANGED <<storeVars, gatewayVars, lapsed>>

\* The steps a handler takes by itself once its request has come in.
RideStep(c) ==
  \/ ConfirmAuthorize(c) \/ ConfirmPersist(c)
  \/ AcceptOffer(c) \/ AcceptCommit(c) \/ DeadlockAbort(c)
  \/ StartTripWrite(c) \/ WrongOtpWrite(c)
  \/ CompletePayment(c) \/ CompleteCapture(c) \/ CompletePersist(c)
  \/ CancelVoid(c) \/ CancelPersist(c)
=============================================================================
