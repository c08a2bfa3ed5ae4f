-------------------------- MODULE DispatchService --------------------------
(***************************************************************************)
(* Operator dispatch: a driver reports a position, and assign claims one   *)
(* driver for an offered ride, either the one the operator names or the    *)
(* first the greedy loop can claim.  Distances are left out, so the loop   *)
(* may try the available drivers in any order.                             *)
(***************************************************************************)
EXTENDS RideService, TripTransitions

\* The update of the driver's row waits for an assignment that holds it.
ReportLocation(d) ==
  /\ ~Locked(d)
  /\ UpdateDriverLocation(d)
  /\ UNCHANGED <<gatewayVars, req, lapsed>>

\* assign: the transition is checked on the row read first.
AssignTo(c, r, d) ==
  /\ At(c, "idle")
  /\ Present(r)
  /\ "accepted" \in TRIP_TRANSITIONS[rides[r].status]
  /\ Go(c, [Idle EXCEPT !.at = "claim", !.ride = r, !.cands = {d}])
  /\ UNCHANGED <<storeVars, gatewayVars, lapsed>>

AssignGreedy(c, r) ==
  /\ At(c, "idle")
  /\ Present(r)
  /\ "accepted" \in TRIP_TRANSITIONS[rides[r].status]
  /\ Go(c, [Idle EXCEPT !.at = "rank", !.ride = r])
  /\ UNCHANGED <<storeVars, gatewayVars, lapsed>>

Rank(c) ==
  /\ At(c, "rank")
  /\ Go(c, [req[c] EXCEPT !.at = "claim", !.cands = AvailableDrivers])
  /\ UNCHANGED <<storeVars, gatewayVars, lapsed>>

\* A failed claim: the loop goes on with the rest.
NextCandidate(c, d) ==
  Go(c, [req[c] EXCEPT !.at = "claim", !.driver = None, !.cands = @ \ {d}])

\* tryClaim reads the clock and calls assignDriver.  In memory the whole of
\* it is one turn; in Postgres it is a transaction that first waits for the
\* row lock of the driver.
TryClaimLate(c, d) ==   \* mutant: the deadline is not looked at
  /\ Store = "memory"
  /\ IF ~Busy(d) /\ Claimable(req[c].ride)
     THEN Claim(req[c].ride, d) /\ Finish(c)
     ELSE UNCHANGED storeVars /\ NextCandidate(c, d)
TryClaimMemory(c, d) ==
  /\ Store = "memory"
  /\ IF ~Busy(d) /\ Claimable(req[c].ride) /\ OfferTtl(req[c].ride) \notin lapsed
     THEN Claim(req[c].ride, d) /\ Finish(c)
     ELSE UNCHANGED storeVars /\ NextCandidate(c, d)

TryClaimPostgres(c, d) ==
  /\ Store = "postgres"
  /\ IF OfferTtl(req[c].ride) \notin lapsed
     THEN Go(c, [req[c] EXCEPT !.at = "lock", !.driver = d])
     ELSE NextCandidate(c, d)
  /\ UNCHANGED storeVars

TryClaim(c) ==
  /\ At(c, "claim")
  /\ \E d \in req[c].cands : TryClaimMemory(c, d) \/ TryClaimPostgres(c, d)
  /\ UNCHANGED <<gatewayVars, lapsed>>

\* SELECT ... FOR UPDATE on the driver, then the read of the active rides.
LockDriverNoWait(c) ==   \* mutant: no FOR UPDATE
  /\ At(c, "lock")
  /\ IF Busy(req[c].driver)
     THEN NextCandidate(c, req[c].driver)
     ELSE Goto(c, "assignDriver")
  /\ UNCHANGED <<storeVars, gatewayVars, lapsed>>

LockDriver(c) ==
  /\ At(c, "lock")
  /\ ~Locked(req[c].driver)
  /\ IF Busy(req[c].driver)
     THEN NextCandidate(c, req[c].driver)
     ELSE Goto(c, "assignDriver")
  /\ UNCHANGED <<storeVars, gatewayVars, lapsed>>

\* The ride's compare-and-set, which waits for the ride's row while it holds
\* the driver's, and the commit, which frees the lock.
AssignOverHeldRow(c) ==   \* mutant: does not wait for the ride's row
  /\ At(c, "assignDriver")
  /\ IF Claimable(req[c].ride)
     THEN Claim(req[c].ride, req[c].driver) /\ Finish(c)
     ELSE UNCHANGED storeVars /\ NextCandidate(c, req[c].driver)
  /\ UNCHANGED <<gatewayVars, lapsed>>

AssignDriver(c) ==
  /\ At(c, "assignDriver")
  /\ IF Claimable(req[c].ride)
     THEN ~RowHeld(req[c].ride) /\ Claim(req[c].ride, req[c].driver) /\ Finish(c)
     ELSE UNCHANGED storeVars /\ NextCandidate(c, req[c].driver)
  /\ UNCHANGED <<gatewayVars, lapsed>>

\* Nobody left to try: 409, escalate to the human dispatcher.
Escalate(c) ==
  /\ At(c, "claim")
  /\ req[c].cands = {}
  /\ Finish(c)
  /\ UNCHANGED <<storeVars, gatewayVars, lapsed>>

DispatchStep(c) ==
  Rank(c) \/ TryClaim(c) \/ LockDriver(c) \/ AssignDriver(c) \/ Escalate(c)
=============================================================================
