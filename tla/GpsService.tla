----------------------------- MODULE GpsService -----------------------------
(***************************************************************************)
(* Ping ingest.  The status is checked on the row read first; the store    *)
(* then numbers the ping and inserts it, in one turn in memory, in a       *)
(* transaction of two statements in Postgres.  Coordinates and times are   *)
(* left out.                                                               *)
(***************************************************************************)
EXTENDS RideService

CONSTANT MaxPings   \* bound: the pings kept of a ride

ASSUME MaxPingsAssumption == MaxPings \in Nat

PingAny(c, r) ==   \* mutant: any ride takes pings
  /\ At(c, "idle")
  /\ Present(r)
  /\ Len(pings[r]) < MaxPings
  /\ Go(c, [Idle EXCEPT !.at = "ping", !.ride = r])
  /\ UNCHANGED <<storeVars, gatewayVars, lapsed>>

Ping(c, r) ==
  /\ At(c, "idle")
  /\ rides[r].status = "in_progress"
  /\ Len(pings[r]) < MaxPings
  /\ Go(c, [Idle EXCEPT !.at = "ping", !.ride = r])
  /\ UNCHANGED <<storeVars, gatewayVars, lapsed>>

PingSeq(c) ==
  LET r == req[c].ride IN
  /\ At(c, "ping")
  /\ \E n \in 1..(Len(pings[r]) + 1) :
       /\ IsNextSeq(r, n)
       /\ \/ Store = "memory" /\ InsertPing(r, n) /\ Finish(c)
          \/ /\ Store = "postgres"
             /\ Go(c, [req[c] EXCEPT !.at = "insertPing", !.n = n])
             /\ UNCHANGED storeVars
  /\ UNCHANGED <<gatewayVars, lapsed>>

\* A ping that took the same number first wins; this one is rolled back.  The
\* ride's last position is updated too, which waits for the ride's row.
PingInsert(c) ==
  /\ At(c, "insertPing")
  /\ IF SeqFree(req[c].ride, req[c].n)
     THEN ~RowHeld(req[c].ride) /\ InsertPing(req[c].ride, req[c].n)
     ELSE UNCHANGED storeVars
  /\ Finish(c)
  /\ UNCHANGED <<gatewayVars, lapsed>>

GpsStep(c) == PingSeq(c) \/ PingInsert(c)
=============================================================================
