--------------------------- MODULE TripLifecycle ---------------------------
(***************************************************************************)
(* What the trip state machine promises: every ride is created offered (a  *)
(* seeded one quoted) and then moves only along TRIP_TRANSITIONS, so that  *)
(* completed and cancelled are terminal.                                   *)
(***************************************************************************)
EXTENDS TripTransitions

CONSTANT Rides

VARIABLE status

Init == status = [r \in Rides |-> "absent"]

Create(r) == /\ status[r] = "absent"
             /\ \E s \in {"quoted", "offered"} : status' = [status EXCEPT ![r] = s]

Move(r) == /\ status[r] \in TripStatuses
           /\ \E s \in TRIP_TRANSITIONS[status[r]] :
                status' = [status EXCEPT ![r] = s]

Next == \E r \in Rides : Create(r) \/ Move(r)

Spec == Init /\ [][Next]_status
=============================================================================
