----------------------------- MODULE Settlement -----------------------------
(***************************************************************************)
(* What the money path promises for the hold of a ride: it is placed once, *)
(* and then captured or voided, never both and never twice.                *)
(***************************************************************************)
CONSTANT Rides

VARIABLE hold

Init == hold = [r \in Rides |-> "none"]

Place(r) == hold[r] = "none" /\ hold' = [hold EXCEPT ![r] = "held"]

Capture(r) == hold[r] = "held" /\ hold' = [hold EXCEPT ![r] = "captured"]

Void(r) == hold[r] = "held" /\ hold' = [hold EXCEPT ![r] = "voided"]

Next == \E r \in Rides : Place(r) \/ Capture(r) \/ Void(r)

Spec == Init /\ [][Next]_hold
=============================================================================
