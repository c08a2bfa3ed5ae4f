------------------------------ MODULE MCRideNow ------------------------------
(***************************************************************************)
(* RideNow on small instances: the symmetry of its sets of model values.   *)
(***************************************************************************)
EXTENDS RideNow, TLC

Symmetry == Permutations(Quotes) \cup Permutations(Rides)
              \cup Permutations(Drivers) \cup Permutations(Calls)
=============================================================================
