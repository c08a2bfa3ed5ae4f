--------------------------- MODULE TripTransitions ---------------------------
(***************************************************************************)
(* The transition table of a trip, which dispatch checks a ride against.   *)
(***************************************************************************)

TripStatuses ==
  {"quoted", "offered", "accepted", "in_progress", "completed", "cancelled"}

TRIP_TRANSITIONS ==
  [from \in TripStatuses |->
     CASE from = "quoted"      -> {"offered", "cancelled"}
       [] from = "offered"     -> {"accepted", "cancelled"}
       [] from = "accepted"    -> {"in_progress", "completed", "cancelled"}
       [] from = "in_progress" -> {"completed", "cancelled"}
       [] OTHER                -> {}]
=============================================================================
