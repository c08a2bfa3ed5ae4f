----------------------------- MODULE MCEarnings -----------------------------
(***************************************************************************)
(* Earnings on small instances, and the algorithms without a state over    *)
(* bounded inputs, against what they promise.                              *)
(***************************************************************************)
EXTENDS Earnings, RepeatLiquidity, Fares, TLC

Symmetry == Permutations(Drivers) \cup Permutations(Calls)

\* Four rides, completion times 0, 2, 3 and 6, a window of 2: the metric finds exactly the riders with
\* two rides within it.
CompletedRides ==
  [1..4 -> [rider : {"a", "b"}, driver : {"d"}, region : {"geo-1"}, at : {0, 2, 3, 6}]]
ASSUME RepeatsChecked ==
  \A done \in CompletedRides :
    RidersWithRepeat(done, "geo-1", 2) =
      {k \in {"a", "b"} : CompletedTwice(done, OfRider(done, 1..4, k), 2)}

\* Of the exact halves below, this one falls short, in floating point.
SomeBelowHalf == {<<1005, 1000, 100>>}

\* The components of a price against its real value, in 60000ths of a cent.
ASSUME FaresChecked ==
  \A metres \in {0, 1, 4, 5, 8, 833, 1005, 12500}, perKm, perMin \in {0, 1, 100, 120} :
    LET seconds == RouteDuration(metres)
        off == 60000 * (DistanceCents(metres, perKm) + TimeCents(seconds, perMin))
                 - 60 * metres * perKm - 1000 * seconds * perMin
    IN  -60000 <= off /\ off <= 60000
=============================================================================
