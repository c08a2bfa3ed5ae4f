--------------------------- MODULE RepeatLiquidity ---------------------------
(***************************************************************************)
(* The repeat metric: over the completed rides of a region, the riders and *)
(* the drivers that completed a second one within a week of a prior one.   *)
(* A completed ride is [rider, driver, region, at]; rides is a function    *)
(* from ids to them, as a table is.                                        *)
(***************************************************************************)
EXTENDS Integers, Sequences, FiniteSets

\* completedRidesInRegion, ...ForRider and ...ForDriver: the ids that match.
InRegion(rides, geo) == {i \in DOMAIN rides : rides[i].region = geo}
OfRider(rides, ids, k) == {i \in ids : rides[i].rider = k}
OfDriver(rides, ids, k) == {i \in ids : rides[i].driver = k}

\* sort: the ids one after the other by their completion time.
Ordered(rides, ids, s) ==
  /\ s \in [1..Cardinality(ids) -> ids]
  /\ \A i \in ids : \E n \in DOMAIN s : s[n] = i
  /\ \A m, n \in DOMAIN s : s[m] = s[n] => m = n
  /\ \A m, n \in DOMAIN s : m <= n => rides[s[m]].at <= rides[s[n]].at
ByTime(rides, ids) ==
  CHOOSE s \in [1..Cardinality(ids) -> ids] : Ordered(rides, ids, s)

\* Only gaps between neighbours are looked at.
HasCloseNeighbours(rides, s, week) ==
  \E n \in DOMAIN s :
    n > 1 /\ rides[s[n]].at - rides[s[n - 1]].at <= week
Repeated(rides, ids, week) ==
  HasCloseNeighbours(rides, ByTime(rides, ids), week)

RidersWithRepeat(rides, geo, week) ==
  {k \in {rides[i].rider : i \in DOMAIN rides} :
     Repeated(rides, OfRider(rides, InRegion(rides, geo), k), week)}
DriversWithRepeat(rides, geo, week) ==
  {k \in {rides[i].driver : i \in DOMAIN rides} :
     Repeated(rides, OfDriver(rides, InRegion(rides, geo), k), week)}

BilateralRepeatLiquidity(rides, geo, week) ==
  RidersWithRepeat(rides, geo, week) # {} /\ DriversWithRepeat(rides, geo, week) # {}

\* What it promises of a set of rides: two of them, whatever came between, that
\* were completed within a week of each other.
CompletedTwice(rides, ids, week) ==
  \E i, j \in ids :
    /\ i # j
    /\ rides[i].at <= rides[j].at
    /\ rides[j].at - rides[i].at <= week
=============================================================================
