----------------------- MODULE RepeatLiquidityProofs -----------------------
(***************************************************************************)
(* Why looking at neighbours is enough.                                    *)
(***************************************************************************)
EXTENDS RepeatLiquidity, TLAPS

\* subjectsWithRepeat and repeatStatus compare each ride with the one before it
\* only.  Sorted by completion time, that finds a second ride within the week of
\* any prior one, not just of the last.
THEOREM NeighboursSuffice ==
  ASSUME NEW rides, NEW ids, NEW s, NEW week \in Int,
         \A i \in ids : rides[i].at \in Int,
         Cardinality(ids) \in Nat,
         Ordered(rides, ids, s)
  PROVE  HasCloseNeighbours(rides, s, week) <=> CompletedTwice(rides, ids, week)
<1>1. DOMAIN s = 1..Cardinality(ids) /\ \A n \in DOMAIN s : s[n] \in ids
  BY DEF Ordered
<1>2. ASSUME HasCloseNeighbours(rides, s, week)
      PROVE  CompletedTwice(rides, ids, week)
  <2>1. PICK n \in DOMAIN s : n > 1 /\ rides[s[n]].at - rides[s[n - 1]].at <= week
    BY <1>2 DEF HasCloseNeighbours
  <2>2. n \in Int /\ n - 1 \in DOMAIN s /\ n - 1 <= n /\ n - 1 # n
    BY <1>1, <2>1
  <2>3. s[n - 1] # s[n] /\ rides[s[n - 1]].at <= rides[s[n]].at
    BY <2>2, <2>1 DEF Ordered
  <2>4. QED
    BY <1>1, <2>1, <2>2, <2>3 DEF CompletedTwice
<1>3. ASSUME CompletedTwice(rides, ids, week)
      PROVE  HasCloseNeighbours(rides, s, week)
  <2>1. PICK i \in ids, j \in ids : /\ i # j
                                    /\ rides[i].at <= rides[j].at
                                    /\ rides[j].at - rides[i].at <= week
    BY <1>3 DEF CompletedTwice
  <2>2. PICK m \in DOMAIN s : s[m] = i
    BY DEF Ordered
  <2>3. PICK n \in DOMAIN s : s[n] = j
    BY DEF Ordered
  <2>4. ASSUME NEW a \in DOMAIN s, NEW b \in DOMAIN s, a < b,
               rides[s[b]].at - rides[s[a]].at <= week
        PROVE  HasCloseNeighbours(rides, s, week)
    <3>1. a + 1 \in DOMAIN s /\ a + 1 > 1 /\ a <= a + 1 /\ a + 1 <= b /\ (a + 1) - 1 = a
      BY <1>1, <2>4
    <3>2. rides[s[a + 1]].at <= rides[s[b]].at
      BY <3>1 DEF Ordered
    <3>3. rides[s[a]].at \in Int /\ rides[s[a + 1]].at \in Int /\ rides[s[b]].at \in Int
      BY <1>1, <3>1
    <3>4. rides[s[a + 1]].at - rides[s[a]].at <= week
      BY <2>4, <3>2, <3>3
    <3>5. QED
      BY <3>1, <3>4 DEF HasCloseNeighbours
  <2>5. CASE m < n
    BY <2>1, <2>2, <2>3, <2>4, <2>5
  <2>6. CASE n < m
    <3>1. rides[j].at <= rides[i].at
      BY <1>1, <2>2, <2>3, <2>6 DEF Ordered
    <3>2. rides[i].at - rides[j].at <= week
      BY <2>1, <3>1
    <3>3. QED
      BY <2>2, <2>3, <2>4, <2>6, <3>2
  <2>7. m # n /\ m \in Int /\ n \in Int
    BY <1>1, <2>1, <2>2, <2>3
  <2>8. QED
    BY <2>5, <2>6, <2>7
<1>4. QED
  BY <1>2, <1>3
=============================================================================
