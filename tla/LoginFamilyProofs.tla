-------------------------- MODULE LoginFamilyProofs --------------------------
(***************************************************************************)
(* What the promise of login amounts to, for all codes and sessions.       *)
(***************************************************************************)
EXTENDS LoginFamily, TLAPS

\* A live session was issued, and no other live session goes back to its code.
FamilyInv ==
  /\ family \in [Sessions -> Codes \cup {None}]
  /\ live \subseteq Sessions
  /\ \A s \in live : family[s] # None
  /\ OneLivePerCode

\* A session that stands in for another, or the only one of its code, is the one
\* live session of that code.
THEOREM OneDoorPerCode ==
  ASSUME None \notin Codes
  PROVE  Spec => []OneLivePerCode
<1>1. Init => FamilyInv
  BY DEF Init, FamilyInv, OneLivePerCode
<1>2. FamilyInv /\ [Next]_<<family, live>> => FamilyInv'
  <2> SUFFICES ASSUME FamilyInv, [Next]_<<family, live>> PROVE FamilyInv'
    OBVIOUS
  <2> USE DEF FamilyInv
  <2>1. ASSUME NEW o \in Codes, NEW s \in Sessions, SignIn(o, s) PROVE FamilyInv'
    BY <2>1 DEF SignIn, OneLivePerCode
  <2>2. ASSUME NEW s \in Sessions, NEW t \in Sessions, Rotate(s, t) PROVE FamilyInv'
    BY <2>2 DEF Rotate, OneLivePerCode
  <2>3. ASSUME NEW s \in Sessions, SignOut(s) PROVE FamilyInv'
    BY <2>3 DEF SignOut, OneLivePerCode
  <2>4. CASE UNCHANGED <<family, live>>
    BY <2>4 DEF OneLivePerCode
  <2> QED
    BY <2>1, <2>2, <2>3, <2>4 DEF Next
<1>3. FamilyInv => OneLivePerCode
  BY DEF FamilyInv
<1> QED
  BY <1>1, <1>2, <1>3, PTL DEF Spec
=============================================================================
