----------------------------- MODULE LoginFamily -----------------------------
(***************************************************************************)
(* What login promises: a code signs in once, and the sessions that go     *)
(* back to it replace each other, one live at a time.                      *)
(***************************************************************************)
CONSTANTS Codes, Sessions, None

VARIABLES
  family,   \* session -> the code it goes back to, None before it is issued
  live      \* the sessions whose refresh token is good

Init ==
  /\ family = [s \in Sessions |-> None]
  /\ live = {}

SignIn(o, s) ==
  /\ \A x \in Sessions : family[x] # o
  /\ family[s] = None
  /\ family' = [family EXCEPT ![s] = o]
  /\ live' = live \cup {s}

Rotate(s, t) ==
  /\ s \in live
  /\ family[t] = None
  /\ family' = [family EXCEPT ![t] = family[s]]
  /\ live' = (live \ {s}) \cup {t}

SignOut(s) ==
  /\ s \in live
  /\ live' = live \ {s}
  /\ UNCHANGED family

Next ==
  \/ \E o \in Codes, s \in Sessions : SignIn(o, s)
  \/ \E s, t \in Sessions : Rotate(s, t)
  \/ \E s \in Sessions : SignOut(s)

Spec == Init /\ [][Next]_<<family, live>>

\* A stolen code or a replayed token opens no second door: of the sessions that
\* go back to one code at most one is live.
OneLivePerCode ==
  \A s, t \in live : family[s] = family[t] => s = t
=============================================================================
