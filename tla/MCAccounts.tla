----------------------------- MODULE MCAccounts -----------------------------
(***************************************************************************)
(* Accounts on small instances: the symmetry of the sets of model values   *)
(* that repay it, and the start of the process over every environment.     *)
(***************************************************************************)
EXTENDS Accounts, Config, TLC

Symmetry ==
  Permutations(Phones) \cup Permutations(Codes) \cup Permutations(Sessions)
    \cup Permutations(Cards) \cup Permutations(Calls)

\* Every environment the checks tell apart: the key that moves real money was
\* opted into, and some environment starts with it.
ASSUME BootChecked ==
  /\ \A source \in Sources :
       Boots(source) /\ MovesRealMoney(source) =>
         source.liveEnabled /\ source.stripeMode = "live"
  /\ \E source \in Sources : Boots(source) /\ MovesRealMoney(source)
=============================================================================
