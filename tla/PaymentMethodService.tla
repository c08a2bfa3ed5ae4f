------------------------ MODULE PaymentMethodService ------------------------
(***************************************************************************)
(* Saved cards: save is the one operation that writes them.                *)
(*                                                                         *)
(* In PostgreSQL a save is a transaction: its UPDATE takes the rows its    *)
(* snapshot shows, waits until no other save holds one of them, and keeps  *)
(* them locked until the commit that its INSERT ends in.  Rows committed   *)
(* after the snapshot are not cleared.                                     *)
(***************************************************************************)
EXTENDS AuthService

HoldsCards(c) == At(c, "saveCard") /\ Store = "postgres"
FreeFor(c, ks) ==
  \A b \in Calls \ {c} : HoldsCards(b) => req[b].seen \cap ks = {}

SaveCard(c, u, t) ==
  /\ At(c, "idle")
  /\ users[u] # None
  /\ Go(c, [Idle EXCEPT !.at = IF Store = "postgres" THEN "lockCards" ELSE "saveCard",
                        !.user = u, !.token = t, !.seen = CardsOf(u)])
  /\ UNCHANGED <<rows, now>>

LockCards(c) ==
  /\ At(c, "lockCards")
  /\ FreeFor(c, req[c].seen)
  /\ Go(c, [req[c] EXCEPT !.at = "saveCard"])
  /\ UNCHANGED <<rows, now>>

\* A card saved before gets its flag back in PostgreSQL; in memory it gets a
\* second row.
SaveCardInsert(c) ==
  LET u == req[c].user
      t == req[c].token
      again == SavedAs(u, t) IN
  /\ At(c, "saveCard")
  /\ FreeFor(c, again)
  /\ \E k \in IF again = {} THEN {x \in Cards : cards[x] = NoCard} ELSE again :
       /\ StoreDefault(req[c].seen, k, u, t)
       /\ newest' = [newest EXCEPT ![u] = k]
  /\ Finish(c)
  /\ UNCHANGED <<users, otps, sessions, drivers, guesses, now>>

CardStep(c) == LockCards(c) \/ SaveCardInsert(c)
=============================================================================
