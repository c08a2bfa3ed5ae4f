---------------------------- MODULE DriverService ----------------------------
(***************************************************************************)
(* Driver registration and onboarding, of a valid request in the active    *)
(* region.                                                                 *)
(***************************************************************************)
EXTENDS AuthService

\* register (no plan) and onboard (a plan): the same upsert, which leaves a
\* phone that has a row as it is.
RegisterDriver(c, p, plan) ==
  /\ At(c, "idle")
  /\ DriversOf(p) = {}
  /\ Go(c, [Idle EXCEPT !.at = "insertDriver", !.phone = p, !.plan = plan])
  /\ UNCHANGED <<rows, now>>

\* PostgreSQL refuses a second row of a phone (UNIQUE), and the handler
\* throws.
UpsertAny(c) ==   \* mutant: no unique key on the phone
  /\ At(c, "insertDriver")
  /\ \E d \in DriverIds : InsertDriver(d, req[c].phone, req[c].plan)
  /\ Finish(c)
  /\ UNCHANGED <<users, otps, sessions, cards, guesses, newest, now>>
UpsertDriver(c) ==
  /\ At(c, "insertDriver")
  /\ IF DriversOf(req[c].phone) = {}
     THEN \E d \in DriverIds : InsertDriver(d, req[c].phone, req[c].plan)
     ELSE UNCHANGED drivers
  /\ Finish(c)
  /\ UNCHANGED <<users, otps, sessions, cards, guesses, newest, now>>

=============================================================================
