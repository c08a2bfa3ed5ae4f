------------------------------ MODULE Accounts ------------------------------
(***************************************************************************)
(* The account half of the API: login, sessions, saved cards and driver    *)
(* registration, over one store and one clock.                             *)
(***************************************************************************)
EXTENDS PaymentMethodService, DriverService, FiniteSetsExt

CONSTANTS
  Workloads,   \* bound: the sets of operations the clients of one behaviour use
  Faults       \* whether a handler may die between two of its steps

\* What the in-memory store held dies with the process.
ASSUME AccountFaultsAssumption ==
  Faults \in BOOLEAN /\ (Faults => Store = "postgres")

VARIABLE asked   \* the operations in use, chosen at the start

vars == <<accountVars, asked>>

Init ==
  /\ RowsInit
  /\ req = [c \in Calls |-> Idle]
  /\ now = 0
  /\ asked \in Workloads

-----------------------------------------------------------------------------
\* A request comes in.  Bound: one that stores a row comes in only while there
\* is an id for it.
Arrive(c) ==
  \/ /\ "otp" \in asked
     /\ \E o \in Codes : otps[o] = NoCode
     /\ \E p \in Phones : RequestOtp(c, p)
  \/ /\ "verify" \in asked
     /\ \E s \in Sessions : sessions[s] = NoSession
     /\ \E p \in Phones : VerifyOtp(c, p, TRUE)
  \/ "guess" \in asked /\ \E p \in Phones : VerifyOtp(c, p, FALSE)
  \/ /\ "refresh" \in asked
     /\ \E s \in Sessions : sessions[s] = NoSession
     /\ \E s \in Sessions : Refresh(c, s)
  \/ "logout" \in asked /\ \E s \in Sessions : Logout(c, s)
  \/ /\ "card" \in asked
     /\ \E k \in Cards : cards[k] = NoCard
     /\ \E u \in Users, t \in Tokens : SaveCard(c, u, t)
  \/ /\ "driver" \in asked
     /\ \E p \in Phones, plan \in BOOLEAN : RegisterDriver(c, p, plan)

Step(c) == AuthStep(c) \/ CardStep(c) \/ UpsertDriver(c)

Tick ==
  /\ "clock" \in asked
  /\ now < MaxTime
  /\ now' = now + 1
  /\ UNCHANGED <<rows, req>>

\* The process dies or an answer of the database is lost, and an open
\* transaction, a deadlock's victim included, is rolled back.
Abort(c) ==
  /\ Faults
  /\ ~At(c, "idle")
  /\ Finish(c)
  /\ UNCHANGED <<rows, now>>

Next ==
  /\ \/ \E c \in Calls : Arrive(c) \/ Step(c) \/ Abort(c)
     \/ Tick
  /\ UNCHANGED asked

Spec == Init /\ [][Next]_vars

\* countRecentFailedOtpAttempts, which nothing calls.
FailedSince(p, t) ==
  LET attempts(o) == otps[o].attempts IN MapThenSumSet(attempts, SentSince(p, t))

-----------------------------------------------------------------------------
TypeOK ==
  /\ users \in [Users -> Phones \cup {None}]
  /\ otps \in [Codes -> CodeRows]
  /\ sessions \in [Sessions -> SessionRows]
  /\ cards \in [Cards -> CardRows]
  /\ drivers \in [DriverIds -> DriverRows]
  /\ guesses \in [Codes -> Nat]
  /\ newest \in [Users -> Cards \cup {None}]
  /\ req \in [Calls -> Requests]
  /\ now \in Nat
  /\ asked \in Workloads

\* A phone is one rider: whatever signups raced, no second user row.
OneUserPerPhone ==
  \A u, v \in Users : users[u] # None /\ users[u] = users[v] => u = v

\* Every session, however often it was refreshed, is of the user whose phone
\* the code it goes back to was sent to, and that code is spent.
SessionIsBacked ==
  \A s \in Sessions :
    sessions[s].user # None =>
      LET o == sessions[s].code IN
      /\ o \in Codes
      /\ otps[o].consumed
      /\ otps[o].phone \in Phones
      /\ users[sessions[s].user] = otps[o].phone

\* No rider is locked out early: a code counts no more attempts than wrong
\* guesses were made at it.
NoEarlyLockout == \A o \in Codes : otps[o].attempts <= guesses[o]

\* One request at a time the counter is exact, and a code takes MaxAttempts
\* wrong guesses and not one more.
GuessesBounded ==
  \A o \in Codes : otps[o].attempts = guesses[o] /\ guesses[o] <= MaxAttempts

\* The codes sent to the phone of o in the window that ends with it.
SentWith(o) ==
  {x \in SentSince(otps[o].phone, otps[o].created - SendWindow) :
     otps[x].created <= otps[o].created}

\* In no window of the send limit does a phone get more codes than OTP_SEND_MAX
\* (one request at a time).
SendsBounded ==
  \A o \in Codes : otps[o].phone # None => Cardinality(SentWith(o)) <= SendMax

\* Requests that race get past the limit, by one code each at most.
SendsNearlyBounded ==
  \A o \in Codes :
    otps[o].phone # None =>
      Cardinality(SentWith(o)) <= SendMax + Cardinality(Calls) - 1

\* A code locked by wrong guesses stays in the way of every older code of the
\* phone: none of them is consumed.
LockedOut(o) == otps[o].attempts >= MaxAttempts /\ ~otps[o].consumed
LockoutHolds ==
  [][\A o, x \in Codes :
       LockedOut(o) /\ otps[o].phone = otps[x].phone
         /\ otps[x].created < otps[o].created
           => otps'[x].consumed = otps[x].consumed]_vars

\* A refresh token is rotated once (sessions: strictly single-use).
RefreshIsSingleUse ==
  \A s, t \in Sessions :
    sessions[s].from # None /\ sessions[s].from = sessions[t].from => s = t

\* The lockout is of the phone and not of one code: once MaxAttempts wrong
\* guesses were made at codes of the window, no verification goes through.
LockoutIsOfPhone ==
  [][\A o \in Codes :
       FailedSince(otps[o].phone, WindowStart) >= MaxAttempts
         => otps'[o].consumed = otps[o].consumed]_vars

\* The sessions that go back to one code are LoginFamily's.
Login == INSTANCE LoginFamily WITH
  family <- [s \in Sessions |-> sessions[s].code],
  live <- {s \in Sessions : LiveSession(s)}
ImplementsLogin == Login!Spec

\* What the next confirm charges is the card the rider saved last (one save at
\* a time).
DefaultIsNewest ==
  \A u \in Users : newest[u] # None => DefaultCards(u) = {newest[u]}

\* Saves that race may leave two defaults, but never none, and the card saved
\* last is one of them.
NewestIsDefault == \A u \in Users : newest[u] # None => cards[newest[u]].isDefault

\* A card saved twice is one row.
OneRowPerToken ==
  \A k, l \in Cards :
    cards[k].user # None /\ cards[k].user = cards[l].user
      /\ cards[k].token = cards[l].token => k = l

\* A phone is one driver, whatever registrations raced.
OneDriverPerPhone ==
  \A d, e \in DriverIds :
    drivers[d].phone # None /\ drivers[d].phone = drivers[e].phone => d = e

-----------------------------------------------------------------------------
\* The inductive invariant: what a request in flight may rely on.  A
\* verification has its phone's code in hand, spent before any row of the user
\* or the session is touched; a save clears cards of its own rider only.
Verifying == {"failAttempt", "consume", "findUser", "createUser", "issueSession"}

CallOK(c) ==
  /\ req[c].at \in Verifying =>
       /\ req[c].phone \in Phones
       /\ req[c].code \in Codes
       /\ otps[req[c].code].phone = req[c].phone
  /\ req[c].at \in {"findUser", "createUser", "issueSession"} =>
       otps[req[c].code].consumed
  /\ At(c, "createUser") /\ Store = "memory" => UsersOf(req[c].phone) = {}
  /\ At(c, "issueSession") =>
       req[c].user \in Users /\ users[req[c].user] = req[c].phone
  /\ At(c, "failAttempt") => req[c].n <= guesses[req[c].code]
  /\ req[c].at \in {"rotate", "revoke"} =>
       req[c].session \in Sessions /\ sessions[req[c].session].user # None
  /\ req[c].at \in {"lockCards", "saveCard"} =>
       /\ req[c].user \in Users
       /\ req[c].token \in Tokens
       /\ req[c].seen \subseteq CardsOf(req[c].user)
  /\ req[c].at \in {"insertOtp", "insertDriver"} => req[c].phone \in Phones

NewestIsOwn ==
  \A u \in Users :
    newest[u] # None => newest[u] \in CardsOf(u) /\ cards[newest[u]].isDefault

AccountInv ==
  /\ TypeOK
  /\ \A c \in Calls : CallOK(c)
  /\ OneUserPerPhone
  /\ SessionIsBacked
  /\ NoEarlyLockout
  /\ NewestIsOwn
  /\ Store = "postgres" => OneRowPerToken
  /\ OneDriverPerPhone

\* What one request at a time adds: what a handler read still holds when it
\* writes.
SerialOK(c) ==
  /\ At(c, "consume") => ~otps[req[c].code].consumed
  /\ req[c].at \in {"findUser", "createUser", "issueSession"} =>
       \A s \in Sessions : sessions[s].code # req[c].code
  /\ req[c].at \in {"rotate", "revoke"} => LiveSession(req[c].session)
  /\ At(c, "failAttempt") =>
       req[c].n = otps[req[c].code].attempts /\ req[c].n < MaxAttempts

Whole(s) == sessions[s].user = None => sessions[s].code = None

Serial == \A b, c \in Calls : b = c
SerialInv ==
  Serial => /\ \A c \in Calls : SerialOK(c)
            /\ \A s \in Sessions : Whole(s)
            /\ GuessesBounded
=============================================================================
