--------------------------- MODULE AuthRepository ---------------------------
(***************************************************************************)
(* The rows of accounts: users, login codes, sessions, saved cards, and    *)
(* the drivers table, with the operations of AuthRepository and the driver *)
(* half of RideRepository, in memory ("memory") and in PostgreSQL          *)
(* ("postgres").  One operator is one atomic piece of the store.           *)
(***************************************************************************)
EXTENDS Integers, FiniteSets

CONSTANTS
  Phones,     \* normalized phone numbers
  Users, Codes, Sessions, Cards, DriverIds,   \* the ids of rows
  Tokens,     \* Stripe's payment method ids
  Calls,      \* the requests the server may be working on at one time
  None,       \* the null of a column
  Store       \* "memory" or "postgres"

ASSUME AuthNoneAssumption ==
  None \notin Phones \cup Users \cup Codes \cup Sessions \cup Cards
                \cup DriverIds \cup Tokens
ASSUME AuthStoreAssumption == Store \in {"memory", "postgres"}

\* In memory nothing a handler awaits before its last write leaves the process,
\* so it is done before the next request is read.
ASSUME AuthTurnAssumption == Store = "memory" => \A b, c \in Calls : b = c

VARIABLES
  users,     \* user -> its phone, None while there is no such row
  otps,      \* code -> row of otp_codes
  sessions,  \* session -> row
  cards,     \* card -> row of payment_methods
  drivers,   \* driver -> row
  guesses,   \* history: code -> the wrong guesses judged against it
  newest     \* history: user -> the card saved last

rows == <<users, otps, sessions, cards, drivers, guesses, newest>>

-----------------------------------------------------------------------------
CodeRows ==
  [phone : Phones \cup {None}, created : Nat, attempts : Nat, consumed : BOOLEAN]
NoCode == [phone |-> None, created |-> 0, attempts |-> 0, consumed |-> FALSE]

\* code and from are history: the login code a session goes back to, and the
\* session it replaced.
SessionRows ==
  [user : Users \cup {None}, expires : Nat, revoked : BOOLEAN,
   code : Codes \cup {None}, from : Sessions \cup {None}]
NoSession ==
  [user |-> None, expires |-> 0, revoked |-> FALSE, code |-> None, from |-> None]

CardRows ==
  [user : Users \cup {None}, token : Tokens \cup {None}, isDefault : BOOLEAN]
NoCard == [user |-> None, token |-> None, isDefault |-> FALSE]

\* plan tells whether a plan was elected.
DriverRows == [phone : Phones \cup {None}, plan : BOOLEAN]
NoDriver == [phone |-> None, plan |-> FALSE]

RowsInit ==
  /\ users = [u \in Users |-> None]
  /\ otps = [o \in Codes |-> NoCode]
  /\ sessions = [s \in Sessions |-> NoSession]
  /\ cards = [k \in Cards |-> NoCard]
  /\ drivers = [d \in DriverIds |-> NoDriver]
  /\ guesses = [o \in Codes |-> 0]
  /\ newest = [u \in Users |-> None]

-----------------------------------------------------------------------------
UsersOf(p) == {u \in Users : users[u] = p}

\* Any user the store may make of a first login.  PostgreSQL's insert does
\* nothing on a phone that has a row, and the row is read instead.
InsertAnyUser(p, u) ==   \* mutant: no unique key on the phone
  users[u] = None /\ users' = [users EXCEPT ![u] = p]
CreateUser(p, u) ==
  IF Store = "postgres" /\ UsersOf(p) # {}
  THEN u \in UsersOf(p) /\ UNCHANGED users
  ELSE users[u] = None /\ users' = [users EXCEPT ![u] = p]

\* The code a verification looks at: the unconsumed one sent last.  Of two
\* sent in the same instant the store may return either.
UnconsumedAnywhere(p) ==   \* mutant: the phone is not looked at
  {o \in Codes : otps[o] # NoCode /\ ~otps[o].consumed}
Unconsumed(p) == {o \in Codes : otps[o].phone = p /\ ~otps[o].consumed}
ActiveOtp(p) ==
  {o \in Unconsumed(p) : \A x \in Unconsumed(p) : otps[x].created <= otps[o].created}

SentSince(p, t) == {o \in Codes : otps[o].phone = p /\ otps[o].created >= t}

InsertOtp(o, p, t) ==
  /\ otps[o] = NoCode
  /\ otps' = [otps EXCEPT ![o] = [NoCode EXCEPT !.phone = p, !.created = t]]

\* updateOtp is unconditional: it writes what its caller computed.
SetAttempts(o, n) == otps' = [otps EXCEPT ![o].attempts = n]
Consume(o) == otps' = [otps EXCEPT ![o].consumed = TRUE]

-----------------------------------------------------------------------------
LiveSession(s) == sessions[s].user # None /\ ~sessions[s].revoked

InsertSession(s, row) ==
  sessions[s] = NoSession /\ sessions' = [sessions EXCEPT ![s] = row]

\* One transaction.  It does not look whether the old session is still live.
RotateKeeping(s, t, row) ==   \* mutant: the old session is not revoked
  sessions[t] = NoSession /\ sessions' = [sessions EXCEPT ![t] = row]
RotateSession(s, t, row) ==
  /\ sessions[t] = NoSession
  /\ sessions' = [sessions EXCEPT ![s].revoked = TRUE, ![t] = row]

RevokeSession(s) == sessions' = [sessions EXCEPT ![s].revoked = TRUE]

-----------------------------------------------------------------------------
CardsOf(u) == {k \in Cards : cards[k].user = u}

\* UNIQUE (user_id, stripe_payment_method_id); the in-memory store keys its
\* cards by id alone.
NeverSaved(u, t) == {}   \* mutant: no unique key
SavedAs(u, t) ==
  IF Store = "postgres" THEN {k \in CardsOf(u) : cards[k].token = t} ELSE {}

\* The commit of a save: the rows in cleared lose their flag, the card gets it.
AddDefault(cleared, k, u, t) ==   \* mutant: the other flags stay
  cards' = [cards EXCEPT ![k] = [user |-> u, token |-> t, isDefault |-> TRUE]]
InsertThenClear(cleared, k, u, t) ==   \* mutant: the flags are cleared last
  cards' = [x \in Cards |->
              IF x = k THEN [user |-> u, token |-> t, isDefault |-> FALSE]
              ELSE [cards[x] EXCEPT !.isDefault = cards[x].user # u /\ @]]
StoreDefault(cleared, k, u, t) ==
  cards' = [x \in Cards |->
              IF x = k THEN [user |-> u, token |-> t, isDefault |-> TRUE]
              ELSE IF x \in cleared THEN [cards[x] EXCEPT !.isDefault = FALSE]
              ELSE cards[x]]

\* What a confirm may be told is the rider's card: a default one, or, in
\* PostgreSQL, another when none is.
DefaultCards(u) ==
  LET preferred == {k \in CardsOf(u) : cards[k].isDefault} IN
  IF preferred = {} /\ Store = "postgres" THEN CardsOf(u) ELSE preferred

-----------------------------------------------------------------------------
DriversOf(p) == {d \in DriverIds : drivers[d].phone = p}

InsertDriver(d, p, plan) ==
  /\ drivers[d] = NoDriver
  /\ drivers' = [drivers EXCEPT ![d] = [phone |-> p, plan |-> plan]]
=============================================================================
