--------------------------- MODULE AccountsProofs ---------------------------
(***************************************************************************)
(* Proofs about Accounts, for all sets of phones, users, codes, sessions,  *)
(* cards and drivers, and any number of requests at work.                  *)
(***************************************************************************)
EXTENDS Accounts, FiniteSetTheorems, TLAPS

\* The shape of the rows, and what the invariant says of them alone.
RowTypes ==
  /\ users \in [Users -> Phones \cup {None}]
  /\ otps \in [Codes -> CodeRows]
  /\ sessions \in [Sessions -> SessionRows]
  /\ cards \in [Cards -> CardRows]
  /\ drivers \in [DriverIds -> DriverRows]
  /\ guesses \in [Codes -> Nat]
  /\ newest \in [Users -> Cards \cup {None}]

RowFacts ==
  /\ OneUserPerPhone
  /\ SessionIsBacked
  /\ NoEarlyLockout
  /\ NewestIsOwn
  /\ Store = "postgres" => OneRowPerToken
  /\ OneDriverPerPhone

\* What no step takes back: a row stays, and stays with whom it belongs to.
Grow ==
  /\ \A u \in Users : users[u] # None => users'[u] = users[u]
  /\ \A o \in Codes :
       /\ otps[o].phone # None => otps'[o].phone = otps[o].phone
       /\ otps[o].consumed => otps'[o].consumed
       /\ guesses[o] <= guesses'[o]
  /\ \A s \in Sessions : sessions[s].user # None => sessions'[s].user # None
  /\ \A k \in Cards : cards[k].user # None => cards'[k].user = cards[k].user

LEMMA Split ==
  AccountInv <=> /\ RowTypes /\ RowFacts
                 /\ req \in [Calls -> Requests] /\ now \in Nat /\ asked \in Workloads
                 /\ \A c \in Calls : CallOK(c)
BY DEF AccountInv, TypeOK, RowTypes, RowFacts

LEMMA InitInv == Init => AccountInv
<1> SUFFICES ASSUME Init PROVE AccountInv
  OBVIOUS
<1> USE DEF Init, RowsInit, Idle, NoCode, NoSession, NoCard, NoDriver
<1>1. RowTypes
  BY DEF RowTypes, CodeRows, SessionRows, CardRows, DriverRows
<1>2. req \in [Calls -> Requests]
  BY DEF Requests, Positions
<1>3. \A c \in Calls : CallOK(c)
  BY DEF CallOK, At, Verifying
<1>4. RowFacts
  <2>1. OneUserPerPhone
    BY DEF OneUserPerPhone
  <2>2. SessionIsBacked
    BY DEF SessionIsBacked
  <2>3. NoEarlyLockout
    BY DEF NoEarlyLockout
  <2>4. NewestIsOwn
    BY DEF NewestIsOwn
  <2>5. OneRowPerToken
    BY DEF OneRowPerToken
  <2>6. OneDriverPerPhone
    BY DEF OneDriverPerPhone
  <2> QED
    BY <2>1, <2>2, <2>3, <2>4, <2>5, <2>6 DEF RowFacts
<1> QED
  BY <1>1, <1>2, <1>3, <1>4, Split

-----------------------------------------------------------------------------
(***************************************************************************)
(* Frames: what is enough for a step of one call to keep the invariant.    *)
(***************************************************************************)

\* A call that does not move keeps what it relies on while rows only grow; in
\* memory there is no other call.
LEMMA OthersKeep ==
  ASSUME AccountInv, NEW b \in Calls, NEW c \in Calls, b # c,
         req'[b] = req[b], Grow, RowTypes'
  PROVE  CallOK(b)'
<1> DEFINE r == req[b]
<1>1. CallOK(b) /\ r \in Requests /\ RowTypes
  BY Split
<1>2. Store # "memory"
  BY AuthTurnAssumption
<1>3. r.at \in Verifying =>
        /\ r.phone \in Phones /\ r.code \in Codes /\ otps'[r.code].phone = r.phone
  BY <1>1, AuthNoneAssumption DEF CallOK, Grow
<1>4. r.at \in {"findUser", "createUser", "issueSession"} => otps'[r.code].consumed
  BY <1>1 DEF CallOK, Grow, Verifying
<1>5. r.at = "issueSession" => r.user \in Users /\ users'[r.user] = r.phone
  BY <1>1, AuthNoneAssumption DEF CallOK, Grow, Verifying, At
<1>6. r.at = "failAttempt" => r.n <= guesses'[r.code]
  <2> SUFFICES ASSUME r.at = "failAttempt" PROVE r.n <= guesses'[r.code]
    OBVIOUS
  <2>1. r.code \in Codes /\ r.n <= guesses[r.code]
    BY <1>1 DEF CallOK, Verifying, At
  <2>2. guesses[r.code] <= guesses'[r.code]
    BY <2>1 DEF Grow
  <2>3. r.n \in Nat /\ guesses[r.code] \in Nat /\ guesses'[r.code] \in Nat
    BY <1>1, <2>1 DEF Requests, RowTypes
  <2>4. QED
    BY <2>1, <2>2, <2>3
<1>7. r.at \in {"rotate", "revoke"} =>
        r.session \in Sessions /\ sessions'[r.session].user # None
  BY <1>1 DEF CallOK, Grow
<1>8. r.at \in {"lockCards", "saveCard"} =>
        /\ r.user \in Users /\ r.token \in Tokens
        /\ \A k \in r.seen : k \in Cards /\ cards'[k].user = r.user
  <2> SUFFICES ASSUME r.at \in {"lockCards", "saveCard"}
               PROVE  /\ r.user \in Users /\ r.token \in Tokens
                      /\ \A k \in r.seen : k \in Cards /\ cards'[k].user = r.user
    OBVIOUS
  <2>1. r.user \in Users /\ r.token \in Tokens /\ r.seen \subseteq CardsOf(r.user)
    BY <1>1 DEF CallOK
  <2>2. r.user # None
    BY <2>1, AuthNoneAssumption
  <2>3. \A k \in r.seen : k \in Cards /\ cards[k].user = r.user
    BY <2>1 DEF CardsOf
  <2> HIDE DEF r
  <2> QED
    BY <2>1, <2>2, <2>3 DEF Grow
<1>9. r.at \in {"insertOtp", "insertDriver"} => r.phone \in Phones
  BY <1>1 DEF CallOK
<1> HIDE DEF r
<1>10. req'[b] = r
  BY DEF r
<1> QED
  BY <1>2, <1>3, <1>4, <1>5, <1>6, <1>7, <1>8, <1>9, <1>10 DEF CallOK, At, CardsOf

\* A step of c that writes rows.
LEMMA RowFrame ==
  ASSUME AccountInv, NEW c \in Calls, NEW v \in Requests, Go(c, v),
         UNCHANGED <<now, asked>>, Grow, RowTypes', RowFacts',
         req'[c] = v => CallOK(c)'
  PROVE  AccountInv'
<1>1. /\ req' \in [Calls -> Requests] /\ req'[c] = v
      /\ \A b \in Calls : b # c => req'[b] = req[b]
  BY Split DEF Go
<1>2. \A b \in Calls : CallOK(b)'
  <2> SUFFICES ASSUME NEW b \in Calls PROVE CallOK(b)'
    OBVIOUS
  <2>1. CASE b = c
    BY <1>1, <2>1
  <2>2. CASE b # c
    BY <1>1, <2>2, OthersKeep
  <2> QED
    BY <2>1, <2>2
<1>3. now' \in Nat /\ asked' \in Workloads
  BY Split
<1> QED
  BY <1>1, <1>2, <1>3, Split DEF AccountInv, TypeOK, RowTypes, RowFacts

\* A step that writes no row.
LEMMA RequestFrame ==
  ASSUME AccountInv, NEW c \in Calls, NEW v \in Requests, Go(c, v),
         UNCHANGED <<rows, now, asked>>, req'[c] = v => CallOK(c)'
  PROVE  AccountInv'
<1>1. RowTypes /\ RowFacts
  BY Split
<1>2. Grow
  BY <1>1 DEF rows, Grow, RowTypes
<1>3. RowTypes'
  BY <1>1 DEF rows, RowTypes
<1>4. RowFacts'
  BY <1>1 DEF rows, RowFacts, OneUserPerPhone, SessionIsBacked, NoEarlyLockout,
     NewestIsOwn, CardsOf, OneRowPerToken, OneDriverPerPhone
<1> QED
  BY <1>2, <1>3, <1>4, RowFrame

\* A step that writes rows and ends its call.
LEMMA LastFrame ==
  ASSUME AccountInv, NEW c \in Calls, Finish(c), UNCHANGED <<now, asked>>,
         Grow, RowTypes', RowFacts'
  PROVE  AccountInv'
<1>1. Idle \in Requests
  BY DEF Idle, Requests, Positions
<1>2. req'[c] = Idle => CallOK(c)'
  BY DEF CallOK, Idle, At, Verifying
<1>3. Go(c, Idle)
  BY DEF Finish
<1> QED
  BY <1>1, <1>2, <1>3, RowFrame

-----------------------------------------------------------------------------
(***************************************************************************)
(* Requests that come in, and steps that only read.                        *)
(***************************************************************************)

LEMMA RequestOtpKeeps ==
  ASSUME AccountInv, asked' = asked, NEW c \in Calls, NEW p \in Phones, RequestOtp(c, p)
  PROVE  AccountInv'
<1> DEFINE v == [Idle EXCEPT !.at = "insertOtp", !.phone = p, !.n = now]
<1>1. Go(c, v) /\ UNCHANGED <<rows, now>>
  BY DEF RequestOtp
<1>2. v \in Requests
  BY Split DEF Idle, Requests, Positions
<1>3. req'[c] = v => CallOK(c)'
  BY DEF CallOK, Idle, At, Verifying
<1> HIDE DEF v
<1> QED
  BY <1>1, <1>2, <1>3, RequestFrame

LEMMA VerifyOtpKeeps ==
  ASSUME AccountInv, asked' = asked, NEW c \in Calls, NEW p \in Phones,
         NEW right \in BOOLEAN, VerifyOtp(c, p, right)
  PROVE  AccountInv'
<1>1. PICK o \in ActiveOtp(p) :
        Go(c, [Idle EXCEPT !.at = IF right THEN "consume" ELSE "failAttempt",
                           !.phone = p, !.code = o, !.n = otps[o].attempts])
  BY DEF VerifyOtp
<1> DEFINE v == [Idle EXCEPT !.at = IF right THEN "consume" ELSE "failAttempt",
                             !.phone = p, !.code = o, !.n = otps[o].attempts]
<1>2. o \in Codes /\ otps[o].phone = p
  BY DEF ActiveOtp, Unconsumed
<1>3. otps[o].attempts \in Nat /\ otps[o].attempts <= guesses[o]
  BY <1>2, Split DEF RowTypes, CodeRows, RowFacts, NoEarlyLockout
<1>4. v \in Requests
  BY <1>2, <1>3 DEF Idle, Requests, Positions
<1>5. UNCHANGED <<rows, now>>
  BY DEF VerifyOtp
<1>6. req'[c] = v => CallOK(c)'
  BY <1>2, <1>3, <1>5 DEF CallOK, Idle, At, Verifying, rows
<1> HIDE DEF v
<1>7. Go(c, v)
  BY <1>1 DEF v
<1> QED
  BY <1>4, <1>5, <1>6, <1>7, RequestFrame

LEMMA FindUserKeeps ==
  ASSUME AccountInv, asked' = asked, NEW c \in Calls, FindUser(c)
  PROVE  AccountInv'
<1> DEFINE p == req[c].phone
<1>1. At(c, "findUser") /\ UNCHANGED <<rows, now>>
  BY DEF FindUser
<1>2. /\ req[c] \in Requests /\ p \in Phones /\ req[c].code \in Codes
      /\ otps[req[c].code].phone = p /\ otps[req[c].code].consumed
  BY <1>1, Split DEF CallOK, At, Verifying
<1>3. ASSUME UsersOf(p) = {}, Go(c, [req[c] EXCEPT !.at = "createUser"])
      PROVE  AccountInv'
  <2> DEFINE v == [req[c] EXCEPT !.at = "createUser"]
  <2>1. v \in Requests
    BY <1>2 DEF Requests, Positions
  <2>2. req'[c] = v => CallOK(c)'
    BY <1>1, <1>2, <1>3 DEF CallOK, At, Verifying, rows, UsersOf, Requests
  <2> HIDE DEF v
  <2>3. Go(c, v)
    BY <1>3 DEF v
  <2> QED
    BY <1>1, <2>1, <2>2, <2>3, RequestFrame
<1>4. ASSUME NEW u \in UsersOf(p),
             Go(c, [req[c] EXCEPT !.at = "issueSession", !.user = u])
      PROVE  AccountInv'
  <2> DEFINE v == [req[c] EXCEPT !.at = "issueSession", !.user = u]
  <2>1. u \in Users /\ users[u] = p
    BY DEF UsersOf
  <2>2. v \in Requests
    BY <1>2, <2>1 DEF Requests, Positions
  <2>3. req'[c] = v => CallOK(c)'
    BY <1>1, <1>2, <2>1 DEF CallOK, At, Verifying, rows, Requests
  <2> HIDE DEF v
  <2>4. Go(c, v)
    BY <1>4 DEF v
  <2> QED
    BY <1>1, <2>2, <2>3, <2>4, RequestFrame
<1> QED
  BY <1>3, <1>4 DEF FindUser

LEMMA SessionFrame ==
  ASSUME AccountInv, NEW c \in Calls, NEW v \in Requests, Go(c, v),
         UNCHANGED <<rows, now, asked>>, v.at \in {"rotate", "revoke"},
         v.session \in Sessions, LiveSession(v.session)
  PROVE  AccountInv'
<1>1. req'[c] = v => CallOK(c)'
  BY DEF CallOK, At, Verifying, LiveSession, rows
<1> QED
  BY <1>1, RequestFrame

LEMMA RefreshKeeps ==
  ASSUME AccountInv, asked' = asked, NEW c \in Calls, NEW s \in Sessions, Refresh(c, s)
  PROVE  AccountInv'
<1> DEFINE v == [Idle EXCEPT !.at = "rotate", !.session = s, !.n = now]
<1>1. Go(c, v) /\ UNCHANGED <<rows, now>> /\ LiveSession(s)
  BY DEF Refresh
<1>2. v \in Requests /\ v.at = "rotate" /\ v.session = s
  BY Split DEF Idle, Requests, Positions
<1> HIDE DEF v
<1> QED
  BY <1>1, <1>2, SessionFrame

LEMMA LogoutKeeps ==
  ASSUME AccountInv, asked' = asked, NEW c \in Calls, NEW s \in Sessions, Logout(c, s)
  PROVE  AccountInv'
<1> DEFINE v == [Idle EXCEPT !.at = "revoke", !.session = s]
<1>1. Go(c, v) /\ UNCHANGED <<rows, now>> /\ LiveSession(s)
  BY DEF Logout
<1>2. v \in Requests /\ v.at = "revoke" /\ v.session = s
  BY DEF Idle, Requests, Positions
<1> HIDE DEF v
<1> QED
  BY <1>1, <1>2, SessionFrame

LEMMA SaveCardKeeps ==
  ASSUME AccountInv, asked' = asked, NEW c \in Calls, NEW u \in Users, NEW t \in Tokens,
         SaveCard(c, u, t)
  PROVE  AccountInv'
<1> DEFINE v == [Idle EXCEPT
                   !.at = IF Store = "postgres" THEN "lockCards" ELSE "saveCard",
                   !.user = u, !.token = t, !.seen = CardsOf(u)]
<1>1. Go(c, v) /\ UNCHANGED <<rows, now>>
  BY DEF SaveCard
<1>2. v \in Requests
  BY DEF Idle, Requests, Positions, CardsOf
<1>3. req'[c] = v => CallOK(c)'
  BY <1>1 DEF CallOK, Idle, At, Verifying, CardsOf, rows
<1> HIDE DEF v
<1> QED
  BY <1>1, <1>2, <1>3, RequestFrame

LEMMA LockCardsKeeps ==
  ASSUME AccountInv, asked' = asked, NEW c \in Calls, LockCards(c)
  PROVE  AccountInv'
<1> DEFINE v == [req[c] EXCEPT !.at = "saveCard"]
<1>1. Go(c, v) /\ UNCHANGED <<rows, now>> /\ At(c, "lockCards")
  BY DEF LockCards
<1>2. /\ req[c] \in Requests /\ req[c].user \in Users /\ req[c].token \in Tokens
      /\ req[c].seen \subseteq CardsOf(req[c].user)
  BY <1>1, Split DEF CallOK, At
<1>3. v \in Requests
  BY <1>2 DEF Requests, Positions
<1>4. req'[c] = v => CallOK(c)'
  BY <1>1, <1>2 DEF CallOK, At, Verifying, CardsOf, rows, Requests
<1> HIDE DEF v
<1> QED
  BY <1>1, <1>3, <1>4, RequestFrame

LEMMA RegisterDriverKeeps ==
  ASSUME AccountInv, asked' = asked, NEW c \in Calls, NEW p \in Phones,
         NEW plan \in BOOLEAN, RegisterDriver(c, p, plan)
  PROVE  AccountInv'
<1> DEFINE v == [Idle EXCEPT !.at = "insertDriver", !.phone = p, !.plan = plan]
<1>1. Go(c, v) /\ UNCHANGED <<rows, now>>
  BY DEF RegisterDriver
<1>2. v \in Requests
  BY DEF Idle, Requests, Positions
<1>3. req'[c] = v => CallOK(c)'
  BY DEF CallOK, Idle, At, Verifying
<1> HIDE DEF v
<1> QED
  BY <1>1, <1>2, <1>3, RequestFrame

LEMMA AbortKeeps ==
  ASSUME AccountInv, asked' = asked, NEW c \in Calls, Abort(c)
  PROVE  AccountInv'
<1>1. Go(c, Idle) /\ UNCHANGED <<rows, now>>
  BY DEF Abort, Finish
<1>2. Idle \in Requests
  BY DEF Idle, Requests, Positions
<1>3. req'[c] = Idle => CallOK(c)'
  BY DEF CallOK, Idle, At, Verifying
<1> QED
  BY <1>1, <1>2, <1>3, RequestFrame

-----------------------------------------------------------------------------
(***************************************************************************)
(* Steps that write rows.                                                  *)
(***************************************************************************)

LEMMA RequestOtpInsertKeeps ==
  ASSUME AccountInv, asked' = asked, NEW c \in Calls, RequestOtpInsert(c)
  PROVE  AccountInv'
<1>1. PICK o \in Codes : InsertOtp(o, req[c].phone, req[c].n)
  BY DEF RequestOtpInsert
<1>2. /\ At(c, "insertOtp") /\ Finish(c)
      /\ UNCHANGED <<users, sessions, cards, drivers, guesses, newest, now>>
  BY DEF RequestOtpInsert
<1>3. RowTypes /\ RowFacts /\ req[c] \in Requests /\ req[c].phone \in Phones
  BY <1>2, Split DEF CallOK, At
<1>4. /\ otps[o] = NoCode
      /\ otps' = [otps EXCEPT ![o] = [NoCode EXCEPT !.phone = req[c].phone,
                                                    !.created = req[c].n]]
  BY <1>1 DEF InsertOtp
<1>5. RowTypes'
  BY <1>2, <1>3, <1>4 DEF RowTypes, CodeRows, NoCode, Requests
<1>6. /\ otps[o].phone = None /\ ~otps[o].consumed
      /\ otps'[o].attempts = 0
      /\ \A x \in Codes : x # o => otps'[x] = otps[x]
  BY <1>3, <1>4 DEF NoCode, RowTypes
<1>7. Grow
  BY <1>2, <1>3, <1>6 DEF Grow, RowTypes
<1>8. SessionIsBacked'
  BY <1>2, <1>3, <1>6 DEF RowFacts, SessionIsBacked
<1>9. NoEarlyLockout'
  BY <1>2, <1>3, <1>6 DEF RowFacts, NoEarlyLockout, RowTypes
<1>10. RowFacts'
  BY <1>2, <1>3, <1>8, <1>9 DEF RowFacts, OneUserPerPhone, NewestIsOwn, CardsOf,
     OneRowPerToken, OneDriverPerPhone
<1> QED
  BY <1>2, <1>5, <1>7, <1>10, LastFrame

LEMMA FailAttemptKeeps ==
  ASSUME AccountInv, asked' = asked, NEW c \in Calls, FailAttempt(c)
  PROVE  AccountInv'
<1> DEFINE o == req[c].code
           n == req[c].n
<1>1. /\ At(c, "failAttempt") /\ Finish(c)
      /\ otps' = [otps EXCEPT ![o].attempts = n + 1]
      /\ guesses' = [guesses EXCEPT ![o] = @ + 1]
      /\ UNCHANGED <<users, sessions, cards, drivers, newest, now>>
  BY DEF FailAttempt, SetAttempts
<1>2. RowTypes /\ RowFacts /\ o \in Codes /\ n \in Nat /\ n <= guesses[o]
  BY <1>1, Split DEF CallOK, At, Verifying, Requests
<1> HIDE DEF o, n
<1>3. RowTypes'
  BY <1>1, <1>2 DEF RowTypes, CodeRows
<1>4. /\ \A x \in Codes : /\ otps'[x].phone = otps[x].phone
                          /\ otps'[x].consumed = otps[x].consumed
                          /\ x # o => otps'[x] = otps[x] /\ guesses'[x] = guesses[x]
      /\ otps'[o].attempts = n + 1 /\ guesses'[o] = guesses[o] + 1
  BY <1>1, <1>2 DEF RowTypes, CodeRows
<1>5. Grow
  <2>1. \A x \in Codes : guesses[x] <= guesses'[x]
    BY <1>2, <1>4 DEF RowTypes
  <2> QED
    BY <1>1, <1>4, <2>1 DEF Grow
<1>6. SessionIsBacked'
  BY <1>1, <1>2, <1>4 DEF RowFacts, SessionIsBacked
<1>7. NoEarlyLockout'
  <2> SUFFICES ASSUME NEW x \in Codes PROVE otps'[x].attempts <= guesses'[x]
    BY DEF NoEarlyLockout
  <2>1. CASE x = o
    BY <1>2, <1>4, <2>1 DEF RowTypes
  <2>2. CASE x # o
    BY <1>2, <1>4, <2>2 DEF RowFacts, NoEarlyLockout
  <2> QED
    BY <2>1, <2>2
<1>8. RowFacts'
  BY <1>1, <1>2, <1>6, <1>7 DEF RowFacts, OneUserPerPhone, NewestIsOwn, CardsOf,
     OneRowPerToken, OneDriverPerPhone
<1> QED
  BY <1>1, <1>3, <1>5, <1>8, LastFrame

LEMMA ConsumeCodeKeeps ==
  ASSUME AccountInv, asked' = asked, NEW c \in Calls, ConsumeCode(c)
  PROVE  AccountInv'
<1> DEFINE o == req[c].code
           v == [req[c] EXCEPT !.at = "findUser"]
<1>1. /\ At(c, "consume") /\ Go(c, v)
      /\ otps' = [otps EXCEPT ![o].consumed = TRUE]
      /\ UNCHANGED <<users, sessions, cards, drivers, guesses, newest, now>>
  BY DEF ConsumeCode, Consume
<1>2. /\ RowTypes /\ RowFacts /\ req[c] \in Requests
      /\ req[c].phone \in Phones /\ o \in Codes /\ otps[o].phone = req[c].phone
  BY <1>1, Split DEF CallOK, At, Verifying
<1>3. v \in Requests /\ v.at = "findUser" /\ v.code = o /\ v.phone = req[c].phone
  BY <1>2 DEF Requests, Positions
<1>4. RowTypes'
  BY <1>1, <1>2 DEF RowTypes, CodeRows
<1>5. /\ \A x \in Codes : /\ otps'[x].phone = otps[x].phone
                          /\ otps'[x].attempts = otps[x].attempts
                          /\ x # o => otps'[x] = otps[x]
      /\ otps'[o].consumed
  BY <1>1, <1>2 DEF RowTypes, CodeRows
<1>6. Grow
  BY <1>1, <1>2, <1>5 DEF Grow, RowTypes
<1>7. req'[c] = v => CallOK(c)'
  BY <1>2, <1>3, <1>5 DEF CallOK, At, Verifying
<1>8. SessionIsBacked'
  BY <1>1, <1>2, <1>5 DEF RowFacts, SessionIsBacked
<1>9. NoEarlyLockout'
  BY <1>1, <1>2, <1>5 DEF RowFacts, NoEarlyLockout
<1>10. RowFacts'
  BY <1>1, <1>2, <1>8, <1>9 DEF RowFacts, OneUserPerPhone, NewestIsOwn, CardsOf,
     OneRowPerToken, OneDriverPerPhone
<1> HIDE DEF v
<1> QED
  BY <1>1, <1>3, <1>4, <1>6, <1>7, <1>10, RowFrame

LEMMA VerifyCreateUserKeeps ==
  ASSUME AccountInv, asked' = asked, NEW c \in Calls, VerifyCreateUser(c)
  PROVE  AccountInv'
<1> DEFINE p == req[c].phone
<1>1. PICK u \in Users :
        CreateUser(p, u) /\ Go(c, [req[c] EXCEPT !.at = "issueSession", !.user = u])
  BY DEF VerifyCreateUser
<1> DEFINE v == [req[c] EXCEPT !.at = "issueSession", !.user = u]
<1>2. /\ At(c, "createUser") /\ Go(c, v)
      /\ UNCHANGED <<otps, sessions, cards, drivers, guesses, newest, now>>
  BY <1>1 DEF VerifyCreateUser
<1>3. /\ RowTypes /\ RowFacts /\ req[c] \in Requests
      /\ p \in Phones /\ req[c].code \in Codes /\ otps[req[c].code].phone = p
      /\ otps[req[c].code].consumed
      /\ Store = "memory" => UsersOf(p) = {}
  BY <1>2, Split DEF CallOK, At, Verifying
<1>4. v \in Requests /\ v.at = "issueSession" /\ v.user = u
      /\ v.code = req[c].code /\ v.phone = p
  BY <1>3 DEF Requests, Positions
<1> HIDE DEF v
<1>5. CASE users' = users /\ users[u] = p
  <2>1. RowTypes' /\ Grow
    BY <1>2, <1>3, <1>5 DEF RowTypes, Grow
  <2>2. req'[c] = v => CallOK(c)'
    BY <1>2, <1>3, <1>4, <1>5 DEF CallOK, At, Verifying
  <2>3. RowFacts'
    BY <1>2, <1>3, <1>5 DEF RowFacts, OneUserPerPhone, SessionIsBacked, NoEarlyLockout,
       NewestIsOwn, CardsOf, OneRowPerToken, OneDriverPerPhone
  <2> QED
    BY <1>2, <1>4, <2>1, <2>2, <2>3, RowFrame
<1>6. CASE UsersOf(p) = {} /\ users[u] = None /\ users' = [users EXCEPT ![u] = p]
  <2>1. users'[u] = p /\ \A w \in Users : w # u => users'[w] = users[w]
    BY <1>3, <1>6 DEF RowTypes
  <2>2. RowTypes'
    BY <1>2, <1>3, <1>6 DEF RowTypes
  <2>3. Grow
    BY <1>2, <1>3, <1>6, <2>1 DEF RowTypes, Grow
  <2>4. req'[c] = v => CallOK(c)'
    BY <1>2, <1>3, <1>4, <2>1 DEF CallOK, At, Verifying
  <2>5. \A w \in Users : users[w] # p
    BY <1>6 DEF UsersOf
  <2>6. OneUserPerPhone'
    BY <1>3, <2>1, <2>5 DEF RowFacts, OneUserPerPhone
  <2>7. SessionIsBacked'
    <3> SUFFICES ASSUME NEW s \in Sessions, sessions[s].user # None
                 PROVE  LET o == sessions[s].code IN
                        /\ o \in Codes
                        /\ otps[o].consumed
                        /\ otps[o].phone \in Phones
                        /\ users'[sessions[s].user] = otps[o].phone
      BY <1>2 DEF SessionIsBacked
    <3>1. /\ sessions[s].code \in Codes
          /\ otps[sessions[s].code].consumed
          /\ otps[sessions[s].code].phone \in Phones
          /\ users[sessions[s].user] = otps[sessions[s].code].phone
      BY <1>3 DEF RowFacts, SessionIsBacked
    <3>2. sessions[s].user \in Users
      BY <1>3 DEF RowTypes, SessionRows
    <3>3. sessions[s].user # u
      BY <1>6, <3>1, AuthNoneAssumption
    <3> QED
      BY <2>1, <3>1, <3>2, <3>3
  <2>8. RowFacts'
    BY <1>2, <1>3, <2>6, <2>7 DEF RowFacts, NoEarlyLockout,
       NewestIsOwn, CardsOf, OneRowPerToken, OneDriverPerPhone
  <2> QED
    BY <1>2, <1>4, <2>2, <2>3, <2>4, <2>8, RowFrame
<1> QED
  BY <1>1, <1>3, <1>5, <1>6, AuthStoreAssumption DEF CreateUser, UsersOf

\* Both inserts of a session, after a login and in a refresh.
LEMMA SessionFacts ==
  ASSUME RowTypes, RowFacts, NEW t \in Sessions, sessions[t] = NoSession,
         sessions' \in [Sessions -> SessionRows],
         \A s \in Sessions \ {t} :
           sessions'[s].user = sessions[s].user /\ sessions'[s].code = sessions[s].code,
         sessions'[t].code \in Codes,
         otps[sessions'[t].code].consumed,
         otps[sessions'[t].code].phone \in Phones,
         users[sessions'[t].user] = otps[sessions'[t].code].phone,
         sessions'[t].user # None,
         UNCHANGED <<users, otps, cards, drivers, guesses, newest>>
  PROVE  RowTypes' /\ RowFacts' /\ Grow
<1>1. RowTypes'
  BY DEF RowTypes
<1>2. Grow
  BY DEF RowTypes, Grow
<1>3. SessionIsBacked'
  BY DEF RowFacts, SessionIsBacked
<1>4. RowFacts'
  BY <1>3 DEF RowFacts, OneUserPerPhone, NoEarlyLockout,
     NewestIsOwn, CardsOf, OneRowPerToken, OneDriverPerPhone
<1> QED
  BY <1>1, <1>2, <1>4

LEMMA IssueSessionKeeps ==
  ASSUME AccountInv, asked' = asked, NEW c \in Calls, IssueSession(c)
  PROVE  AccountInv'
<1> DEFINE row == [user |-> req[c].user, expires |-> now + RefreshTtl,
                   revoked |-> FALSE, code |-> req[c].code, from |-> None]
<1>1. PICK t \in Sessions : InsertSession(t, row)
  BY DEF IssueSession
<1>2. /\ At(c, "issueSession") /\ Finish(c)
      /\ UNCHANGED <<users, otps, cards, drivers, guesses, newest, now>>
  BY DEF IssueSession
<1>3. /\ RowTypes /\ RowFacts /\ now \in Nat
      /\ req[c].phone \in Phones /\ req[c].code \in Codes
      /\ otps[req[c].code].phone = req[c].phone /\ otps[req[c].code].consumed
      /\ req[c].user \in Users /\ users[req[c].user] = req[c].phone
  BY <1>2, Split DEF CallOK, At, Verifying
<1>4. /\ row \in SessionRows /\ row.user = req[c].user /\ row.code = req[c].code
      /\ row.user # None
  BY <1>3, AuthNoneAssumption, AuthEnvAssumption DEF SessionRows
<1> HIDE DEF row
<1>5. sessions[t] = NoSession /\ sessions' = [sessions EXCEPT ![t] = row]
  BY <1>1 DEF InsertSession
<1>6. /\ sessions' \in [Sessions -> SessionRows] /\ sessions'[t] = row
      /\ \A s \in Sessions \ {t} : sessions'[s] = sessions[s]
  BY <1>3, <1>4, <1>5 DEF RowTypes
<1>7. RowTypes' /\ RowFacts' /\ Grow
  BY <1>2, <1>3, <1>4, <1>5, <1>6, SessionFacts
<1> QED
  BY <1>2, <1>7, LastFrame

LEMMA RefreshRotateKeeps ==
  ASSUME AccountInv, asked' = asked, NEW c \in Calls, RefreshRotate(c)
  PROVE  AccountInv'
<1> DEFINE s == req[c].session
           row == [user |-> sessions[s].user, revoked |-> FALSE,
                   expires |-> req[c].n + RefreshTtl,
                   code |-> sessions[s].code, from |-> s]
<1>1. PICK t \in Sessions : RotateSession(s, t, row)
  BY DEF RefreshRotate
<1>2. /\ At(c, "rotate") /\ Finish(c)
      /\ UNCHANGED <<users, otps, cards, drivers, guesses, newest, now>>
  BY DEF RefreshRotate
<1>3. /\ RowTypes /\ RowFacts /\ req[c].n \in Nat
      /\ s \in Sessions /\ sessions[s].user # None
  BY <1>2, Split DEF CallOK, At, Requests
<1>4. /\ sessions[s].user \in Users /\ sessions[s].code \in Codes
      /\ otps[sessions[s].code].consumed
      /\ otps[sessions[s].code].phone \in Phones
      /\ users[sessions[s].user] = otps[sessions[s].code].phone
  BY <1>3 DEF RowTypes, SessionRows, RowFacts, SessionIsBacked
<1>5. /\ row \in SessionRows /\ row.user = sessions[s].user
      /\ row.code = sessions[s].code
  BY <1>3, <1>4, AuthEnvAssumption DEF SessionRows
<1> HIDE DEF row, s
<1>6. /\ sessions[t] = NoSession
      /\ sessions' = [sessions EXCEPT ![s].revoked = TRUE, ![t] = row]
  BY <1>1 DEF RotateSession
<1>7. /\ sessions' \in [Sessions -> SessionRows] /\ sessions'[t] = row
      /\ \A x \in Sessions \ {t} : /\ sessions'[x].user = sessions[x].user
                                   /\ sessions'[x].code = sessions[x].code
  BY <1>3, <1>5, <1>6 DEF RowTypes, SessionRows
<1>8. RowTypes' /\ RowFacts' /\ Grow
  BY <1>2, <1>3, <1>4, <1>5, <1>6, <1>7, SessionFacts
<1> QED
  BY <1>2, <1>8, LastFrame

LEMMA LogoutRevokeKeeps ==
  ASSUME AccountInv, asked' = asked, NEW c \in Calls, LogoutRevoke(c)
  PROVE  AccountInv'
<1>1. /\ At(c, "revoke") /\ Finish(c)
      /\ sessions' = [sessions EXCEPT ![req[c].session].revoked = TRUE]
      /\ UNCHANGED <<users, otps, cards, drivers, guesses, newest, now>>
  BY DEF LogoutRevoke, RevokeSession
<1>2. RowTypes /\ RowFacts
  BY Split
<1>3. /\ sessions' \in [Sessions -> SessionRows]
      /\ \A x \in Sessions : /\ sessions'[x].user = sessions[x].user
                             /\ sessions'[x].code = sessions[x].code
  BY <1>1, <1>2 DEF RowTypes, SessionRows
<1>4. RowTypes' /\ Grow
  BY <1>1, <1>2, <1>3 DEF RowTypes, Grow
<1>5. SessionIsBacked'
  BY <1>1, <1>2, <1>3 DEF RowFacts, SessionIsBacked
<1>6. RowFacts'
  BY <1>1, <1>2, <1>5 DEF RowFacts, OneUserPerPhone, NoEarlyLockout,
     NewestIsOwn, CardsOf, OneRowPerToken, OneDriverPerPhone
<1> QED
  BY <1>1, <1>4, <1>6, LastFrame

\* A save clears flags of its own rider's cards only, so the card another rider
\* saved last keeps its own.
LEMMA SaveCardInsertKeeps ==
  ASSUME AccountInv, asked' = asked, NEW c \in Calls, SaveCardInsert(c)
  PROVE  AccountInv'
<1> DEFINE u == req[c].user
           t == req[c].token
           seen == req[c].seen
           again == SavedAs(u, t)
           row == [user |-> u, token |-> t, isDefault |-> TRUE]
<1>1. PICK k \in IF again = {} THEN {x \in Cards : cards[x] = NoCard} ELSE again :
        StoreDefault(seen, k, u, t) /\ newest' = [newest EXCEPT ![u] = k]
  BY DEF SaveCardInsert
<1>2. /\ At(c, "saveCard") /\ Finish(c)
      /\ UNCHANGED <<users, otps, sessions, drivers, guesses, now>>
  BY DEF SaveCardInsert
<1>3. /\ RowTypes /\ RowFacts
      /\ u \in Users /\ t \in Tokens /\ seen \subseteq CardsOf(u)
  BY <1>2, Split DEF CallOK, At
<1>4. /\ k \in Cards
      /\ \/ again = {} /\ cards[k].user = None
         \/ Store = "postgres" /\ cards[k].user = u /\ cards[k].token = t
  BY <1>1 DEF SavedAs, CardsOf, NoCard
<1>5. Store = "postgres" /\ again = {} =>
        \A x \in Cards : ~(cards[x].user = u /\ cards[x].token = t)
  BY DEF SavedAs, CardsOf
<1> HIDE DEF u, t, seen, again
<1>6. /\ cards' \in [Cards -> CardRows]
      /\ cards'[k].user = u /\ cards'[k].token = t /\ cards'[k].isDefault
      /\ \A x \in Cards : x # k =>
           /\ cards'[x].user = cards[x].user /\ cards'[x].token = cards[x].token
           /\ x \notin seen => cards'[x].isDefault = cards[x].isDefault
  <2>1. cards' = [x \in Cards |->
                    IF x = k THEN row
                    ELSE IF x \in seen THEN [cards[x] EXCEPT !.isDefault = FALSE]
                    ELSE cards[x]]
    BY <1>1 DEF StoreDefault
  <2> QED
    BY <1>3, <1>4, <2>1 DEF RowTypes, CardRows
<1>7. newest' \in [Users -> Cards \cup {None}] /\ newest'[u] = k
      /\ \A w \in Users : w # u => newest'[w] = newest[w]
  BY <1>1, <1>3, <1>4 DEF RowTypes
<1>8. RowTypes'
  BY <1>2, <1>3, <1>6, <1>7 DEF RowTypes
<1>9. Grow
  <2>1. \A x \in Cards : cards[x].user # None => cards'[x].user = cards[x].user
    BY <1>4, <1>6
  <2> QED
    BY <1>2, <1>3, <2>1 DEF Grow, RowTypes
<1>10. NewestIsOwn'
  <2> SUFFICES ASSUME NEW w \in Users, newest'[w] # None
               PROVE  /\ newest'[w] \in Cards /\ cards'[newest'[w]].user = w
                      /\ cards'[newest'[w]].isDefault
    BY DEF NewestIsOwn, CardsOf
  <2>1. CASE w = u
    BY <1>4, <1>6, <1>7, <2>1
  <2>2. CASE w # u
    <3>1. /\ newest'[w] = newest[w] /\ newest[w] \in Cards
          /\ cards[newest[w]].user = w /\ cards[newest[w]].isDefault
      BY <1>3, <1>7, <2>2 DEF RowFacts, NewestIsOwn, CardsOf
    <3>2. newest[w] # k
      BY <1>4, <2>2, <3>1, AuthNoneAssumption
    <3>3. newest[w] \notin seen
      BY <1>3, <2>2, <3>1 DEF CardsOf
    <3> QED
      BY <1>6, <3>1, <3>2, <3>3
  <2> QED
    BY <2>1, <2>2
<1>11. ASSUME Store = "postgres" PROVE OneRowPerToken'
  <2> SUFFICES ASSUME NEW x \in Cards, NEW y \in Cards, cards'[x].user # None,
                      cards'[x].user = cards'[y].user, cards'[x].token = cards'[y].token
               PROVE  x = y
    BY DEF OneRowPerToken
  <2>1. OneRowPerToken
    BY <1>3, <1>11 DEF RowFacts
  <2>2. CASE x # k /\ y # k
    BY <1>6, <2>1, <2>2 DEF OneRowPerToken
  <2>3. ASSUME NEW z \in Cards, z # k, cards'[z].user = u, cards'[z].token = t
        PROVE  FALSE
    <3>1. cards[z].user = u /\ cards[z].token = t
      BY <1>6, <2>3
    <3>2. cards[k].user = u /\ cards[k].token = t
      BY <1>4, <1>5, <1>11, <3>1, <2>3
    <3>3. u # None
      BY <1>3, AuthNoneAssumption
    <3> QED
      BY <1>4, <2>1, <2>3, <3>1, <3>2, <3>3 DEF OneRowPerToken
  <2> QED
    BY <1>6, <2>2, <2>3
<1>12. RowFacts'
  BY <1>2, <1>3, <1>10, <1>11 DEF RowFacts, OneUserPerPhone, SessionIsBacked,
     NoEarlyLockout, OneDriverPerPhone
<1> QED
  BY <1>2, <1>8, <1>9, <1>12, LastFrame

LEMMA UpsertDriverKeeps ==
  ASSUME AccountInv, asked' = asked, NEW c \in Calls, UpsertDriver(c)
  PROVE  AccountInv'
<1> DEFINE p == req[c].phone
<1>1. /\ At(c, "insertDriver") /\ Finish(c)
      /\ UNCHANGED <<users, otps, sessions, cards, guesses, newest, now>>
  BY DEF UpsertDriver
<1>2. RowTypes /\ RowFacts /\ p \in Phones /\ req[c].plan \in BOOLEAN
  BY <1>1, Split DEF CallOK, At, Requests
<1>3. CASE UNCHANGED drivers
  <2>1. RowTypes' /\ Grow
    BY <1>1, <1>2, <1>3 DEF RowTypes, Grow
  <2>2. RowFacts'
    BY <1>1, <1>2, <1>3 DEF RowFacts, OneUserPerPhone, SessionIsBacked, NoEarlyLockout,
       NewestIsOwn, CardsOf, OneRowPerToken, OneDriverPerPhone
  <2> QED
    BY <1>1, <2>1, <2>2, LastFrame
<1>4. ASSUME DriversOf(p) = {}, NEW d \in DriverIds, InsertDriver(d, p, req[c].plan)
      PROVE  AccountInv'
  <2>1. drivers' = [drivers EXCEPT ![d] = [phone |-> p, plan |-> req[c].plan]]
    BY <1>4 DEF InsertDriver
  <2>2. RowTypes' /\ Grow
    BY <1>1, <1>2, <2>1 DEF RowTypes, Grow, DriverRows
  <2>3. \A e \in DriverIds : drivers[e].phone # p
    BY <1>4 DEF DriversOf
  <2>4. drivers'[d].phone = p
        /\ \A e \in DriverIds : e # d => drivers'[e] = drivers[e]
    BY <1>2, <2>1 DEF RowTypes
  <2>5. OneDriverPerPhone'
    BY <1>2, <2>3, <2>4 DEF RowFacts, OneDriverPerPhone
  <2>6. RowFacts'
    BY <1>1, <1>2, <2>5 DEF RowFacts, OneUserPerPhone, SessionIsBacked, NoEarlyLockout,
       NewestIsOwn, CardsOf, OneRowPerToken
  <2> QED
    BY <1>1, <2>2, <2>6, LastFrame
<1> QED
  BY <1>3, <1>4 DEF UpsertDriver

LEMMA TickKeeps ==
  ASSUME AccountInv, asked' = asked, Tick
  PROVE  AccountInv'
<1>1. now' \in Nat /\ UNCHANGED <<rows, req, asked>>
  BY Split DEF Tick
<1> QED
  BY <1>1, Split DEF rows, AccountInv, TypeOK, CallOK, At, UsersOf, CardsOf,
     OneUserPerPhone, SessionIsBacked, NoEarlyLockout, NewestIsOwn, OneRowPerToken,
     OneDriverPerPhone

LEMMA StepKeeps == AccountInv /\ [Next]_vars => AccountInv'
<1> SUFFICES ASSUME AccountInv, [Next]_vars PROVE AccountInv'
  OBVIOUS
<1>1. CASE UNCHANGED vars
  BY <1>1 DEF vars, accountVars, rows, AccountInv, TypeOK, CallOK, At, UsersOf, CardsOf,
     OneUserPerPhone, SessionIsBacked, NoEarlyLockout, NewestIsOwn, OneRowPerToken,
     OneDriverPerPhone
<1> SUFFICES ASSUME Next PROVE AccountInv'
  BY <1>1
<1>2. asked' = asked
  BY DEF Next
<1>3. ASSUME NEW c \in Calls, Arrive(c) PROVE AccountInv'
  BY <1>2, <1>3, RequestOtpKeeps, VerifyOtpKeeps, RefreshKeeps, LogoutKeeps,
     SaveCardKeeps, RegisterDriverKeeps DEF Arrive
<1>4. ASSUME NEW c \in Calls, Step(c) PROVE AccountInv'
  <2>1. CASE AuthStep(c)
    BY <1>2, <2>1, RequestOtpInsertKeeps, FailAttemptKeeps, ConsumeCodeKeeps,
       FindUserKeeps, VerifyCreateUserKeeps, IssueSessionKeeps, RefreshRotateKeeps,
       LogoutRevokeKeeps DEF AuthStep
  <2>2. CASE CardStep(c)
    BY <1>2, <2>2, LockCardsKeeps, SaveCardInsertKeeps DEF CardStep
  <2>3. CASE UpsertDriver(c)
    BY <1>2, <2>3, UpsertDriverKeeps
  <2> QED
    BY <1>4, <2>1, <2>2, <2>3 DEF Step
<1> QED
  BY <1>2, <1>3, <1>4, AbortKeeps, TickKeeps DEF Next

-----------------------------------------------------------------------------
\* Whatever logins, saves and registrations overlap and wherever handlers die,
\* the rows of accounts stay consistent.
THEOREM Invariance == Spec => []AccountInv
<1> QED
  BY InitInv, StepKeeps, PTL DEF Spec

\* Two first logins of one phone that race find or make the same user: in
\* PostgreSQL the insert does nothing on a phone that has a row.
THEOREM PhoneIsOneUser == Spec => []OneUserPerPhone
<1>1. AccountInv => OneUserPerPhone
  BY DEF AccountInv
<1> QED
  BY <1>1, Invariance, PTL

\* A session is never of anyone but the owner of the phone its code was sent to.
THEOREM SessionBacked == Spec => []SessionIsBacked
<1>1. AccountInv => SessionIsBacked
  BY DEF AccountInv
<1> QED
  BY <1>1, Invariance, PTL

\* Lost updates of the attempts of a code only let more guesses through: nobody
\* is locked out by fewer than MaxAttempts of them.
THEOREM LockoutIsEarned == Spec => []NoEarlyLockout
<1>1. AccountInv => NoEarlyLockout
  BY DEF AccountInv
<1> QED
  BY <1>1, Invariance, PTL

\* Saves that race never leave a rider without a default card, and the card
\* saved last is among the defaults.
THEOREM LastCardIsDefault == Spec => []NewestIsDefault
<1>1. AccountInv => NewestIsDefault
  BY DEF AccountInv, NewestIsOwn, NewestIsDefault
<1> QED
  BY <1>1, Invariance, PTL

\* In PostgreSQL the unique key keeps a card one row.
THEOREM CardIsOneRow == Spec => [](Store = "postgres" => OneRowPerToken)
<1>1. AccountInv => (Store = "postgres" => OneRowPerToken)
  BY DEF AccountInv
<1> QED
  BY <1>1, Invariance, PTL

\* Two registrations of one phone that race leave one driver.
THEOREM PhoneIsOneDriver == Spec => []OneDriverPerPhone
<1>1. AccountInv => OneDriverPerPhone
  BY DEF AccountInv
<1> QED
  BY <1>1, Invariance, PTL

-----------------------------------------------------------------------------
(***************************************************************************)
(* One request at a time: what a handler read still holds when it writes.  *)
(***************************************************************************)

SerialFacts ==
  /\ \A c \in Calls : SerialOK(c)
  /\ \A s \in Sessions : Whole(s)
  /\ GuessesBounded

LEMMA SerialInit == Init => SerialFacts
<1> SUFFICES ASSUME Init PROVE SerialFacts
  OBVIOUS
<1> USE DEF Init, RowsInit
<1>1. \A c \in Calls : SerialOK(c)
  BY DEF SerialOK, Idle, At
<1>2. \A s \in Sessions : Whole(s)
  BY DEF Whole, NoSession
<1>3. GuessesBounded
  BY AuthEnvAssumption DEF GuessesBounded, NoCode
<1> QED
  BY <1>1, <1>2, <1>3 DEF SerialFacts

\* Nothing of the codes or the sessions changes.
LEMMA SerialFrame ==
  ASSUME Serial, AccountInv, SerialFacts, NEW c \in Calls, NEW v, Go(c, v),
         UNCHANGED <<otps, sessions, guesses>>, req'[c] = v => SerialOK(c)'
  PROVE  SerialFacts'
<1>1. \A b \in Calls : SerialOK(b)'
  BY Split DEF Go, Serial
<1>2. \A s \in Sessions : Whole(s)'
  BY DEF SerialFacts, Whole
<1>3. GuessesBounded'
  BY DEF SerialFacts, GuessesBounded
<1> QED
  BY <1>1, <1>2, <1>3 DEF SerialFacts

\* A call that ends, or goes where nothing is relied on.
LEMMA SerialIdle ==
  ASSUME Serial, AccountInv, SerialFacts, NEW c \in Calls, NEW v, Go(c, v),
         UNCHANGED <<otps, sessions, guesses>>,
         v.at \in {"idle", "insertOtp", "lockCards", "saveCard", "insertDriver"}
  PROVE  SerialFacts'
<1>1. req'[c] = v => SerialOK(c)'
  BY DEF SerialOK, At
<1> QED
  BY <1>1, SerialFrame

LEMMA SerialArrive ==
  ASSUME Serial, AccountInv, SerialFacts, NEW c \in Calls, Arrive(c)
  PROVE  SerialFacts'
<1> USE DEF Idle
<1>1. ASSUME NEW p \in Phones, RequestOtp(c, p) PROVE SerialFacts'
  <2> DEFINE v == [Idle EXCEPT !.at = "insertOtp", !.phone = p, !.n = now]
  <2>1. Go(c, v) /\ UNCHANGED <<otps, sessions, guesses>> /\ v.at = "insertOtp"
    BY <1>1 DEF RequestOtp, rows
  <2> HIDE DEF v
  <2> QED
    BY <2>1, SerialIdle
<1>2. ASSUME NEW p \in Phones, NEW right \in BOOLEAN, VerifyOtp(c, p, right)
      PROVE  SerialFacts'
  <2>1. PICK o \in ActiveOtp(p) :
          /\ MayTry(o)
          /\ Go(c, [Idle EXCEPT !.at = IF right THEN "consume" ELSE "failAttempt",
                                !.phone = p, !.code = o, !.n = otps[o].attempts])
    BY <1>2 DEF VerifyOtp
  <2> DEFINE v == [Idle EXCEPT !.at = IF right THEN "consume" ELSE "failAttempt",
                               !.phone = p, !.code = o, !.n = otps[o].attempts]
  <2>2. UNCHANGED <<otps, sessions, guesses>>
    BY <1>2 DEF VerifyOtp, rows
  <2>3. ~otps[o].consumed /\ otps[o].attempts < MaxAttempts
    BY <2>1 DEF ActiveOtp, Unconsumed, MayTry
  <2>4. /\ v.at \in {"consume", "failAttempt"}
        /\ v.code = o /\ v.n = otps[o].attempts
    OBVIOUS
  <2> HIDE DEF v
  <2>5. req'[c] = v => SerialOK(c)'
    BY <2>2, <2>3, <2>4 DEF SerialOK, At
  <2>6. Go(c, v)
    BY <2>1 DEF v
  <2> QED
    BY <2>2, <2>5, <2>6, SerialFrame
<1>3. ASSUME NEW s \in Sessions, Refresh(c, s) PROVE SerialFacts'
  <2> DEFINE v == [Idle EXCEPT !.at = "rotate", !.session = s, !.n = now]
  <2>1. Go(c, v) /\ UNCHANGED <<otps, sessions, guesses>> /\ LiveSession(s)
    BY <1>3 DEF Refresh, rows
  <2>2. v.at = "rotate" /\ v.session = s
    OBVIOUS
  <2> HIDE DEF v
  <2>3. req'[c] = v => SerialOK(c)'
    BY <2>1, <2>2 DEF SerialOK, At, LiveSession
  <2> QED
    BY <2>1, <2>3, SerialFrame
<1>4. ASSUME NEW s \in Sessions, Logout(c, s) PROVE SerialFacts'
  <2> DEFINE v == [Idle EXCEPT !.at = "revoke", !.session = s]
  <2>1. Go(c, v) /\ UNCHANGED <<otps, sessions, guesses>> /\ LiveSession(s)
    BY <1>4 DEF Logout, rows
  <2>2. v.at = "revoke" /\ v.session = s
    OBVIOUS
  <2> HIDE DEF v
  <2>3. req'[c] = v => SerialOK(c)'
    BY <2>1, <2>2 DEF SerialOK, At, LiveSession
  <2> QED
    BY <2>1, <2>3, SerialFrame
<1>5. ASSUME NEW u \in Users, NEW t \in Tokens, SaveCard(c, u, t) PROVE SerialFacts'
  <2> DEFINE v == [Idle EXCEPT
                     !.at = IF Store = "postgres" THEN "lockCards" ELSE "saveCard",
                     !.user = u, !.token = t, !.seen = CardsOf(u)]
  <2>1. Go(c, v) /\ UNCHANGED <<otps, sessions, guesses>>
    BY <1>5 DEF SaveCard, rows
  <2>2. v.at \in {"lockCards", "saveCard"}
    OBVIOUS
  <2> HIDE DEF v
  <2> QED
    BY <2>1, <2>2, SerialIdle
<1>6. ASSUME NEW p \in Phones, NEW plan \in BOOLEAN, RegisterDriver(c, p, plan)
      PROVE  SerialFacts'
  <2> DEFINE v == [Idle EXCEPT !.at = "insertDriver", !.phone = p, !.plan = plan]
  <2>1. Go(c, v) /\ UNCHANGED <<otps, sessions, guesses>> /\ v.at = "insertDriver"
    BY <1>6 DEF RegisterDriver, rows
  <2> HIDE DEF v
  <2> QED
    BY <2>1, SerialIdle
<1> HIDE DEF Idle
<1> QED
  BY <1>1, <1>2, <1>3, <1>4, <1>5, <1>6 DEF Arrive

\* A verification that goes on with a code no session goes back to.
LEMMA SerialVerifying ==
  ASSUME Serial, AccountInv, SerialFacts, NEW c \in Calls, NEW v, Go(c, v),
         UNCHANGED <<otps, sessions, guesses>>,
         req[c].at \in {"findUser", "createUser", "issueSession"},
         v.at \in {"createUser", "issueSession"}, v.code = req[c].code
  PROVE  SerialFacts'
<1>1. \A s \in Sessions : sessions[s].code # req[c].code
  BY DEF SerialFacts, SerialOK
<1>2. req'[c] = v => SerialOK(c)'
  BY <1>1 DEF SerialOK, At
<1> QED
  BY <1>2, SerialFrame

\* A call that ends, having left every code with its guesses and the new
\* session whole.
LEMMA SerialLast ==
  ASSUME Serial, AccountInv, NEW c \in Calls, Finish(c),
         GuessesBounded', \A s \in Sessions : Whole(s)'
  PROVE  SerialFacts'
<1>1. req'[c] = Idle
  BY Split DEF Finish, Go
<1>2. \A b \in Calls : SerialOK(b)'
  BY <1>1 DEF Serial, SerialOK, At, Idle
<1> QED
  BY <1>2 DEF SerialFacts

LEMMA SerialAuthStep ==
  ASSUME Serial, AccountInv, SerialFacts, NEW c \in Calls, AuthStep(c)
  PROVE  SerialFacts'
<1>1. RowTypes /\ RowFacts /\ req[c] \in Requests /\ CallOK(c) /\ SerialOK(c)
  BY Split DEF SerialFacts
<1>2. CASE RequestOtpInsert(c)
  <2>1. PICK o \in Codes : InsertOtp(o, req[c].phone, req[c].n)
    BY <1>2 DEF RequestOtpInsert
  <2>2. Finish(c) /\ UNCHANGED <<sessions, guesses>>
    BY <1>2 DEF RequestOtpInsert
  <2>3. otps[o].attempts = otps'[o].attempts
        /\ \A x \in Codes : x # o => otps'[x] = otps[x]
    BY <1>1, <2>1 DEF InsertOtp, NoCode, RowTypes
  <2>4. GuessesBounded'
    BY <2>2, <2>3 DEF SerialFacts, GuessesBounded
  <2> QED
    BY <2>2, <2>4, SerialLast DEF SerialFacts, Whole
<1>3. CASE FailAttempt(c)
  <2> DEFINE o == req[c].code
             n == req[c].n
  <2>1. /\ At(c, "failAttempt") /\ Finish(c)
        /\ otps' = [otps EXCEPT ![o].attempts = n + 1]
        /\ guesses' = [guesses EXCEPT ![o] = @ + 1]
        /\ UNCHANGED sessions
    BY <1>3 DEF FailAttempt, SetAttempts
  <2>2. /\ o \in Codes /\ n \in Nat /\ n = otps[o].attempts /\ n < MaxAttempts
        /\ n = guesses[o]
    BY <1>1, <2>1 DEF CallOK, At, Verifying, SerialOK, SerialFacts, GuessesBounded, Requests
  <2> HIDE DEF o, n
  <2>3. /\ otps'[o].attempts = n + 1 /\ guesses'[o] = n + 1
        /\ \A x \in Codes : x # o => otps'[x] = otps[x] /\ guesses'[x] = guesses[x]
    BY <1>1, <2>1, <2>2 DEF RowTypes, CodeRows
  <2>4. GuessesBounded'
    BY <2>2, <2>3, AuthEnvAssumption DEF SerialFacts, GuessesBounded
  <2> QED
    BY <2>1, <2>4, SerialLast DEF SerialFacts, Whole
<1>4. CASE ConsumeCode(c)
  <2> DEFINE o == req[c].code
             v == [req[c] EXCEPT !.at = "findUser"]
  <2>1. /\ At(c, "consume") /\ Go(c, v)
        /\ otps' = [otps EXCEPT ![o].consumed = TRUE]
        /\ UNCHANGED <<sessions, guesses>>
    BY <1>4 DEF ConsumeCode, Consume
  <2>2. o \in Codes /\ ~otps[o].consumed
    BY <1>1, <2>1 DEF CallOK, At, Verifying, SerialOK
  <2>3. \A s \in Sessions : sessions[s].code # o
    BY <1>1, <2>2, AuthNoneAssumption DEF RowFacts, SessionIsBacked, SerialFacts, Whole
  <2>4. v.at = "findUser" /\ v.code = o
    BY <1>1 DEF Requests
  <2> HIDE DEF v
  <2>5. req'[c] = v /\ \A b \in Calls : b = c
    BY <2>1, Split DEF Go, Serial
  <2>6. \A b \in Calls : SerialOK(b)'
    BY <2>1, <2>3, <2>4, <2>5 DEF SerialOK, At
  <2>7. GuessesBounded'
    BY <1>1, <2>1 DEF SerialFacts, GuessesBounded, RowTypes, CodeRows
  <2> QED
    BY <2>1, <2>6, <2>7 DEF SerialFacts, Whole
<1>5. CASE FindUser(c)
  <2>1. At(c, "findUser") /\ UNCHANGED <<otps, sessions, guesses>>
    BY <1>5 DEF FindUser, rows
  <2>2. ASSUME Go(c, [req[c] EXCEPT !.at = "createUser"]) PROVE SerialFacts'
    <3> DEFINE v == [req[c] EXCEPT !.at = "createUser"]
    <3>1. v.at = "createUser" /\ v.code = req[c].code
      BY <1>1 DEF Requests
    <3> HIDE DEF v
    <3>2. Go(c, v)
      BY <2>2 DEF v
    <3> QED
      BY <2>1, <3>1, <3>2, SerialVerifying DEF At
  <2>3. ASSUME NEW u \in Users,
               Go(c, [req[c] EXCEPT !.at = "issueSession", !.user = u])
        PROVE  SerialFacts'
    <3> DEFINE v == [req[c] EXCEPT !.at = "issueSession", !.user = u]
    <3>1. v.at = "issueSession" /\ v.code = req[c].code
      BY <1>1 DEF Requests
    <3> HIDE DEF v
    <3>2. Go(c, v)
      BY <2>3 DEF v
    <3> QED
      BY <2>1, <3>1, <3>2, SerialVerifying DEF At
  <2> QED
    BY <1>5, <2>2, <2>3 DEF FindUser, UsersOf
<1>6. CASE VerifyCreateUser(c)
  <2>1. PICK u \in Users : Go(c, [req[c] EXCEPT !.at = "issueSession", !.user = u])
    BY <1>6 DEF VerifyCreateUser
  <2> DEFINE v == [req[c] EXCEPT !.at = "issueSession", !.user = u]
  <2>2. At(c, "createUser") /\ UNCHANGED <<otps, sessions, guesses>>
    BY <1>6 DEF VerifyCreateUser
  <2>3. v.at = "issueSession" /\ v.code = req[c].code
    BY <1>1 DEF Requests
  <2> HIDE DEF v
  <2>4. Go(c, v)
    BY <2>1 DEF v
  <2> QED
    BY <2>2, <2>3, <2>4, SerialVerifying DEF At
<1>7. CASE IssueSession(c)
  <2> DEFINE row == [user |-> req[c].user, expires |-> now + RefreshTtl,
                     revoked |-> FALSE, code |-> req[c].code, from |-> None]
  <2>1. PICK t \in Sessions : InsertSession(t, row)
    BY <1>7 DEF IssueSession
  <2>2. /\ At(c, "issueSession") /\ Finish(c) /\ UNCHANGED <<otps, guesses>>
    BY <1>7 DEF IssueSession
  <2>3. row.user # None
    BY <1>1, <2>2, AuthNoneAssumption DEF CallOK, At
  <2> HIDE DEF row
  <2>4. \A s \in Sessions : Whole(s)'
    BY <1>1, <2>1, <2>3 DEF InsertSession, SerialFacts, Whole, RowTypes
  <2>5. GuessesBounded'
    BY <2>2 DEF SerialFacts, GuessesBounded
  <2> QED
    BY <2>2, <2>4, <2>5, SerialLast
<1>8. CASE RefreshRotate(c)
  <2> DEFINE s == req[c].session
             row == [user |-> sessions[s].user, revoked |-> FALSE,
                     expires |-> req[c].n + RefreshTtl,
                     code |-> sessions[s].code, from |-> s]
  <2>1. PICK t \in Sessions : RotateSession(s, t, row)
    BY <1>8 DEF RefreshRotate
  <2>2. /\ At(c, "rotate") /\ Finish(c) /\ UNCHANGED <<otps, guesses>>
    BY <1>8 DEF RefreshRotate
  <2>3. row.user # None
    BY <1>1, <2>2 DEF CallOK, At
  <2> HIDE DEF row, s
  <2>4. \A x \in Sessions : Whole(x)'
    BY <1>1, <2>1, <2>3 DEF RotateSession, SerialFacts, Whole, RowTypes, SessionRows
  <2>5. GuessesBounded'
    BY <2>2 DEF SerialFacts, GuessesBounded
  <2> QED
    BY <2>2, <2>4, <2>5, SerialLast
<1>9. CASE LogoutRevoke(c)
  <2>1. /\ Finish(c) /\ UNCHANGED <<otps, guesses>>
        /\ sessions' = [sessions EXCEPT ![req[c].session].revoked = TRUE]
    BY <1>9 DEF LogoutRevoke, RevokeSession
  <2>2. \A s \in Sessions : Whole(s)'
    BY <1>1, <2>1 DEF SerialFacts, Whole, RowTypes, SessionRows
  <2>3. GuessesBounded'
    BY <2>1 DEF SerialFacts, GuessesBounded
  <2> QED
    BY <2>1, <2>2, <2>3, SerialLast
<1> QED
  BY <1>2, <1>3, <1>4, <1>5, <1>6, <1>7, <1>8, <1>9 DEF AuthStep

LEMMA SerialStep ==
  ASSUME Serial
  PROVE  AccountInv /\ SerialFacts /\ [Next]_vars => SerialFacts'
<1> SUFFICES ASSUME AccountInv, SerialFacts, [Next]_vars PROVE SerialFacts'
  OBVIOUS
<1>1. CASE UNCHANGED req /\ UNCHANGED <<otps, sessions, guesses>>
  BY <1>1 DEF SerialFacts, SerialOK, At, LiveSession, Whole, GuessesBounded
<1>2. CASE UNCHANGED vars \/ Tick
  BY <1>1, <1>2 DEF vars, accountVars, rows, Tick
<1>3. Idle.at = "idle"
  BY DEF Idle
<1>4. ASSUME NEW c \in Calls, Step(c) \/ Abort(c) PROVE SerialFacts'
  <2>1. CASE Abort(c)
    BY <1>3, <2>1, SerialIdle DEF Abort, Finish, rows
  <2>2. CASE LockCards(c)
    <3> DEFINE v == [req[c] EXCEPT !.at = "saveCard"]
    <3>1. Go(c, v) /\ UNCHANGED <<otps, sessions, guesses>>
      BY <2>2 DEF LockCards, rows
    <3>2. v.at = "saveCard"
      BY Split DEF Requests
    <3> HIDE DEF v
    <3> QED
      BY <3>1, <3>2, SerialIdle
  <2>3. CASE SaveCardInsert(c) \/ UpsertDriver(c)
    <3>1. Go(c, Idle) /\ UNCHANGED <<otps, sessions, guesses>>
      BY <2>3 DEF SaveCardInsert, UpsertDriver, Finish
    <3> QED
      BY <1>3, <3>1, SerialIdle
  <2> QED
    BY <1>4, <2>1, <2>2, <2>3, SerialAuthStep DEF Step, CardStep
<1> QED
  BY <1>2, <1>4, SerialArrive DEF Next

\* One request at a time, nothing a handler read changes before it writes: the
\* lockout's counter is exact and a code takes MaxAttempts wrong guesses.
LEMMA SerialInvariance ==
  ASSUME Serial
  PROVE  Spec => [](AccountInv /\ SerialFacts)
BY SerialInit, SerialStep, Invariance, PTL DEF Spec

\* Where requests come one at a time, what a handler read of codes and sessions
\* is still so when it writes; nothing is claimed where they do not.
THEOREM SerialHolds == Spec => []SerialInv
<1>1. ASSUME Serial PROVE Spec => []SerialInv
  <2>1. SerialFacts => SerialInv
    BY DEF SerialFacts, SerialInv
  <2> QED
    BY <1>1, <2>1, SerialInvariance, PTL
<1>2. ASSUME ~Serial PROVE Spec => []SerialInv
  <2>1. SerialInv
    BY <1>2 DEF SerialInv
  <2> QED
    BY <2>1, PTL
<1> QED
  BY <1>1, <1>2

\* The lockout's counter is exact, one request at a time: a code takes
\* MaxAttempts wrong guesses and not one more.
THEOREM CodeIsGuarded ==
  ASSUME Serial
  PROVE  Spec => []GuessesBounded
<1>1. SerialFacts => GuessesBounded
  BY DEF SerialFacts
<1> QED
  BY <1>1, SerialInvariance, PTL

-----------------------------------------------------------------------------
(***************************************************************************)
(* One request at a time, login keeps what LoginFamily promises.           *)
(***************************************************************************)

FamilyOf == [s \in Sessions |-> sessions[s].code]
LiveSessions == {s \in Sessions : LiveSession(s)}

LEMMA SignsIn ==
  ASSUME AccountInv, SerialFacts, NEW c \in Calls, IssueSession(c)
  PROVE  \E o \in Codes, s \in Sessions : Login!SignIn(o, s)
<1> DEFINE o == req[c].code
           row == [user |-> req[c].user, expires |-> now + RefreshTtl,
                   revoked |-> FALSE, code |-> o, from |-> None]
<1>1. PICK s \in Sessions : InsertSession(s, row)
  BY DEF IssueSession
<1>2. /\ o \in Codes /\ \A x \in Sessions : sessions[x].code # o
      /\ row.user # None /\ row.code = o /\ ~row.revoked
  BY Split, AuthNoneAssumption DEF IssueSession, CallOK, At, Verifying, SerialFacts, SerialOK
<1> HIDE DEF o, row
<1>3. /\ sessions[s].code = None /\ sessions'[s] = row
      /\ \A x \in Sessions : x # s => sessions'[x] = sessions[x]
  BY <1>1, Split DEF InsertSession, NoSession, RowTypes
<1>4. FamilyOf' = [FamilyOf EXCEPT ![s] = o]
  BY <1>2, <1>3 DEF FamilyOf
<1>5. LiveSessions' = LiveSessions \cup {s}
  BY <1>2, <1>3 DEF LiveSessions, LiveSession
<1>6. Login!SignIn(o, s)
  BY <1>2, <1>3, <1>4, <1>5 DEF Login!SignIn, FamilyOf, LiveSessions
<1> QED
  BY <1>2, <1>6

LEMMA Rotates ==
  ASSUME AccountInv, SerialFacts, NEW c \in Calls, RefreshRotate(c)
  PROVE  \E s, t \in Sessions : Login!Rotate(s, t)
<1> DEFINE s == req[c].session
           row == [user |-> sessions[s].user, revoked |-> FALSE,
                   expires |-> req[c].n + RefreshTtl,
                   code |-> sessions[s].code, from |-> s]
<1>1. PICK t \in Sessions : RotateSession(s, t, row)
  BY DEF RefreshRotate
<1>2. s \in Sessions /\ sessions[s].user # None /\ LiveSession(s)
  BY Split DEF RefreshRotate, CallOK, At, SerialFacts, SerialOK
<1>3. row.user # None /\ row.code = sessions[s].code /\ ~row.revoked
  BY <1>2
<1> HIDE DEF s, row
<1>4. /\ sessions[t] = NoSession /\ s # t
      /\ sessions' = [sessions EXCEPT ![s].revoked = TRUE, ![t] = row]
  BY <1>1, <1>2 DEF RotateSession, NoSession
<1>5. /\ sessions'[t] = row /\ sessions'[s].revoked
      /\ sessions'[s].code = sessions[s].code
      /\ \A x \in Sessions : x # s /\ x # t => sessions'[x] = sessions[x]
  BY <1>2, <1>4, Split DEF RowTypes, SessionRows
<1>6. sessions[t].code = None
  BY <1>4 DEF NoSession
<1>7. FamilyOf' = [FamilyOf EXCEPT ![t] = FamilyOf[s]]
  BY <1>2, <1>3, <1>5 DEF FamilyOf
<1>8. LiveSessions' = (LiveSessions \ {s}) \cup {t}
  BY <1>2, <1>3, <1>4, <1>5 DEF LiveSessions, LiveSession
<1>9. Login!Rotate(s, t)
  BY <1>2, <1>6, <1>7, <1>8 DEF Login!Rotate, FamilyOf, LiveSessions
<1> QED
  BY <1>2, <1>9

LEMMA SignsOut ==
  ASSUME AccountInv, SerialFacts, NEW c \in Calls, LogoutRevoke(c)
  PROVE  \E s \in Sessions : Login!SignOut(s)
<1> DEFINE s == req[c].session
<1>1. sessions' = [sessions EXCEPT ![s].revoked = TRUE]
  BY DEF LogoutRevoke, RevokeSession
<1>2. s \in Sessions /\ LiveSession(s)
  BY Split DEF LogoutRevoke, CallOK, At, SerialFacts, SerialOK
<1> HIDE DEF s
<1>3. /\ sessions'[s].revoked /\ sessions'[s].code = sessions[s].code
      /\ \A x \in Sessions : x # s => sessions'[x] = sessions[x]
  BY <1>1, <1>2, Split DEF RowTypes, SessionRows
<1>4. FamilyOf' = FamilyOf /\ LiveSessions' = LiveSessions \ {s}
  BY <1>2, <1>3 DEF FamilyOf, LiveSessions, LiveSession
<1>5. Login!SignOut(s)
  BY <1>2, <1>4 DEF Login!SignOut, FamilyOf, LiveSessions
<1> QED
  BY <1>2, <1>5

LEMMA LoginInit == Init => Login!Init
<1> SUFFICES ASSUME Init PROVE Login!Init
  OBVIOUS
<1>1. sessions = [s \in Sessions |-> NoSession]
  BY DEF Init, RowsInit
<1>2. FamilyOf = [s \in Sessions |-> None] /\ LiveSessions = {}
  BY <1>1 DEF FamilyOf, LiveSessions, LiveSession, NoSession
<1> QED
  BY <1>2 DEF Login!Init, FamilyOf, LiveSessions

LEMMA LoginStep ==
  AccountInv /\ SerialFacts /\ [Next]_vars
    => [Login!Next]_<<FamilyOf, LiveSessions>>
<1> SUFFICES ASSUME AccountInv, SerialFacts, [Next]_vars
             PROVE  Login!Next \/ UNCHANGED <<FamilyOf, LiveSessions>>
  OBVIOUS
<1>1. CASE UNCHANGED sessions
  BY <1>1 DEF FamilyOf, LiveSessions, LiveSession
<1>2. ASSUME NEW c \in Calls, AuthStep(c)
      PROVE  UNCHANGED sessions \/ Login!Next
  BY <1>2, SignsIn, Rotates, SignsOut DEF AuthStep, RequestOtpInsert, FailAttempt,
     ConsumeCode, FindUser, VerifyCreateUser, rows, Login!Next
<1>3. ASSUME NEW c \in Calls, Arrive(c) PROVE UNCHANGED sessions
  BY <1>3 DEF Arrive, RequestOtp, VerifyOtp, Refresh, Logout, SaveCard,
     RegisterDriver, rows
<1>4. ASSUME NEW c \in Calls, CardStep(c) \/ UpsertDriver(c) \/ Abort(c)
      PROVE  UNCHANGED sessions
  BY <1>4 DEF CardStep, LockCards, SaveCardInsert, UpsertDriver, Abort, rows
<1>5. CASE UNCHANGED vars \/ Tick
  BY <1>1, <1>5 DEF vars, accountVars, rows, Tick
<1> QED
  BY <1>1, <1>2, <1>3, <1>4, <1>5 DEF Next, Step

\* One request at a time a code signs in once, and of the sessions that go back
\* to it one is live: refresh and logout find the session they revoke live.
THEOREM LoginImplemented ==
  ASSUME Serial
  PROVE  Spec => ImplementsLogin
<1>1. Init => Login!Init
  BY LoginInit
<1>2. AccountInv /\ SerialFacts /\ [Next]_vars
        => [Login!Next]_<<FamilyOf, LiveSessions>>
  BY LoginStep
<1> QED
  BY <1>1, <1>2, SerialInvariance, PTL
  DEF Spec, ImplementsLogin, Login!Spec, FamilyOf, LiveSessions

-----------------------------------------------------------------------------
(***************************************************************************)
(* One request at a time, a verification spends the newest code of its     *)
(* phone and a save clears every card of its rider.                        *)
(***************************************************************************)

ReadStands(c) ==
  /\ At(c, "consume") => req[c].code \in ActiveOtp(req[c].phone)
  /\ req[c].at \in {"lockCards", "saveCard"} => req[c].seen = CardsOf(req[c].user)

OneDefault ==
  \A u \in Users, k \in Cards :
    newest[u] # None /\ cards[k].user = u /\ cards[k].isDefault => k = newest[u]

ReadInv == OneDefault /\ \A c \in Calls : ReadStands(c)

LEMMA ReadInit == Init => ReadInv
BY DEF Init, RowsInit, Idle, NoCard, ReadInv, OneDefault, ReadStands, At

\* A call that relies on no card and no code is where it is.
LEMMA ReadRests ==
  ASSUME Serial, AccountInv, ReadInv, NEW c \in Calls, NEW v, Go(c, v),
         UNCHANGED <<cards, newest>>, v.at \notin {"consume", "lockCards", "saveCard"}
  PROVE  ReadInv'
<1>1. req'[c] = v /\ \A b \in Calls : b = c
  BY Split DEF Go, Serial
<1>2. \A b \in Calls : ReadStands(b)'
  BY <1>1 DEF ReadStands, At
<1> QED
  BY <1>2 DEF ReadInv, OneDefault

LEMMA ReadArrives ==
  ASSUME Serial, AccountInv, ReadInv, NEW c \in Calls, Arrive(c)
  PROVE  ReadInv'
<1>0. UNCHANGED <<otps, cards, newest>> /\ \A b \in Calls : b = c
  BY DEF Arrive, RequestOtp, VerifyOtp, Refresh, Logout, SaveCard, RegisterDriver, rows,
     Serial
<1>1. ASSUME NEW v, Go(c, v) PROVE req'[c] = v
  BY <1>1, Split DEF Go
<1>2. ASSUME NEW p \in Phones, NEW right \in BOOLEAN, VerifyOtp(c, p, right)
      PROVE  ReadStands(c)'
  <2>1. PICK o \in ActiveOtp(p) :
          Go(c, [Idle EXCEPT !.at = IF right THEN "consume" ELSE "failAttempt",
                             !.phone = p, !.code = o, !.n = otps[o].attempts])
    BY <1>2 DEF VerifyOtp
  <2>2. req'[c].code = o /\ req'[c].phone = p /\ req'[c].at \in {"consume", "failAttempt"}
    BY <1>1, <2>1 DEF Idle
  <2>3. o \in ActiveOtp(p)'
    BY <1>0, <2>1 DEF ActiveOtp, Unconsumed
  <2> QED
    BY <2>2, <2>3 DEF ReadStands, At
<1>3. ASSUME NEW u \in Users, NEW t \in Tokens, SaveCard(c, u, t)
      PROVE  ReadStands(c)'
  <2>1. /\ req'[c].at \in {"lockCards", "saveCard"}
        /\ req'[c].user = u /\ req'[c].seen = CardsOf(u)
    BY <1>1, <1>3 DEF SaveCard, Idle
  <2> QED
    BY <1>0, <2>1 DEF ReadStands, At, CardsOf
<1>4. ASSUME \/ \E p \in Phones : RequestOtp(c, p)
             \/ \E s \in Sessions : Refresh(c, s) \/ Logout(c, s)
             \/ \E p \in Phones, plan \in BOOLEAN : RegisterDriver(c, p, plan)
      PROVE  req'[c].at \in {"insertOtp", "rotate", "revoke", "insertDriver"}
  BY <1>1, <1>4 DEF RequestOtp, Refresh, Logout, RegisterDriver, Idle
<1>5. ReadStands(c)'
  BY <1>2, <1>3, <1>4 DEF Arrive, ReadStands, At
<1> QED
  BY <1>0, <1>5 DEF ReadInv, OneDefault

\* The rider's other cards are cleared with the save, and nobody else's are.
LEMMA ReadSaves ==
  ASSUME Serial, AccountInv, ReadInv, NEW c \in Calls, SaveCardInsert(c)
  PROVE  ReadInv'
<1> DEFINE u == req[c].user
           again == SavedAs(u, req[c].token)
<1>0. /\ cards \in [Cards -> CardRows] /\ newest \in [Users -> Cards \cup {None}]
      /\ u \in Users /\ req[c].seen = CardsOf(u)
  BY Split DEF RowTypes, SaveCardInsert, CallOK, At, ReadInv, ReadStands
<1>1. PICK k \in IF again = {} THEN {x \in Cards : cards[x] = NoCard} ELSE again :
        StoreDefault(req[c].seen, k, u, req[c].token) /\ newest' = [newest EXCEPT ![u] = k]
  BY DEF SaveCardInsert
<1>2. k \in Cards /\ cards[k].user \in {u, None}
  BY <1>1 DEF SavedAs, CardsOf, NoCard
<1> HIDE DEF u, again
<1>3. \A x \in Cards : cards'[x] =
        IF x = k THEN [user |-> u, token |-> req[c].token, isDefault |-> TRUE]
        ELSE IF cards[x].user = u THEN [cards[x] EXCEPT !.isDefault = FALSE]
        ELSE cards[x]
  BY <1>0, <1>1 DEF StoreDefault, CardsOf
<1>4. OneDefault'
  <2> SUFFICES ASSUME NEW w \in Users, NEW x \in Cards,
                      newest'[w] # None, cards'[x].user = w, cards'[x].isDefault
               PROVE  x = newest'[w]
    BY DEF OneDefault
  <2>1. CASE x = k
    <3>1. cards'[x] = [user |-> u, token |-> req[c].token, isDefault |-> TRUE]
      BY <1>3, <2>1
    <3>2. w = u
      BY <3>1
    <3> QED
      BY <1>0, <1>1, <2>1, <3>2
  <2>2. CASE x # k
    <3>1. cards[x].user # u /\ cards'[x] = cards[x]
      BY <1>0, <1>3, <2>2 DEF CardRows
    <3>2. w # u /\ newest'[w] = newest[w]
      BY <1>0, <1>1, <3>1
    <3> QED
      BY <3>1, <3>2 DEF ReadInv, OneDefault
  <2> QED
    BY <2>1, <2>2
<1>5. req'[c] = Idle /\ \A b \in Calls : b = c
  BY Split DEF SaveCardInsert, Finish, Go, Serial
<1>6. \A b \in Calls : ReadStands(b)'
  BY <1>5 DEF ReadStands, At, Idle
<1> QED
  BY <1>4, <1>6 DEF ReadInv

LEMMA ReadStep ==
  ASSUME Serial
  PROVE  AccountInv /\ ReadInv /\ [Next]_vars => ReadInv'
<1> SUFFICES ASSUME AccountInv, ReadInv, [Next]_vars PROVE ReadInv'
  OBVIOUS
<1>1. CASE UNCHANGED vars \/ Tick
  BY <1>1 DEF vars, accountVars, rows, Tick, ReadInv, ReadStands, OneDefault, At, ActiveOtp,
     Unconsumed, CardsOf
<1>2. ASSUME NEW c \in Calls, Step(c) \/ Abort(c) PROVE ReadInv'
  <2>0. req[c] \in Requests
    BY Split
  <2>1. CASE \/ RequestOtpInsert(c) \/ FailAttempt(c) \/ IssueSession(c)
             \/ RefreshRotate(c) \/ LogoutRevoke(c) \/ UpsertDriver(c) \/ Abort(c)
    <3>1. Go(c, Idle) /\ UNCHANGED <<cards, newest>>
      BY <2>1 DEF RequestOtpInsert, FailAttempt, IssueSession, RefreshRotate, LogoutRevoke,
         UpsertDriver, Abort, Finish, rows
    <3>2. Idle.at = "idle"
      BY DEF Idle
    <3> QED
      BY <3>1, <3>2, ReadRests
  <2>2. CASE ConsumeCode(c) \/ FindUser(c) \/ VerifyCreateUser(c)
    <3>1. UNCHANGED <<cards, newest>>
      BY <2>2 DEF ConsumeCode, FindUser, VerifyCreateUser, rows
    <3>2. ASSUME NEW v, v.at \in {"findUser", "createUser", "issueSession"}, Go(c, v)
          PROVE  ReadInv'
      BY <3>1, <3>2, ReadRests
    <3>3. CASE ConsumeCode(c)
      <4> DEFINE v == [req[c] EXCEPT !.at = "findUser"]
      <4>1. v.at = "findUser" /\ Go(c, v)
        BY <2>0, <3>3 DEF ConsumeCode, Requests
      <4> HIDE DEF v
      <4> QED
        BY <3>2, <4>1
    <3>4. ASSUME NEW u, Go(c, [req[c] EXCEPT !.at = "issueSession", !.user = u])
          PROVE  ReadInv'
      <4> DEFINE v == [req[c] EXCEPT !.at = "issueSession", !.user = u]
      <4>1. v.at = "issueSession" /\ Go(c, v)
        BY <2>0, <3>4 DEF Requests
      <4> HIDE DEF v
      <4> QED
        BY <3>2, <4>1
    <3>5. CASE FindUser(c)
      <4> DEFINE v == [req[c] EXCEPT !.at = "createUser"]
      <4>1. v.at = "createUser" /\ (Go(c, v) => ReadInv')
        <5>1. v.at = "createUser"
          BY <2>0 DEF Requests
        <5> HIDE DEF v
        <5> QED
          BY <3>2, <5>1
      <4> QED
        BY <3>4, <3>5, <4>1 DEF FindUser
    <3>6. CASE VerifyCreateUser(c)
      BY <3>4, <3>6 DEF VerifyCreateUser
    <3> QED
      BY <2>2, <3>3, <3>5, <3>6
  <2>3. CASE LockCards(c)
    <3>1. /\ req[c].at = "lockCards" /\ UNCHANGED <<cards, newest>>
          /\ req' = [req EXCEPT ![c] = [req[c] EXCEPT !.at = "saveCard"]]
      BY <2>3 DEF LockCards, At, Go, rows
    <3>2. /\ req'[c].at = "saveCard" /\ req'[c].user = req[c].user
          /\ req'[c].seen = req[c].seen /\ \A b \in Calls : b = c
      BY <2>0, <3>1, Split DEF Requests, Serial
    <3>3. ReadStands(c)'
      BY <3>1, <3>2 DEF ReadInv, ReadStands, At, CardsOf
    <3> QED
      BY <3>1, <3>2, <3>3 DEF ReadInv, OneDefault
  <2> QED
    BY <1>2, <2>1, <2>2, <2>3, ReadSaves DEF Step, AuthStep, CardStep
<1> QED
  BY <1>1, <1>2, ReadArrives DEF Next

LEMMA ReadInvariance ==
  ASSUME Serial
  PROVE  Spec => []ReadInv
BY ReadInit, ReadStep, Invariance, PTL DEF Spec

\* One save at a time, the card the next confirm charges is the one the rider
\* saved last, and there is no other default.
THEOREM DefaultIsLast ==
  ASSUME Serial
  PROVE  Spec => []DefaultIsNewest
<1>1. ASSUME AccountInv, ReadInv PROVE DefaultIsNewest
  <2> SUFFICES ASSUME NEW u \in Users, newest[u] # None
               PROVE  DefaultCards(u) = {newest[u]}
    BY DEF DefaultIsNewest
  <2>1. newest[u] \in CardsOf(u) /\ cards[newest[u]].isDefault
    BY <1>1 DEF AccountInv, NewestIsOwn
  <2>2. {k \in CardsOf(u) : cards[k].isDefault} = {newest[u]}
    BY <1>1, <2>1 DEF ReadInv, OneDefault, CardsOf
  <2> QED
    BY <2>2 DEF DefaultCards
<1> QED
  BY <1>1, ReadInvariance, Invariance, PTL

\* One request at a time, a code locked by wrong guesses stays in the way of
\* every older code of its phone: a verification spends the newest unspent one.
THEOREM LockoutStands ==
  ASSUME Serial
  PROVE  Spec => LockoutHolds
<1>1. ASSUME AccountInv, ReadInv, [Next]_vars, NEW o \in Codes, NEW x \in Codes,
             LockedOut(o), otps[o].phone = otps[x].phone,
             otps[x].created < otps[o].created
      PROVE  otps'[x].consumed = otps[x].consumed
  <2>0. otps \in [Codes -> CodeRows]
    BY <1>1, Split DEF RowTypes
  <2>1. ASSUME NEW c \in Calls, RequestOtpInsert(c)
        PROVE  otps'[x].consumed = otps[x].consumed
    <3>1. PICK y \in Codes : InsertOtp(y, req[c].phone, req[c].n)
      BY <2>1 DEF RequestOtpInsert
    <3>2. CASE x = y
      BY <2>0, <3>1, <3>2 DEF InsertOtp, NoCode
    <3>3. CASE x # y
      BY <2>0, <3>1, <3>3 DEF InsertOtp
    <3> QED
      BY <3>2, <3>3
  <2>2. ASSUME NEW c \in Calls, FailAttempt(c)
        PROVE  otps'[x].consumed = otps[x].consumed
    BY <2>0, <2>2 DEF FailAttempt, SetAttempts, CodeRows
  <2>3. ASSUME NEW c \in Calls, ConsumeCode(c)
        PROVE  otps'[x].consumed = otps[x].consumed
    <3>1. At(c, "consume") /\ Consume(req[c].code)
      BY <2>3 DEF ConsumeCode
    <3>2. CASE x = req[c].code
      <4>1. x \in ActiveOtp(otps[x].phone)
        BY <1>1, <3>1, <3>2 DEF ReadInv, ReadStands, ActiveOtp, Unconsumed
      <4>2. otps[o].created <= otps[x].created
        BY <1>1, <4>1 DEF ActiveOtp, Unconsumed, LockedOut
      <4>3. otps[o].created \in Nat /\ otps[x].created \in Nat
        BY <2>0 DEF CodeRows
      <4> QED
        BY <1>1, <4>2, <4>3
    <3>3. CASE x # req[c].code
      BY <2>0, <3>1, <3>3 DEF Consume
    <3> QED
      BY <3>2, <3>3
  <2>4. CASE \/ UNCHANGED vars \/ Tick
             \/ \E c \in Calls :
                  \/ Arrive(c) \/ FindUser(c) \/ VerifyCreateUser(c) \/ IssueSession(c)
                  \/ RefreshRotate(c) \/ LogoutRevoke(c) \/ CardStep(c) \/ UpsertDriver(c)
                  \/ Abort(c)
    BY <2>4 DEF vars, accountVars, rows, Tick, Arrive, RequestOtp, VerifyOtp, Refresh,
       Logout, SaveCard, RegisterDriver, FindUser, VerifyCreateUser, IssueSession,
       RefreshRotate, LogoutRevoke, CardStep, LockCards, SaveCardInsert, UpsertDriver, Abort
  <2> QED
    BY <1>1, <2>1, <2>2, <2>3, <2>4 DEF Next, Step, AuthStep
<1>2. AccountInv /\ ReadInv /\ [Next]_vars
        => [\A o, x \in Codes :
              LockedOut(o) /\ otps[o].phone = otps[x].phone
                /\ otps[x].created < otps[o].created
                  => otps'[x].consumed = otps[x].consumed]_vars
  BY <1>1
<1> QED
  BY <1>2, ReadInvariance, Invariance, PTL DEF Spec, LockoutHolds

-----------------------------------------------------------------------------
(***************************************************************************)
(* The send limit.  A request counts the codes of the window before it     *)
(* waits for its insert, so the codes of a window and the requests about   *)
(* to insert one into it are counted together.                             *)
(***************************************************************************)

Sent(p, u) == {o \in SentSince(p, u - SendWindow) : otps[o].created <= u}
Sending(p, u) ==
  {c \in Calls : /\ At(c, "insertOtp") /\ req[c].phone = p
                 /\ u - SendWindow <= req[c].n /\ req[c].n <= u}

SendBound(p, u) ==
  Sent(p, u) # {} \/ Sending(p, u) # {}
    => Cardinality(Sent(p, u)) + Cardinality(Sending(p, u))
         <= SendMax + Cardinality(Calls) - 1

SentCodes == {o \in Codes : otps[o].phone # None}

SendInv ==
  /\ IsFiniteSet(SentCodes)
  /\ \A p \in Phones, u \in Nat : SendBound(p, u)

LEMMA SendFinite ==
  ASSUME IsFiniteSet(Calls), IsFiniteSet(SentCodes), NEW p \in Phones, NEW u \in Nat
  PROVE  /\ IsFiniteSet(Sent(p, u)) /\ Cardinality(Sent(p, u)) \in Nat
         /\ IsFiniteSet(Sending(p, u)) /\ Cardinality(Sending(p, u)) \in Nat
         /\ Cardinality(Calls) \in Nat
         /\ Cardinality(Sending(p, u)) <= Cardinality(Calls)
<1>1. Sent(p, u) \in SUBSET SentCodes
  BY AuthNoneAssumption DEF Sent, SentSince, SentCodes
<1>2. Sending(p, u) \in SUBSET Calls
  BY DEF Sending
<1>3. IsFiniteSet(Sent(p, u)) /\ IsFiniteSet(Sending(p, u))
  BY <1>1, <1>2, FS_Subset
<1> QED
  BY <1>2, <1>3, FS_Subset, FS_CardinalityType

LEMMA SendInit == Init => SendInv
<1> SUFFICES ASSUME Init PROVE SendInv
  OBVIOUS
<1>1. SentCodes = {}
  BY DEF Init, RowsInit, NoCode, SentCodes
<1>2. ASSUME NEW p \in Phones, NEW u \in Nat PROVE Sent(p, u) = {} /\ Sending(p, u) = {}
  BY AuthNoneAssumption DEF Init, RowsInit, NoCode, Idle, Sent, SentSince, Sending, At
<1> QED
  BY <1>1, <1>2, FS_EmptySet DEF SendInv, SendBound

\* Fewer requests are about to insert a code into a window.
LEMMA SendFewer ==
  ASSUME IsFiniteSet(Calls), SendInv, NEW p \in Phones, NEW u \in Nat,
         Sent(p, u)' = Sent(p, u), Sending(p, u)' \subseteq Sending(p, u)
  PROVE  SendBound(p, u)'
<1>1. /\ IsFiniteSet(Sending(p, u)) /\ Cardinality(Sending(p, u)) \in Nat
      /\ Cardinality(Sent(p, u)) \in Nat /\ Cardinality(Calls) \in Nat
      /\ SendBound(p, u)
  BY SendFinite DEF SendInv
<1>2. /\ IsFiniteSet(Sending(p, u)')
      /\ Cardinality(Sending(p, u)') <= Cardinality(Sending(p, u))
  BY <1>1, FS_Subset
<1>3. Cardinality(Sending(p, u)') \in Nat
  BY <1>2, FS_CardinalityType
<1> QED
  BY <1>1, <1>2, <1>3, AuthEnvAssumption DEF SendBound

\* A step that sends no code and asks for none.
LEMMA SendFrame ==
  ASSUME IsFiniteSet(Calls), AccountInv, SendInv, NEW c \in Calls, NEW v, Go(c, v),
         v.at # "insertOtp",
         \A o \in Codes :
           otps'[o].phone = otps[o].phone /\ otps'[o].created = otps[o].created
  PROVE  SendInv'
<1>1. req'[c] = v /\ \A b \in Calls : b # c => req'[b] = req[b]
  BY Split DEF Go
<1>2. SentCodes' = SentCodes
  BY DEF SentCodes
<1>3. ASSUME NEW p \in Phones, NEW u \in Nat
      PROVE  Sent(p, u)' = Sent(p, u) /\ Sending(p, u)' \subseteq Sending(p, u)
  BY <1>1 DEF Sent, SentSince, Sending, At
<1> QED
  BY <1>2, <1>3, SendFewer DEF SendInv

\* A request comes in while its window has room.
LEMMA SendAsked ==
  ASSUME IsFiniteSet(Calls), AccountInv, SendInv, NEW c \in Calls, NEW p \in Phones,
         RequestOtp(c, p)
  PROVE  SendInv'
<1>0. otps \in [Codes -> CodeRows] /\ now \in Nat
  BY Split DEF RowTypes
<1>1. /\ UNCHANGED otps
      /\ \A b \in Calls : b # c => req'[b] = req[b]
      /\ req'[c].phone = p /\ req'[c].n = now
  BY Split DEF RequestOtp, Go, Idle, rows
<1>2. SentCodes' = SentCodes
  BY <1>1 DEF SentCodes
<1>3. ASSUME NEW q \in Phones, NEW u \in Nat PROVE Sent(q, u)' = Sent(q, u)
  BY <1>1 DEF Sent, SentSince
<1>4. ASSUME NEW q \in Phones, NEW u \in Nat, q # p \/ ~(now <= u)
      PROVE  SendBound(q, u)'
  <2>1. Sending(q, u)' \subseteq Sending(q, u)
    BY <1>1, <1>4 DEF Sending, At
  <2> QED
    BY <1>3, <2>1, SendFewer
<1>5. ASSUME NEW u \in Nat, now <= u PROVE SendBound(p, u)'
  <2> DEFINE window == SentSince(p, WindowStart)
  <2>1. Cardinality(window) < SendMax
    BY DEF RequestOtp
  <2>2. IsFiniteSet(window) /\ Cardinality(window) \in Nat
    <3>1. window \in SUBSET SentCodes
      BY AuthNoneAssumption DEF SentSince, SentCodes
    <3> QED
      BY <3>1, FS_Subset, FS_CardinalityType DEF SendInv
  <2>3. Sent(p, u) \in SUBSET window
    BY <1>0, <1>5, AuthEnvAssumption DEF Sent, SentSince, WindowStart, CodeRows
  <2>4. Cardinality(Sent(p, u)) <= Cardinality(window) /\ Cardinality(Sent(p, u)) \in Nat
    BY <2>2, <2>3, FS_Subset, FS_CardinalityType
  <2>5. /\ Cardinality(Sending(p, u)') \in Nat /\ Cardinality(Calls) \in Nat
        /\ Cardinality(Sending(p, u)') <= Cardinality(Calls)
    <3>1. Sending(p, u)' \in SUBSET Calls
      BY DEF Sending
    <3> QED
      BY <3>1, FS_Subset, FS_CardinalityType
  <2> HIDE DEF window
  <2> QED
    BY <1>3, <2>1, <2>2, <2>4, <2>5, AuthEnvAssumption DEF SendBound
<1> QED
  BY <1>2, <1>4, <1>5 DEF SendInv

\* A code that is inserted takes the place of the request that sends it.
LEMMA SendInserted ==
  ASSUME IsFiniteSet(Calls), AccountInv, SendInv, NEW c \in Calls, RequestOtpInsert(c)
  PROVE  SendInv'
<1> DEFINE p == req[c].phone
           n == req[c].n
<1>0. /\ otps \in [Codes -> CodeRows] /\ p \in Phones /\ n \in Nat /\ At(c, "insertOtp")
  BY Split DEF RowTypes, CallOK, At, RequestOtpInsert, Requests
<1>1. PICK o \in Codes : InsertOtp(o, p, n)
  BY DEF RequestOtpInsert
<1>2. /\ otps[o].phone = None /\ otps'[o].phone = p /\ otps'[o].created = n
      /\ \A x \in Codes : x # o => otps'[x] = otps[x]
  BY <1>0, <1>1 DEF InsertOtp, NoCode
<1>3. req'[c].at = "idle" /\ \A b \in Calls : b # c => req'[b] = req[b]
  BY Split DEF RequestOtpInsert, Finish, Go, Idle
<1>4. IsFiniteSet(SentCodes')
  <2>1. SentCodes' = SentCodes \cup {o}
    BY <1>0, <1>2, AuthNoneAssumption DEF SentCodes
  <2> QED
    BY <2>1, FS_AddElement DEF SendInv
<1>5. ASSUME NEW q \in Phones, NEW u \in Nat PROVE SendBound(q, u)'
  <2>1. CASE c \notin Sending(q, u)
    <3>1. ~(q = p /\ u - SendWindow <= n /\ n <= u)
      BY <1>0, <2>1 DEF Sending
    <3>2. Sent(q, u)' = Sent(q, u)
      BY <1>2, <3>1, AuthNoneAssumption DEF Sent, SentSince
    <3>3. Sending(q, u)' \subseteq Sending(q, u)
      BY <1>3 DEF Sending, At
    <3> QED
      BY <3>2, <3>3, SendFewer
  <2>2. CASE c \in Sending(q, u)
    <3>1. q = p /\ u - SendWindow <= n /\ n <= u
      BY <2>2 DEF Sending
    <3>2. Sent(q, u)' = Sent(q, u) \cup {o} /\ o \notin Sent(q, u)
      BY <1>0, <1>2, <3>1, AuthNoneAssumption DEF Sent, SentSince
    <3>3. Sending(q, u)' = Sending(q, u) \ {c}
      BY <1>3 DEF Sending, At
    <3>4. /\ IsFiniteSet(Sent(q, u)) /\ Cardinality(Sent(q, u)) \in Nat
          /\ IsFiniteSet(Sending(q, u)) /\ Cardinality(Sending(q, u)) \in Nat
      BY SendFinite DEF SendInv
    <3>5. Cardinality(Sent(q, u)') = Cardinality(Sent(q, u)) + 1
      BY <3>2, <3>4, FS_AddElement
    <3>6. Cardinality(Sending(q, u)') = Cardinality(Sending(q, u)) - 1
      BY <2>2, <3>3, <3>4, FS_RemoveElement
    <3>7. Cardinality(Sent(q, u)) + Cardinality(Sending(q, u))
            <= SendMax + Cardinality(Calls) - 1
      BY <2>2 DEF SendInv, SendBound
    <3> QED
      BY <3>4, <3>5, <3>6, <3>7 DEF SendBound
  <2> QED
    BY <2>1, <2>2
<1> QED
  BY <1>4, <1>5 DEF SendInv

LEMMA SendStep ==
  ASSUME IsFiniteSet(Calls)
  PROVE  AccountInv /\ SendInv /\ [Next]_vars => SendInv'
<1> SUFFICES ASSUME AccountInv, SendInv, [Next]_vars PROVE SendInv'
  OBVIOUS
<1>0. RowTypes
  BY Split
<1>1. CASE UNCHANGED vars \/ Tick
  <2>1. UNCHANGED <<otps, req>>
    BY <1>1 DEF vars, accountVars, rows, Tick
  <2>2. SentCodes' = SentCodes
    BY <2>1 DEF SentCodes
  <2>3. ASSUME NEW p \in Phones, NEW u \in Nat
        PROVE  Sent(p, u)' = Sent(p, u) /\ Sending(p, u)' = Sending(p, u)
    BY <2>1 DEF Sent, SentSince, Sending, At
  <2> QED
    BY <2>2, <2>3, SendFewer DEF SendInv
<1>2. ASSUME NEW c \in Calls, NEW v, Go(c, v), v.at # "insertOtp",
             \A o \in Codes :
               otps'[o].phone = otps[o].phone /\ otps'[o].created = otps[o].created
      PROVE  SendInv'
  BY <1>2, SendFrame
<1>3. Idle.at = "idle"
  BY DEF Idle
<1>4. ASSUME NEW c \in Calls, Arrive(c) PROVE SendInv'
  <2>1. CASE \E p \in Phones : RequestOtp(c, p)
    BY <2>1, SendAsked
  <2>2. ASSUME NEW v, Go(c, v), v.at # "insertOtp", UNCHANGED otps PROVE SendInv'
    BY <1>2, <2>2
  <2>3. ASSUME NEW p \in Phones, NEW right \in BOOLEAN, VerifyOtp(c, p, right)
        PROVE  SendInv'
    <3>1. PICK o \in ActiveOtp(p) :
            Go(c, [Idle EXCEPT !.at = IF right THEN "consume" ELSE "failAttempt",
                               !.phone = p, !.code = o, !.n = otps[o].attempts])
      BY <2>3 DEF VerifyOtp
    <3> DEFINE v == [Idle EXCEPT !.at = IF right THEN "consume" ELSE "failAttempt",
                                 !.phone = p, !.code = o, !.n = otps[o].attempts]
    <3>2. Go(c, v) /\ v.at # "insertOtp" /\ UNCHANGED otps
      BY <2>3, <3>1 DEF VerifyOtp, Idle, rows
    <3> HIDE DEF v
    <3> QED
      BY <2>2, <3>2
  <2>4. ASSUME NEW s \in Sessions, Refresh(c, s) PROVE SendInv'
    <3> DEFINE v == [Idle EXCEPT !.at = "rotate", !.session = s, !.n = now]
    <3>1. Go(c, v) /\ v.at # "insertOtp" /\ UNCHANGED otps
      BY <2>4 DEF Refresh, Idle, rows
    <3> HIDE DEF v
    <3> QED
      BY <2>2, <3>1
  <2>5. ASSUME NEW s \in Sessions, Logout(c, s) PROVE SendInv'
    <3> DEFINE v == [Idle EXCEPT !.at = "revoke", !.session = s]
    <3>1. Go(c, v) /\ v.at # "insertOtp" /\ UNCHANGED otps
      BY <2>5 DEF Logout, Idle, rows
    <3> HIDE DEF v
    <3> QED
      BY <2>2, <3>1
  <2>6. ASSUME NEW u \in Users, NEW t \in Tokens, SaveCard(c, u, t) PROVE SendInv'
    <3> DEFINE v == [Idle EXCEPT
                       !.at = IF Store = "postgres" THEN "lockCards" ELSE "saveCard",
                       !.user = u, !.token = t, !.seen = CardsOf(u)]
    <3>1. Go(c, v) /\ v.at # "insertOtp" /\ UNCHANGED otps
      BY <2>6 DEF SaveCard, Idle, rows
    <3> HIDE DEF v
    <3> QED
      BY <2>2, <3>1
  <2>7. ASSUME NEW p \in Phones, NEW plan \in BOOLEAN, RegisterDriver(c, p, plan)
        PROVE  SendInv'
    <3> DEFINE v == [Idle EXCEPT !.at = "insertDriver", !.phone = p, !.plan = plan]
    <3>1. Go(c, v) /\ v.at # "insertOtp" /\ UNCHANGED otps
      BY <2>7 DEF RegisterDriver, Idle, rows
    <3> HIDE DEF v
    <3> QED
      BY <2>2, <3>1
  <2> QED
    BY <1>4, <2>1, <2>3, <2>4, <2>5, <2>6, <2>7 DEF Arrive
<1>5. ASSUME NEW c \in Calls, Step(c) \/ Abort(c) PROVE SendInv'
  <2>0. req[c] \in Requests
    BY Split
  <2>1. CASE RequestOtpInsert(c)
    BY <2>1, SendInserted
  <2>2. CASE \/ IssueSession(c) \/ RefreshRotate(c) \/ LogoutRevoke(c)
             \/ SaveCardInsert(c) \/ UpsertDriver(c) \/ Abort(c)
    <3>1. Go(c, Idle) /\ UNCHANGED otps
      BY <2>2 DEF IssueSession, RefreshRotate, LogoutRevoke, SaveCardInsert, UpsertDriver,
         Abort, Finish, rows
    <3> QED
      BY <1>2, <1>3, <3>1
  <2>3. CASE FailAttempt(c)
    <3>1. Go(c, Idle) /\ otps' = [otps EXCEPT ![req[c].code].attempts = req[c].n + 1]
      BY <2>3 DEF FailAttempt, SetAttempts, Finish
    <3>2. \A o \in Codes :
            otps'[o].phone = otps[o].phone /\ otps'[o].created = otps[o].created
      BY <1>0, <3>1 DEF RowTypes, CodeRows
    <3> QED
      BY <1>2, <1>3, <3>1, <3>2
  <2>4. CASE ConsumeCode(c)
    <3> DEFINE v == [req[c] EXCEPT !.at = "findUser"]
    <3>1. Go(c, v) /\ v.at # "insertOtp" /\ otps' = [otps EXCEPT ![req[c].code].consumed = TRUE]
      BY <2>0, <2>4 DEF ConsumeCode, Consume, Requests
    <3>2. \A o \in Codes :
            otps'[o].phone = otps[o].phone /\ otps'[o].created = otps[o].created
      BY <1>0, <3>1 DEF RowTypes, CodeRows
    <3> HIDE DEF v
    <3> QED
      BY <1>2, <3>1, <3>2
  <2>5. ASSUME NEW u, Go(c, [req[c] EXCEPT !.at = "issueSession", !.user = u]),
               UNCHANGED otps
        PROVE  SendInv'
    <3> DEFINE v == [req[c] EXCEPT !.at = "issueSession", !.user = u]
    <3>1. Go(c, v) /\ v.at # "insertOtp"
      BY <2>0, <2>5 DEF Requests
    <3> HIDE DEF v
    <3> QED
      BY <1>2, <2>5, <3>1
  <2>6. ASSUME NEW at \in {"createUser", "saveCard"}, Go(c, [req[c] EXCEPT !.at = at]),
               UNCHANGED otps
        PROVE  SendInv'
    <3> DEFINE v == [req[c] EXCEPT !.at = at]
    <3>1. Go(c, v) /\ v.at # "insertOtp"
      BY <2>0, <2>6 DEF Requests
    <3> HIDE DEF v
    <3> QED
      BY <1>2, <2>6, <3>1
  <2>7. CASE FindUser(c)
    BY <2>5, <2>6, <2>7 DEF FindUser, rows
  <2>8. CASE VerifyCreateUser(c)
    BY <2>5, <2>8 DEF VerifyCreateUser
  <2>9. CASE LockCards(c)
    BY <2>6, <2>9 DEF LockCards, rows
  <2> QED
    BY <1>5, <2>1, <2>2, <2>3, <2>4, <2>7, <2>8, <2>9 DEF Step, AuthStep, CardStep
<1> QED
  BY <1>1, <1>4, <1>5 DEF Next

LEMMA SendInvariance ==
  ASSUME IsFiniteSet(Calls)
  PROVE  Spec => []SendInv
BY SendInit, SendStep, Invariance, PTL DEF Spec

LEMMA SendsOfAWindow ==
  ASSUME IsFiniteSet(Calls), AccountInv, SendInv, NEW o \in Codes, otps[o].phone # None
  PROVE  /\ Cardinality(SentWith(o)) <= SendMax + Cardinality(Calls) - 1
         /\ Cardinality(SentWith(o)) \in Nat
<1>1. PICK p \in Phones, u \in Nat : p = otps[o].phone /\ u = otps[o].created
  BY Split DEF RowTypes, CodeRows
<1>2. SentWith(o) = Sent(p, u)
  BY <1>1 DEF SentWith, Sent
<1>3. o \in Sent(p, u)
  BY <1>1, AuthEnvAssumption DEF Sent, SentSince
<1>4. /\ Cardinality(Sent(p, u)) + Cardinality(Sending(p, u))
           <= SendMax + Cardinality(Calls) - 1
      /\ Cardinality(Sent(p, u)) \in Nat /\ Cardinality(Sending(p, u)) \in Nat
      /\ Cardinality(Calls) \in Nat
  BY <1>3, SendFinite DEF SendInv, SendBound
<1> QED
  BY <1>2, <1>4, AuthEnvAssumption

\* Requests that race get past OTP_SEND_MAX by one code each at most, in any
\* window and for as many of them as the server works on at one time.
THEOREM SendsAreNearlyBounded ==
  ASSUME IsFiniteSet(Calls)
  PROVE  Spec => []SendsNearlyBounded
<1>1. AccountInv /\ SendInv => SendsNearlyBounded
  BY SendsOfAWindow DEF SendsNearlyBounded
<1> QED
  BY <1>1, SendInvariance, Invariance, PTL

\* One request at a time the limit is exact.
THEOREM SendsAreBounded ==
  ASSUME Serial
  PROVE  Spec => []SendsBounded
<1>1. IsFiniteSet(Calls) /\ Cardinality(Calls) \in {0, 1}
  <2>1. CASE Calls = {}
    BY <2>1, FS_EmptySet
  <2>2. CASE Calls # {}
    <3>1. PICK c \in Calls : TRUE
      BY <2>2
    <3>2. Calls = {c}
      BY <3>1 DEF Serial
    <3> QED
      BY <3>2, FS_Singleton
  <2> QED
    BY <2>1, <2>2
<1>2. AccountInv /\ SendInv => SendsBounded
  <2> SUFFICES ASSUME AccountInv, SendInv, NEW o \in Codes, otps[o].phone # None
               PROVE  Cardinality(SentWith(o)) <= SendMax
    BY DEF SendsBounded
  <2> QED
    BY <1>1, SendsOfAWindow, AuthEnvAssumption
<1>3. Spec => []SendInv
  BY <1>1, SendInvariance
<1> QED
  BY <1>2, <1>3, Invariance, PTL
=============================================================================
