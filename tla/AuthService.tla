----------------------------- MODULE AuthService -----------------------------
(***************************************************************************)
(* Login by phone code, and sessions.  A handler is cut at its awaits: its *)
(* first read goes with its arrival, and what it read is kept in req.      *)
(* Digits, hashes and tokens are left out: a code is right or wrong, and   *)
(* presenting a refresh token is naming its session.                       *)
(***************************************************************************)
EXTENDS AuthRepository

CONSTANTS OtpTtl, SendWindow, SendMax, MaxAttempts, RefreshTtl,
  MaxTime   \* bound: how far the clock goes

ASSUME AuthEnvAssumption ==
  /\ OtpTtl \in Nat /\ SendWindow \in Nat /\ SendMax \in Nat
  /\ MaxAttempts \in Nat /\ RefreshTtl \in Nat /\ MaxTime \in Nat

VARIABLES
  req,   \* call -> the handler at work on it: its position and locals
  now    \* the clock

accountVars == <<rows, req, now>>

-----------------------------------------------------------------------------
Positions ==
  {"idle", "insertOtp", "failAttempt", "consume", "findUser", "createUser",
   "issueSession", "rotate", "revoke", "lockCards", "saveCard", "insertDriver"}

\* n is a number the handler read (the clock, the attempts of a code); seen
\* are the cards a save has to clear.
Requests ==
  [at : Positions, phone : Phones \cup {None}, code : Codes \cup {None},
   user : Users \cup {None}, session : Sessions \cup {None},
   token : Tokens \cup {None}, n : Nat, seen : SUBSET Cards, plan : BOOLEAN]
Idle ==
  [at |-> "idle", phone |-> None, code |-> None, user |-> None,
   session |-> None, token |-> None, n |-> 0, seen |-> {}, plan |-> FALSE]

At(c, at) == req[c].at = at
Go(c, r) == req' = [req EXCEPT ![c] = r]
Finish(c) == Go(c, Idle)

-----------------------------------------------------------------------------
\* requestOtp.  The sends of the window are counted, then the code is stored,
\* dated with the clock read at the start.  The SMS comes last and never fails
\* the request.
WindowStart == IF now < SendWindow THEN 0 ELSE now - SendWindow

RequestUncapped(c, p) ==   \* mutant: no send limit
  /\ At(c, "idle")
  /\ Go(c, [Idle EXCEPT !.at = "insertOtp", !.phone = p, !.n = now])
  /\ UNCHANGED <<rows, now>>
RequestOtp(c, p) ==
  /\ At(c, "idle")
  /\ Cardinality(SentSince(p, WindowStart)) < SendMax
  /\ Go(c, [Idle EXCEPT !.at = "insertOtp", !.phone = p, !.n = now])
  /\ UNCHANGED <<rows, now>>

RequestOtpInsert(c) ==
  /\ At(c, "insertOtp")
  /\ \E o \in Codes : InsertOtp(o, req[c].phone, req[c].n)
  /\ Finish(c)
  /\ UNCHANGED <<users, sessions, cards, drivers, guesses, newest, now>>

-----------------------------------------------------------------------------
\* verifyOtp.  Neither write of the code looks at the row again.
Expired(o) == otps[o].created + OtpTtl <= now
AlwaysTry(o) == TRUE   \* mutant: no lockout, no expiry
MayTry(o) == otps[o].attempts < MaxAttempts /\ ~Expired(o)

VerifyOtp(c, p, right) ==
  /\ At(c, "idle")
  /\ \E o \in ActiveOtp(p) :
       /\ MayTry(o)
       /\ Go(c, [Idle EXCEPT !.at = IF right THEN "consume" ELSE "failAttempt",
                             !.phone = p, !.code = o, !.n = otps[o].attempts])
  /\ UNCHANGED <<rows, now>>

FailDouble(c) ==   \* mutant: one wrong code counts twice
  /\ At(c, "failAttempt")
  /\ SetAttempts(req[c].code, req[c].n + 2)
  /\ guesses' = [guesses EXCEPT ![req[c].code] = @ + 1]
  /\ Finish(c)
  /\ UNCHANGED <<users, sessions, cards, drivers, newest, now>>
FailAttempt(c) ==
  /\ At(c, "failAttempt")
  /\ SetAttempts(req[c].code, req[c].n + 1)
  /\ guesses' = [guesses EXCEPT ![req[c].code] = @ + 1]
  /\ Finish(c)
  /\ UNCHANGED <<users, sessions, cards, drivers, newest, now>>

ConsumeCode(c) ==
  /\ At(c, "consume")
  /\ Consume(req[c].code)
  /\ Go(c, [req[c] EXCEPT !.at = "findUser"])
  /\ UNCHANGED <<users, sessions, cards, drivers, guesses, newest, now>>

FindUser(c) ==
  /\ At(c, "findUser")
  /\ \/ UsersOf(req[c].phone) = {} /\ Go(c, [req[c] EXCEPT !.at = "createUser"])
     \/ \E u \in UsersOf(req[c].phone) :
          Go(c, [req[c] EXCEPT !.at = "issueSession", !.user = u])
  /\ UNCHANGED <<rows, now>>

VerifyCreateUser(c) ==
  /\ At(c, "createUser")
  /\ \E u \in Users :
       /\ CreateUser(req[c].phone, u)
       /\ Go(c, [req[c] EXCEPT !.at = "issueSession", !.user = u])
  /\ UNCHANGED <<otps, sessions, cards, drivers, guesses, newest, now>>

IssueSession(c) ==
  /\ At(c, "issueSession")
  /\ \E s \in Sessions :
       InsertSession(s, [user |-> req[c].user, expires |-> now + RefreshTtl,
                         revoked |-> FALSE, code |-> req[c].code, from |-> None])
  /\ Finish(c)
  /\ UNCHANGED <<users, otps, cards, drivers, guesses, newest, now>>

-----------------------------------------------------------------------------
\* refresh and logout of a session found live.
RefreshAny(c, s) ==   \* mutant: looks a token up without the revoked gate
  /\ At(c, "idle")
  /\ sessions[s].user # None
  /\ sessions[s].expires > now
  /\ Go(c, [Idle EXCEPT !.at = "rotate", !.session = s, !.n = now])
  /\ UNCHANGED <<rows, now>>
Refresh(c, s) ==
  /\ At(c, "idle")
  /\ LiveSession(s)
  /\ sessions[s].expires > now
  /\ Go(c, [Idle EXCEPT !.at = "rotate", !.session = s, !.n = now])
  /\ UNCHANGED <<rows, now>>

RefreshRotate(c) ==
  LET s == req[c].session IN
  /\ At(c, "rotate")
  /\ \E t \in Sessions :
       RotateSession(s, t, [user |-> sessions[s].user, revoked |-> FALSE,
                            expires |-> req[c].n + RefreshTtl,
                            code |-> sessions[s].code, from |-> s])
  /\ Finish(c)
  /\ UNCHANGED <<users, otps, cards, drivers, guesses, newest, now>>

Logout(c, s) ==
  /\ At(c, "idle")
  /\ LiveSession(s)
  /\ Go(c, [Idle EXCEPT !.at = "revoke", !.session = s])
  /\ UNCHANGED <<rows, now>>

LogoutRevoke(c) ==
  /\ At(c, "revoke")
  /\ RevokeSession(req[c].session)
  /\ Finish(c)
  /\ UNCHANGED <<users, otps, cards, drivers, guesses, newest, now>>

AuthStep(c) ==
  \/ RequestOtpInsert(c)
  \/ FailAttempt(c) \/ ConsumeCode(c) \/ FindUser(c) \/ VerifyCreateUser(c)
  \/ IssueSession(c)
  \/ RefreshRotate(c) \/ LogoutRevoke(c)
=============================================================================
