---------------------------- MODULE ConfigProofs ----------------------------
(***************************************************************************)
(* What a process that started can be relied on for.                       *)
(***************************************************************************)
EXTENDS Config, TLAPS

\* Moving real money is a deliberate opt-in: a process wired to Stripe with a
\* live key runs only where ENABLE_LIVE_PAYMENTS and STRIPE_MODE both say so.
THEOREM RealMoneyIsOptIn ==
  ASSUME NEW source \in Sources, Boots(source), MovesRealMoney(source)
  PROVE  source.liveEnabled /\ source.stripeMode = "live"
<1>1. LoadEnv(source).paymentsDriver = "stripe" /\ LoadEnv(source).key = "live"
  BY DEF MovesRealMoney, GatewayOf
<1>2. LoadEnv(source).liveEnabled /\ LoadEnv(source).stripeMode = "live"
  BY <1>1 DEF Boots, StripeModeHolds
<1>3. source.liveEnabled
  BY <1>2 DEF LoadEnv
<1>4. source.stripeMode = "live"
  BY <1>2 DEF LoadEnv, ReadEnum
<1>5. QED
  BY <1>3, <1>4

\* In production the signing key is the one that was given, not a placeholder and
\* never the fallback.
THEOREM ProductionSecretIsGiven ==
  ASSUME NEW source \in Sources, Boots(source), source.production
  PROVE  /\ source.jwtSecret \notin {"unset", "placeholder"}
         /\ LoadEnv(source).jwtSecret = source.jwtSecret
  BY DEF Boots, Loads, LoadEnv, RealKey

\* That is all: production starts with the development key, which anyone can read
\* in the source, when it is given explicitly.  (.env.example says production
\* rejects dev secrets at boot.)
THEOREM DevelopmentKeyBoots ==
  \E source \in Sources :
    /\ Boots(source) /\ source.production
    /\ LoadEnv(source).jwtSecret = "development"
<1> DEFINE source == [paymentsDriver |-> "fake", store |-> "unset", stripeMode |-> "unset",
                      stripeSecretKey |-> "unset", liveEnabled |-> FALSE,
                      production |-> TRUE, jwtSecret |-> "development"]
<1>1. source \in Sources /\ source.production
  BY DEF Sources, KeyKinds
<1>2. LoadEnv(source).paymentsDriver = "fake" /\ LoadEnv(source).jwtSecret = "development"
  BY DEF LoadEnv, ReadEnum, RealKey
<1>3. Loads(source)
  BY DEF Loads, Unknown, ReadEnum, RealKey
<1>4. Boots(source)
  BY <1>2, <1>3 DEF Boots, StripeModeHolds
<1> QED
  BY <1>1, <1>2, <1>4
=============================================================================
