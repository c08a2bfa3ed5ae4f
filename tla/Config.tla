------------------------------- MODULE Config -------------------------------
(***************************************************************************)
(* What the process refuses to start with.  A setting is abstracted to the *)
(* kinds of value the checks tell apart, "unset" among them.               *)
(***************************************************************************)

KeyKinds == {"unset", "placeholder", "test", "live", "other"}

\* The environment of the process.  JWT_SECRET may be given the development
\* key itself, which is not among the placeholders.
Sources ==
  [paymentsDriver : {"unset", "fake", "stripe", "other"},
   store : {"unset", "memory", "postgres", "other"},
   stripeMode : {"unset", "test", "live", "other"},
   stripeSecretKey : KeyKinds,
   liveEnabled : BOOLEAN,   \* ENABLE_LIVE_PAYMENTS is exactly 'true'
   production : BOOLEAN,    \* APP_ENV is 'production'
   jwtSecret : {"unset", "placeholder", "development", "other"}]

\* readEnum: a default for an empty value, an error for an unknown one.
ReadEnum(raw, fallback) == IF raw = "unset" THEN fallback ELSE raw
Unknown(source) ==
  \/ source.paymentsDriver = "other"
  \/ source.store = "other"
  \/ source.stripeMode = "other"

RealKey(key) == key \notin {"unset", "placeholder"}

\* loadEnv ends without an error, and what it returns.
Loads(source) ==
  /\ ~Unknown(source)
  /\ ReadEnum(source.paymentsDriver, "fake") = "stripe" => RealKey(source.stripeSecretKey)
  /\ RealKey(source.jwtSecret) \/ ~source.production

LoadEnv(source) ==
  [paymentsDriver |-> ReadEnum(source.paymentsDriver, "fake"),
   store |-> ReadEnum(source.store, "memory"),
   stripeMode |-> ReadEnum(source.stripeMode, "test"),
   liveEnabled |-> source.liveEnabled,
   key |-> source.stripeSecretKey,
   jwtSecret |-> IF RealKey(source.jwtSecret) THEN source.jwtSecret ELSE "development"]

\* assertStripeMode.
StripeModeHolds(env) ==
  env.paymentsDriver = "stripe" =>
    /\ env.key \in {"test", "live"}
    /\ env.key = "live" => env.liveEnabled
    /\ (env.stripeMode = "live") = (env.key = "live")

\* main: both, before the application is made.
Boots(source) == Loads(source) /\ StripeModeHolds(LoadEnv(source))

\* The core module's choice of gateway and stores.
GatewayOf(env) == IF env.paymentsDriver = "stripe" THEN "stripe" ELSE "fake"
StoreOf(env) == IF env.store = "postgres" THEN "postgres" ELSE "memory"

MovesRealMoney(source) ==
  GatewayOf(LoadEnv(source)) = "stripe" /\ LoadEnv(source).key = "live"
=============================================================================
