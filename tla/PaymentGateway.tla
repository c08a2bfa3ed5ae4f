--------------------------- MODULE PaymentGateway ---------------------------
(***************************************************************************)
(* The payment port and its two adapters.  "fake" is the deterministic     *)
(* in-memory gateway of development and CI; it ignores idempotency keys.   *)
(* "stripe" is the HTTP adapter: Stripe itself is outside the repository   *)
(* and modelled from how the adapter and its callers rely on it, a request *)
(* with a key already used being answered like the first one.  (It may as  *)
(* well be refused, as a request that reuses a key with other metadata is: *)
(* GatewayRefuses of RideService covers that.)                             *)
(* An intent is named after the ride id of the attempt that created it.    *)
(***************************************************************************)
EXTENDS Domain

CONSTANT Gateway   \* "fake" or "stripe"

ASSUME GatewayAssumption == Gateway \in {"fake", "stripe"}

VARIABLES
  intents,   \* intent -> status
  keyed      \* quote -> the intent created under the key auth:<quote>

gatewayVars == <<intents, keyed>>

IntentStatuses == {"none", "authorized", "captured", "voided"}

GatewayInit ==
  /\ intents = [i \in Rides |-> "none"]
  /\ keyed = [q \in Quotes |-> None]

\* The intent an authorize for ride r and quote q answers with.
PerRideKey(q, r) == r   \* mutant: the key is auth:<ride>
AuthorizeResult(q, r) ==
  IF Gateway = "stripe" /\ keyed[q] # None THEN keyed[q] ELSE r

Authorize(q, r) ==
  LET i == AuthorizeResult(q, r) IN
  /\ intents' = IF i = r THEN [intents EXCEPT ![r] = "authorized"] ELSE intents
  /\ keyed' = IF Gateway = "stripe" THEN [keyed EXCEPT ![q] = i] ELSE keyed

\* Stripe answers a second capture of the same ride (capture:<ride>) with
\* success; the fake gateway wants the intent still authorized.
CanCapture(i) ==
  \/ intents[i] = "authorized"
  \/ Gateway = "stripe" /\ intents[i] = "captured"

Capture(i) ==
  /\ intents' = [intents EXCEPT ![i] = "captured"]
  /\ UNCHANGED keyed

\* Stripe refuses to cancel a captured intent and repeats its answer for a
\* cancelled one (void:<ride>).  The fake gateway always answers voided, and
\* voids only what is authorized.
CanVoidAlways(i) == TRUE   \* mutant: Stripe as lenient as the fake
CanVoid(i) ==
  Gateway = "fake" \/ intents[i] \in {"authorized", "voided"}

Void(i) ==
  /\ intents' = IF intents[i] = "authorized"
                THEN [intents EXCEPT ![i] = "voided"] ELSE intents
  /\ UNCHANGED keyed
=============================================================================
