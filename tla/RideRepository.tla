--------------------------- MODULE RideRepository ---------------------------
(***************************************************************************)
(* The persistence port of the money flow and its two implementations: the *)
(* in-memory maps ("memory") and the Drizzle/PostgreSQL tables             *)
(* ("postgres").  An operation of the port that the store runs in one      *)
(* atomic piece (a statement, a transaction, or the body of an in-memory   *)
(* method, which no await interrupts) is one operator here.  What callers  *)
(* do between operations is in the services.                               *)
(*                                                                         *)
(* All drivers are registered, active and in the one active region, as     *)
(* DriverService leaves them.                                              *)
(***************************************************************************)
EXTENDS Domain, Ledger, Sequences

CONSTANT Store   \* "memory" or "postgres"

ASSUME StoreAssumption == Store \in {"memory", "postgres"}

VARIABLES
  quotes,    \* quote -> status, "none" before it is created
  rides,     \* ride -> row
  payments,  \* ride -> status of its payment row, "none" before there is one
  ledger,    \* the set of ledger entries
  pings,     \* ride -> the seq numbers of its pings, in insertion order
  located    \* the drivers that have reported a position

storeVars == <<quotes, rides, payments, ledger, pings, located>>

-----------------------------------------------------------------------------
RideStatuses ==
  {"absent", "offered", "accepted", "in_progress", "completed", "cancelled"}
PaymentStatuses == {"none", "authorized", "captured", "voided"}

\* otp: "none" before it is minted, "live" while otp_code is set and not
\* consumed, "consumed" after; tries is otp_attempts; started tells whether
\* started_at is set.
RideRows ==
  [status : RideStatuses, quote : Quotes \cup {None},
   driver : Drivers \cup {None}, intent : Rides \cup {None},
   otp : {"none", "live", "consumed"}, tries : Nat, started : BOOLEAN]

NoRow ==
  [status |-> "absent", quote |-> None, driver |-> None, intent |-> None,
   otp |-> "none", tries |-> 0, started |-> FALSE]

QuotedRow(q, i) ==   \* mutant: created in the seed's status
  [NoRow EXCEPT !.status = "quoted", !.quote = q, !.intent = i]
OfferedRow(q, i) ==
  [NoRow EXCEPT !.status = "offered", !.quote = q, !.intent = i]

Active == {"accepted", "in_progress"}

Present(r) == rides[r].status # "absent"
BusyOn(d, r) == rides[r].driver = d /\ rides[r].status \in Active
Busy(d) == \E r \in Rides : BusyOn(d, r)

StoreInit ==
  /\ quotes = [q \in Quotes |-> "none"]
  /\ rides = [r \in Rides |-> NoRow]
  /\ payments = [r \in Rides |-> "none"]
  /\ ledger = {}
  /\ pings = [r \in Rides |-> << >>]
  /\ located = {}

-----------------------------------------------------------------------------
InsertQuote(q) ==
  /\ quotes[q] = "none"
  /\ quotes' = [quotes EXCEPT ![q] = "active"]
  /\ UNCHANGED <<rides, payments, ledger, pings, located>>

UpdateDriverLocation(d) ==
  /\ located' = located \cup {d}
  /\ UNCHANGED <<quotes, rides, payments, ledger, pings>>

AvailableDrivers == {d \in located : ~Busy(d)}

\* UNIQUE (idempotency_key) and UNIQUE (gateway, intent_id) on payments.  The
\* key is auth:<quote>.  The in-memory store checks neither.
NoUniqueIndex(q, i) == FALSE   \* mutant
UniqueViolation(q, i) ==
  /\ Store = "postgres"
  /\ \E r \in Rides : Present(r) /\ (rides[r].quote = q \/ rides[r].intent = i)

\* Insert the ride, its payment and the hold, and consume the quote.
PersistAuthorization(r, q, i, g) ==
  /\ rides' = [rides EXCEPT ![r] = OfferedRow(q, i)]
  /\ payments' = [payments EXCEPT ![r] = "authorized"]
  /\ ledger' = Post(ledger, AuthorizationPostings(g, r, Fare))
  /\ quotes' = [quotes EXCEPT ![q] = "consumed"]
  /\ UNCHANGED <<pings, located>>

PersistCaptureUnpaid(r, d, g) ==   \* mutant: the payment is left as it was
  /\ rides' = [rides EXCEPT ![r].status = "completed"]
  /\ ledger' = Post(ledger, CapturePostings(g, r, d, Fare))
  /\ UNCHANGED <<payments, quotes, pings, located>>
PersistCapture(r, d, g) ==
  /\ rides' = [rides EXCEPT ![r].status = "completed"]
  /\ payments' = [payments EXCEPT ![r] = "captured"]
  /\ ledger' = Post(ledger, CapturePostings(g, r, d, Fare))
  /\ UNCHANGED <<quotes, pings, located>>

PersistVoid(r, g) ==
  /\ rides' = [rides EXCEPT ![r].status = "cancelled"]
  /\ payments' = [payments EXCEPT ![r] = "voided"]
  /\ ledger' = Post(ledger, VoidPostings(g, r, Fare))
  /\ UNCHANGED <<quotes, pings, located>>

\* The where-clause of the compare-and-set that acceptOffer and assignDriver
\* share (the offer's deadline is the services' business).  It sets the
\* driver, the status and a fresh OTP.
ClaimableByExistence(r) == Present(r)   \* mutant: trust the pre-checks
Claimable(r) == rides[r].status = "offered" /\ rides[r].driver = None

Claim(r, d) ==
  /\ rides' = [rides EXCEPT ![r].status = "accepted", ![r].driver = d,
                            ![r].otp = "live", ![r].tries = 0]
  /\ UNCHANGED <<quotes, payments, ledger, pings, located>>

\* updateRide is unconditional: whatever the row holds now is overwritten.
StartRide(r) ==
  /\ rides' = [rides EXCEPT ![r].status = "in_progress", ![r].started = TRUE,
                            ![r].otp = "consumed"]
  /\ UNCHANGED <<quotes, payments, ledger, pings, located>>

SetTries(r, n) ==
  /\ rides' = [rides EXCEPT ![r].tries = n]
  /\ UNCHANGED <<quotes, payments, ledger, pings, located>>

\* recordPing: the next seq is one more than the largest seen, and
\* UNIQUE (ride_id, seq) refuses a second ping with the same one.
IsNextSeq(r, n) ==
  LET seen == {pings[r][k] : k \in DOMAIN pings[r]}
  IN  (n = 1 \/ n - 1 \in seen) /\ \A m \in seen : m < n
AnySeqFree(r, n) == TRUE   \* mutant: no unique index
SeqFree(r, n) == \A k \in DOMAIN pings[r] : pings[r][k] # n

InsertPing(r, n) ==
  /\ pings' = [pings EXCEPT ![r] = Append(@, n)]
  /\ UNCHANGED <<quotes, rides, payments, ledger, located>>
=============================================================================
