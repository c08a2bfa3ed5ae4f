# RideNow in TLA+

A formal model of the RideNow API (`src/apps/api`): what happens to a ride, to the
rider's money, to the drivers and to logins when requests overlap, repeat, fail
half-way or meet a deadline. The modules are translated from the TypeScript sources; the
`map` of `PROJECT.json` names the lines behind every definition.

## 1. The system

RideNow is a zero-commission ride service for one launch region: a NestJS API
over a repository port (in-memory maps or PostgreSQL through Drizzle) and a
payment port (a deterministic fake or Stripe), with a rider and a driver web
app in front.

| Component | State | Operations that change it | Correct when |
|---|---|---|---|
| Ride service (`rides/ride.service.ts`) | none of its own: the rows it reads live across awaits in a handler's locals | `confirm`, `accept`, `startTrip`, `complete`, `cancel` | a quote becomes one ride, money and status agree, terminal statuses are final |
| Ride repository (`persistence/*`) | quotes, rides, payments, ledger entries, pings, driver positions | `insertQuote`, `persistAuthorization/Capture/Void`, `acceptOffer`, `assignDriver`, `updateRide`, `recordPing`, `updateDriverLocation` | each write is atomic; the unique keys and the compare-and-set stop what the callers' early reads cannot |
| Ledger (`ledger/*`) | the append-only entries | three posting groups, inserted with ON CONFLICT DO NOTHING | every ride balances, the driver is credited the whole fare exactly once |
| Payment gateways (`payments/*gateway*.ts`) | intents; at Stripe, the idempotency keys | authorize, capture, void | a hold ends captured or voided, never both |
| Dispatch (`dispatch/dispatch.service.ts`) | drivers' positions (repository) | location report, `assign` (named driver or greedy) | no driver on two active rides |
| GPS ingest (`gps/gps.service.ts`) | the ping trail (repository) | one ping | numbered 1, 2, 3, ..., only for a started trip |
| Earnings (`earnings/*`) | none: derived from the ledger | reads only | take-home is the captured fare |
| Quotes, fares, routing, money | quotes (repository) | quote creation; pure pricing | an integer-cent total, locked |
| Drivers (`drivers/driver.service.ts`) | drivers (repository) | `register`, `onboard`: one upsert | a phone is one driver, always active, in the launch region |
| Repeat liquidity (`dispatch/repeat-liquidity.service.ts`) | none | a pure count over completed rides | it counts who completed two rides within a week |
| Authentication (`auth/*`) | users, login codes, sessions | `requestOtp`, `verifyOtp`, `refresh`, `logout` | guesses and sends are limited, a phone is one user, a code signs in once, a rotated token is dead |
| Saved cards (`payments/payment-method.service.ts`) | cards | `save` (`list` reads) | the card saved last is the default, and the only one |
| Wiring and configuration (`config/*`, `core.module.ts`) | none | checks the environment, picks store and gateway | real money only on opt-in |
| HTTP layer, guards, web apps | none on the server | - | - |

### How the parts interact

A request enters through a controller and runs one service method. The method
awaits the repository and the gateway and keeps what it read in local variables.
Node runs one handler at a time from one `await` to the next; at an `await` any
other handler may run. PostgreSQL makes each statement or transaction atomic, and
its row locks make some of them wait. Accounts (logins, cards, drivers) live in tables of
their own and share with the ride flow only ids: `confirm` reads the default card, and
dispatch reads the drivers. The gateway is called *before* the store
is written: the hold before the ride is inserted, the capture before the ride is
completed, the void before it is cancelled. There is no queue, no background job and no retry in
the server: a handler that dies leaves what it had done, and only the client's next
request can repair it.

### What is hard here

- **Stale reads.** Each handler checks a row, awaits, then writes. `startTrip`'s
  write checks nothing any more, `persistCapture` and `persistVoid` neither; only
  `acceptOffer` and `assignDriver` are compare-and-set.
- **Two systems, no transaction across them.** What the gateway did and what the
  books say can differ while a handler is between the two, and for as long as it
  stays dead.
- **Retries.** A second confirm of a quote, or a second completion, must be
  absorbed by idempotency keys at the gateway and unique keys in the store.
- **Two doors to one assignment.** `accept` and `assign` share the compare-and-set
  of the ride, and only `assign` looks at the driver. They take the two rows in opposite
  order.
- **Deadlines** of quotes, offers and trip codes, read before a wait and used after.
- **Limits that are counted first.** The codes sent to a phone and the wrong guesses at a
  code are read, compared and then written, with an await in between.
- **Check-then-insert.** A first login and a registration look for a row and then insert one;
  only a unique key separates two of them.
- **Single use.** `refresh` finds a session live and `verifyOtp` finds a code unconsumed; the
  write that uses it up does not ask again.

`PROJECT.json` lists each hazard at its line, with the properties that would
notice, or with the reason why none does yet.

## 2. The modules

    Domain            constants and deadlines
      Ledger          postings, idempotent insert, derived amounts (no state)
      RideRepository  quotes, rides, payments, ledger, pings, located
      PaymentGateway  intents, keyed
    TripTransitions   the transition table
        RideService       req, lapsed: the handlers of rides/ride.service.ts
          DispatchService   location reports and assign
          GpsService        pings
            RideNow         Next, the fairness, the properties, the invariant
              MCRideNow       symmetry, for TLC
              RideNowProofs   the inductive invariant, its frames, and what follows from it
                TripProofs      pings, statuses, assignment
              Earnings        view: the trip's views, read while all this goes on
                MCEarnings      symmetry, and the pure algorithms on bounded inputs
                MoneyProofs     (also over RideNowProofs) sums, books, settlement, holds, views
    Settlement, TripLifecycle   abstract specifications that RideNow implements

    AuthRepository    users, otps, sessions, cards, drivers
      AuthService       req, now: the handlers of auth/auth.service.ts
        PaymentMethodService  save, with its row locks
        DriverService         register, onboard
          Accounts        Next, the properties, the invariants
            MCAccounts      symmetry, for TLC
            AccountsProofs  theorems and proofs
    LoginFamily       abstract specification that Accounts implements
      LoginFamilyProofs

    RepeatLiquidity, Fares, Config   algorithms without a state, each with its proofs

**State.** `rides[r]` is the row of a ride (status, quote, driver, intent, the state of
its trip code, the wrong attempts, whether it was started); `payments`, `quotes`,
`ledger`, `pings` and `located` are the other tables; `intents` and `keyed`
are the gateway's intents and its idempotency keys. `lapsed` is the set of deadlines
the clock has passed, which is all the code asks of the clock.

**Handlers.** `req[c]` is the handler that works on request `c`: the position of its next
step and the locals it will use there. A handler is cut exactly at the awaits
that matter:

| Handler | Actions, in order |
|---|---|
| `confirm` | `Confirm` (checks), `ConfirmAuthorize` (gateway), `ConfirmPersist` (transaction) |
| `accept` | `Accept` (checks and clock), `AcceptOffer` (compare-and-set); `AcceptCommit` when it had to wait for the driver's row |
| `startTrip` | `StartTrip` (checks, code right or wrong), `StartTripWrite` or `WrongOtpWrite` |
| `complete` | `Complete`, `CompletePayment` (reads the payment), `CompleteCapture`, `CompletePersist` |
| `cancel` | `Cancel`, `CancelVoid`, `CancelPersist` |
| `assign` | `AssignTo` or `AssignGreedy` then `Rank`; per candidate `TryClaim`, `LockDriver`, `AssignDriver`; `Escalate` when nobody is left |
| ping | `Ping`, `PingSeq`, `PingInsert` |

A handler that rejects before it has changed anything is a call the model does not
make. `GatewayRefuses` is a gateway that throws: a decline, an outage, or Stripe's
refusal to reuse an idempotency key with other metadata (a second confirm of a quote sends
another ride id). `Abort` is a handler that never resumes: the connection or
the process died between two steps. The death of the process is that step for
every handler. A step whose effect happened but whose answer was lost is that step
followed by `Abort`. In-memory state would die with the process, so `Faults` is allowed
only for PostgreSQL with Stripe (`FaultsAssumption`).

**The two stores and the two gateways** are constants, as the wiring (`core.module.ts`)
chooses them apart. In memory, a repository method is one turn of the event loop: the
claim checks the deadline, the driver and the ride at once. In PostgreSQL
`assignDriver` is a transaction that waits for the driver's row (`FOR UPDATE`),
reads the driver's active rides, then updates the ride; `acceptOffer` is one update,
which holds the ride's row (`RowHeld`) while the foreign key it sets waits for the driver's
row (position `driverKey`). Every other update of that ride waits for it, and a driver's row
that is locked makes a position report and the credit of a capture wait (`CreditWaits`). An
accept and an assign of one ride to one driver may so wait for each other. PostgreSQL finds
the cycle (`Deadlocked`) and aborts one of the two, either one; `DeadlockAbort` is that error
leaving the handler, since nothing in the code catches it or tries again.
The fake gateway ignores idempotency keys and answers `voided` whatever the intent
is; Stripe repeats its first answer for a key and refuses to cancel a captured intent.

**Abstractions.** An intent is named after the ride id of the confirm that
created it. A random ride id is one nobody uses (`FreshRide`). A posting's group is the
request that posted it: it distinguishes the groups in flight, and nothing in the code
reads it back. All rides cost one positive fare. Candidates of the greedy
dispatch may be tried in any order (their distances are left out). A confirm comes from
the rider of its quote and an accept from an active driver of the region, as their handlers
demand; role checks sit in front of the services.

**Views.** The receipt, the earnings of a trip and its take-home ledger are read piecemeal: the
ride, then its payment, then its ledger (`ReadRide`, `ReadPayment`, `ReadLedger` of
`Earnings`). `view` holds what was read so far. A view changes nothing that the ride flow looks
at, so one reader at a time sees all that any could.

### Accounts

`otps[o]`, `sessions[s]`, `cards[k]` and `drivers[d]` are rows, `users[u]` is the phone of a
user. `now` is the clock, `req[c]` a handler's position and locals, as above. The rows carry
history that the code does not store and no action reads: `guesses` counts the wrong
guesses judged against a code, `newest` is the card a rider saved last, and a session's `code`
and `from` are the login code it goes back to and the session it replaced.

| Handler | Actions, in order |
|---|---|
| `requestOtp` | `RequestOtp` (clock, count of the window's sends), `RequestOtpInsert` |
| `verifyOtp`, wrong code | `VerifyOtp` (latest code, lockout, expiry), `FailAttempt` |
| `verifyOtp`, right code | `VerifyOtp`, `ConsumeCode`, `FindUser`, `VerifyCreateUser` when there is none, `IssueSession` |
| `refresh` | `Refresh` (session live and not expired), `RefreshRotate` (one transaction) |
| `logout` | `Logout`, `LogoutRevoke` |
| `save` | `SaveCard` (rows to clear), `LockCards` in PostgreSQL, `SaveCardInsert` |
| `register`, `onboard` | `RegisterDriver` (looks for the phone), `UpsertDriver` |

The read of the clock and the first read of the database are one step with the arrival: what
other handlers do between the two is the same as if the clock had been read a little earlier, and
`now` may stand still. In PostgreSQL a card save is a transaction: its UPDATE takes the rows
its snapshot shows and waits for those another save holds (`FreeFor`); its INSERT waits for a
conflicting row; rows committed after the snapshot are not cleared. In memory one request is
done before the next is read (`AuthTurnAssumption`), because nothing such a handler awaits
leaves the process before its last write. Hashes, digits and token signatures are abstracted to what they decide:
a code is right or wrong, and to present a refresh token is to name its session.

`Fares` prices a route in integers. `Math.round` of a product of floats differs from exact rounding
only where the exact value is a half: `BelowHalf` is the set of products that then fall short of
it (`1.005 * 100` does), and the theorems hold whatever this set is. `RepeatLiquidity` is the metric
with its search among neighbours in completion order, and `Config` is what `loadEnv` and
`assertStripeMode` refuse to start with.

### Abstract specifications

`Settlement` says what becomes of a ride's hold (placed once,
then captured *or* voided). `TripLifecycle` says how a status may move (along
`TRIP_TRANSITIONS`). `RideNow` implements the first by the map `HoldOf`, which reads the
hold off the ledger, and the second by the status column. `LoginFamily` says what a login
promises: a code signs in once, and the sessions that go back to it replace each other, one live
at a time. `Accounts` implements it, one request at a time, by the code of each session and
the set of live sessions.

## 3. The properties

*Money.* `LedgerBalanced`: every ride's postings sum to zero, whatever is posted twice.
`CaptureIsBacked`: the books never claim a capture the gateway did not make.
`TakeHomeExact`: the driver on the ride is credited the fare once, exactly when
it was captured, and nobody else is. `SettledOnce` and `ImplementsSettlement`: a hold
is released once. `MoneyAgrees`: a completed ride is paid, and a cancelled one is not, in the
ride, the payment, the ledger and the gateway alike. `NoOrphanHold`: no open hold without a ride
or a handler that still answers for it. `CaptureGetsBooked`: captured money is booked in the
end. `ActiveRideIsPayable`: a driver on the way or on a trip can be paid.

*Rides.* `OneRidePerQuote`, `DriverKeepsRide` (nobody takes a ride from the driver
who has it), `NoDoubleAssignment`, `TerminalIsFinal`, `ImplementsTripLifecycle`.

`ClaimsAreFresh`: one request at a time, nobody gets a ride whose offer has lapsed.

*Pings.* `PingSeqContiguous`, `PingsNeedTripStart`.

*Views.* `YouKeepIsFare`: the driver of a trip who opens its take-home view is told the whole fare,
wherever the completion falls between the three reads. (It holds because the payment is
read before the ledger; the other order is one of the mutants.) `ViewsAgree`: a receipt or an
earnings view goes with the status it shows: a completed trip's receipt says captured and
charges what the ledger credits its driver, its earnings are the fare, and a cancelled trip's
receipt does not say captured. What a cancelled trip's receipt shows as *charged* is the fare, as
in the code, and the property says nothing of it (see the disagreements). `SummaryAddsUp`: a driver's summary is the fare
of each trip it counts.

*Logins.* `OneUserPerPhone`; `SessionIsBacked`: a session, however often refreshed, belongs to the
user whose phone its code was sent to, and that code is spent; `NoEarlyLockout`: no code counts
more attempts than wrong guesses were made at it; `SendsNearlyBounded`: racing requests get past the
send limit by one code each at most. One request at a time the limits are exact (`GuessesBounded`,
`SendsBounded`), a locked code keeps the phone's older codes out (`LockoutHolds`), and
`ImplementsLogin`.

*Cards and drivers.* `NewestIsDefault`: racing saves may leave two defaults, but never none, and the
last one saved is among them; `DefaultIsNewest`: one save at a time it is the only one, also when
the card was saved before; `OneRowPerToken`, `OneDriverPerPhone`.

*Progress.* `RequestsAreAnswered`: no handler waits forever for a row. The cycle between an accept
and an assign is one PostgreSQL breaks; a handler that took the abort as a reason to try again could
meet its partner in it forever (the mutant).

## 4. The runs

| Run | Instance | Shows |
|---|---|---|
| `settle` | PostgreSQL, Stripe, deaths; 1 quote, 2 rides, 2 drivers, 3 requests | the money properties, `OneRidePerQuote`, `DriverKeepsRide`, `ImplementsSettlement`, the inductive invariants `IInv` and `LedgerInv` |
| `answered` | PostgreSQL, Stripe, no deaths, fair; 1 quote, 2 rides, 1 driver, 2 requests | `NoOrphanHold` with its inductive invariant `HoldInv`, `CaptureGetsBooked`, `RequestsAreAnswered` with the lock cycle of accept and assign, and `IInv` under those waits |
| `dispatch` | PostgreSQL, deaths; 2 quotes, 2 rides, 2 drivers, 2 requests; `accept` off | `NoDoubleAssignment`, when only the operator assigns; `SummaryAddsUp`, over two trips of one driver |
| `serial` | in memory, fake gateway; 2 quotes, 2 rides, 2 drivers, 1 request; every operation | `ImplementsTripLifecycle`, `ActiveRideIsPayable`, `ClaimsAreFresh` |
| `pings` | PostgreSQL, Stripe, deaths; 1 ride, 3 requests, 3 pings, 1 reader of views | `PingSeqContiguous`, `PingsNeedTripStart`, `YouKeepIsFare`, `ViewsAgree` with their inductive invariant `ViewInv`; the bounded checks of `RepeatLiquidity` and `Fares` |
| `signin` | PostgreSQL, deaths; 2 phones, 3 codes, 2 sessions, 3 cards, 2 requests | what logins, card saves and registrations keep whatever they race with, and their inductive invariant |
| `accounts` | in memory; 2 phones, 3 codes, 3 sessions, 3 cards, 1 request | the exact limits, `ImplementsLogin`, `DefaultIsNewest`, the serial invariant |
| `resurrect` | PostgreSQL, Stripe; 1 ride, 2 requests | `TerminalIsFinal` is violated |
| `cancel_race` | PostgreSQL, fake gateway; 1 ride, 2 requests | `SettledOnce` is violated |
| `double_booked` | PostgreSQL, Stripe; 2 rides, 1 driver, 1 request | `NoDoubleAssignment` is violated |
| `refresh_race` | PostgreSQL; 1 phone, 3 sessions, 2 requests | `RefreshIsSingleUse` is violated |
| `lockout` | in memory; 1 phone, 2 codes, 1 request | `LockoutIsOfPhone` is violated |

**Why these bounds.** Requests in flight are what counts. A race of this code is between a
handler's read and its write, and another handler's write in between; two requests
make it, and three let a third party act on the result (`settle`: a completion racing a
cancellation while a trip start is still in flight). Requests come and go without limit, so
the sequences of calls are unbounded even where only one or two overlap. Two ride
ids and one quote make the double confirm; two drivers make the accept race; two
rides and two drivers make a double assignment. The ledger has at most nine entries a
ride, because of its unique key. `MaxPings` bounds the trail: 3 pings of 3 handlers let
all of them compute the same number. `Fare = 3` is any positive amount. `MAX_OTP_ATTEMPTS`
is the code's 5, and bounds the attempts. `serial` has one request because the in-memory
implementations answer in microtasks: a handler over them reaches its end before the
next HTTP request is looked at, as in the repository's tests. `answered` has one ping (`MaxPings
= 1`) with two requests, so two pings still collide on the number.

**Bounds of accounts.** The ids of rows bound the arrivals: a request that stores a row comes in
only while an id is free (`Arrive`), and handlers in flight that find none wait, which no
property depends on. Three codes with a window of 1 let a phone get past the limit and let a
fresh code follow a locked one; three sessions make a chain of rotations; three cards make two racing
saves over a card that exists, and a card saved again. `OtpTtl`, `SendWindow`, `SendMax`,
`MaxAttempts` and `RefreshTtl` are 1 or 2, so that the clock, which stops at `MaxTime`, crosses
each of them. `Workloads` names the sets of operations that the clients of one behaviour
use. Logins and cards meet through a user, logins and refreshes through a session; registrations
meet nothing but each other. One run over the union of workloads has the sum of their states, where
one over all operations at once would have their product; each pair of operations that touch a
common row is in one workload.

**Deadlock** is not looked for: with its quotes used or lapsed and its rides over, an
instance rests. That no handler is stuck is `RequestsAreAnswered`.

**Fairness.** `FairSpec` assumes strong fairness of each handler's own next step.
The event loop resumes every handler whose await was answered, in order, and the
database grants a row lock to those who wait in the order they asked. Strong, because a
lock may be taken and freed by others many times while one handler waits. The abort of a deadlock
is such a step of the handler it ends: PostgreSQL looks for a cycle after `deadlock_timeout`. Nothing is assumed
of clients, of the clock, of refusals or of deaths: the properties must hold if no
other request ever comes. Nothing is assumed of accounts at all: they have no liveness
property, since each of their handlers is a straight line with at most a lock on the way, and
an abandoned login owes nothing. `answered` excludes deaths, because after one only a client's
retry books the capture or finds the hold again, and no client owes that.

**Disagreements.** Five runs contradict what the repository says of itself, and each
is a finding with the quoted line in `PROJECT.json`:

- `resurrect`: the type's comment calls `completed` and `cancelled` terminal. `startTrip`
  checks a row, awaits, and then writes `in_progress` over whatever is there. If the
  completion lands in between, a paid ride is in progress again, with its code consumed.
- `cancel_race`: the repository port says ride state and ledger never diverge, and a
  cancelled ride nets to zero. With the fake gateway (the default one) a cancel
  that read the ride before its completion gets its void answered, and books it on top of the
  capture. With Stripe the void is refused, and `SettledOnce` holds (`Settled`, below).
- `double_booked`: the claim promises that no driver is double-assigned. `accept` does not
  look at the driver's other rides. Without `accept` the promise holds (`dispatch`, and
  `AssignedOnce` below for every instance without racing trip starts).
- `refresh_race`: the schema calls a refresh token strictly single-use. `refresh` finds the
  session live, awaits, and `rotateSession` revokes by id without asking again: two
  refreshes with one token both get a new session. One at a time, `ImplementsLogin` holds.
- `lockout`: the repository port says that a new code cannot reset the lockout, and that callers
  gate on the failed attempts of the whole window. `verifyOtp` gates on the row of the latest
  code, and nothing calls the count (`FailedSince`): one request at a time, a fresh code
  opens the phone again.

Two more need no run, since no interleaving is part of them:

- The receipt documents `amountChargedCents` as "What was actually charged"
  (`ride.service.ts:80`), and the code sets it to the fare whatever the ride's status (`:509`): the
  receipt of a cancelled ride, whose hold was voided, shows the whole fare under "Charged"
  (`rider-web/app/page.tsx:233`). `ReadRide` has it, and `ViewsAgree` leaves that case out.
- `.env.example:4` says that production rejects placeholder and dev secrets at boot. `loadEnv` rejects
  `PLACEHOLDER_SECRETS`, and the development signing key is not one of them
  (`DevelopmentKeyBoots`).

## 5. The proofs

### The ride flow

`RideNowProofs` proves, for every set of quotes, rides, drivers and requests, for both
stores, both gateways and any selection of operations:

| Theorem | Says |
|---|---|
| `Invariance` | `Spec => []IInv` |
| `TypeCorrect` | `Spec => []TypeOK` |
| `CaptureBacked` | `CaptureIsBacked`, with either gateway |
| `Settled` | with Stripe, `SettledOnce` |
| `MoneyConsistent` | with Stripe, `MoneyAgrees` |
| `OneRide` | in PostgreSQL, `OneRidePerQuote` |
| `DriverKept` | `DriverKeepsRide` |

**Assumptions**: `NoneAssumption` (null is no key), `FareAssumption` (a positive
fare), `StoreAssumption`, `GatewayAssumption`, `MaxPingsAssumption`, `FaultsAssumption`.
TLC evaluates all of them in every run.

**The inductive invariant.** None of the properties is inductive: a handler's last
write depends on what it read several steps earlier. `IInv` adds what every handler in
flight may rely on:

- `CallRefs`: a confirm holds a ride id that is in no table; any other handler refers
  to a ride that exists.
- `CallMoney`: a handler has the driver and the intent its ride has; one about to book a
  capture has captured it; one about to book a void has, with Stripe, voided it. The ride whose
  row an accept holds is still free (`HoldsRow`): its claim may be written after the wait.
- `Reserved`: no two handlers share the ride id of a confirm. Without it, a second insert
  could overwrite a row that others refer to.
- `RowOK`, `KeyOK`, `EntryOK`: a row's intent and a key's intent exist at the gateway, and an entry
  of the ledger belongs to a ride and is backed by the gateway.
- `OneRidePerQuote`, for the unique key on `payments.idempotency_key`.

`SettledOnce` then follows from `EntryOK` at once: a capture and a void on the books of one
ride would need one intent both captured and voided. Most of the proof is frames: a
lemma per kind of step (`RequestFrame`, `HandlerFrame`, `FinishFrame`, `WriteFrame`, `GatewayFrame`)
says what is enough for a step of that kind to keep `IInv`, and one lemma per action applies it. A
write to a row needs that no accept holds it (`RowIsFree`), which is why the waits are in the model.
`WritesAreGuarded` says under which condition each field of a row may change.

`MoneyAgrees` is inductive only together with `IInv`: `MoneyStep` shows that the writes that
end a ride set all four places, that no later step of the gateway changes
a settled intent (`GatewayKeeps`), and that entries of other rides do not count
(`PostedIsThere`, `NotPostedElsewhere`). A late void of a captured ride, which would contradict
it, cannot be reached: its handler would be at `persistVoid` with a voided intent.

### The money

`MoneyProofs` proves, in the same generality and under the same assumptions:

| Theorem | Says | When |
|---|---|---|
| `LedgerInvariance` | `Spec => []LedgerInv` | always |
| `LedgerBalances` | `LedgerBalanced` | always |
| `TakeHome` | `TakeHomeExact` | always |
| `SummaryAdds` | `SummaryAddsUp` | always |
| `SettlementImplemented` | `ImplementsSettlement` | Stripe |
| `HoldInvariance`, `NoHoldForgotten` | `HoldInv`, `NoOrphanHold` | Stripe, no deaths |
| `ViewInvariance` | `ViewSpec => []ViewInv` | always |
| `DriverIsToldTheFare` | `YouKeepIsFare` | always |
| `ViewsAreConsistent` | `ViewsAgree` | Stripe |

**Sums.** `Net` is a fold of the community modules, which is a recursive function chosen
by CHOOSE. That it exists on every finite set, is the only one (`SumExists`, `SumIsUnique`), and that
an entry can be taken out of the sum wherever it stands (`TotalRemove`), is shown by
minimal counterexample: a set of subsets of a finite set has a smallest member (`SmallestSubset`, from
the well-foundedness of strict inclusion). From there on `NetAdd` is all that is used: adding
an entry that is not there adds its amount.

**`LedgerInv`** says what the books of a ride look like: an authorization group, perhaps a
capture group, perhaps a void group, each whole and from one request, the capture in favour of the
driver on the ride (`BooksOK`); and a payment marked captured or voided has its group.
`LedgerBalanced` itself is not inductive, since a
balanced ledger may still hold half a group that the next insert completes badly. `PostCapture` and
`PostVoid` show that an insert adds the whole group or nothing, because all entries of a group
collide on the unique key, or none does. The ledger is then balanced because each group is
(`GroupsBalance`), a driver is credited once because there is one capture group
(`GroupsTakeHome`), and the summary over rides counts one fare for each (`CreditsCount`, again by
minimal counterexample). `LedgerInv` allows a capture *and* a void, which the fake gateway can
reach (`cancel_race`): the ledger balances even then.

**Settlement.** `HoldOf` moves only with the three writes that post a group (`HoldMoves`): the insert
of the ride places the hold, and with Stripe `IInv` shows that a capture finds no void on the books and
the other way round, so each is a step of `Settlement`, and a repetition is a stutter.

**`HoldInv`** follows a hold from the gateway to the store: the idempotency key of a quote leads to one
intent, every ride of the quote has it, and an authorized intent belongs to a ride that is there or to
a confirm about to insert it. A death is excluded because it leaves exactly such an intent with
nobody; the fake gateway because it makes a new intent for each confirm of a quote.

**`ViewInv`** says that what a view has read stays true behind its back. The driver of a ride never
changes (`WhoMoves`), a captured ride stays captured (`BooksGrow`), and with Stripe the
payment of a ride that was over stays what it was (`SettledPaymentStays`). So a view that saw the
payment captured finds the credit when it comes to the ledger.

### The trip

`TripProofs` proves:

| Theorem | Says | When |
|---|---|---|
| `PingsAreContiguous` | `PingSeqContiguous` | always |
| `PingsAreOfTrips` | `PingsNeedTripStart` | always |
| `ActiveIsPayable` | `ActiveRideIsPayable` | one request at a time |
| `TripsImplemented` | `ImplementsTripLifecycle` | one request at a time |
| `ClaimsFresh` | `ClaimsAreFresh` | in memory, any number of requests |
| `AssignedOnce` | `NoDoubleAssignment` | no `accept`; trip starts one at a time, or none |

- `PingInv`: a number that a handler took is at most the next one, whatever others inserted
  since, so the unique index either refuses it or it is the next one. A ride of a waiting ping
  was started, and `started` is never taken back.
- `TripInv`: one request at a time, the status a handler looked at is the status it writes over
  (`Looked`), so each write is a row of `TRIP_TRANSITIONS`, and the hold of a ride that is not over is open. With two requests this fails, and `resurrect`
  shows how.
- `ClaimsFresh` needs only that no handler in memory waits for a lock: the deadline and the claim
  are one turn of the event loop. `serial` checks it with one request; the theorem has no such bound.
- `AssignInv`: whoever is at `assignDriver` holds the only lock on its driver, and the driver is free
  until it writes (`LocksAFreeDriver`, `AssignStands`). Both conditions are needed: an `accept`
  takes a busy driver (`double_booked`), and a start that races a cancel or a completion makes a ride active
  again whose driver may have been assigned since (`resurrect`). `dispatch` is the first case: two
  assignments, completions and cancellations race, and no trip is started.

### Accounts

`AccountsProofs` proves, for every set of ids, both stores, every limit and every number of requests
at work:

| Theorem | Says |
|---|---|
| `Invariance` | `Spec => []AccountInv` |
| `PhoneIsOneUser`, `PhoneIsOneDriver` | `OneUserPerPhone`, `OneDriverPerPhone` |
| `SessionBacked` | `SessionIsBacked` |
| `LockoutIsEarned` | `NoEarlyLockout` |
| `LastCardIsDefault` | `NewestIsDefault` |
| `CardIsOneRow` | in PostgreSQL, `OneRowPerToken` |
| `CodeIsGuarded` | one request at a time, `GuessesBounded` |
| `SendsAreNearlyBounded` | for any finite number of requests, `SendsNearlyBounded` |
| `SerialHolds` | `SerialInv` |
| `SendsAreBounded` | one request at a time, `SendsBounded` |
| `LockoutStands` | one request at a time, `LockoutHolds` |
| `DefaultIsLast` | one request at a time, `DefaultIsNewest` |
| `LoginImplemented` | one request at a time, `ImplementsLogin` |

**Assumptions**: `AuthNoneAssumption`, `AuthStoreAssumption`, `AuthTurnAssumption` (in memory, one
request at a time), `AuthEnvAssumption` (limits are natural numbers), `AccountFaultsAssumption`.

**`AccountInv`** is `TypeOK`, the properties, and what a handler in flight relies on (`CallOK`):
a verification has a code of its phone in hand, spent before the user or the session is touched; a
first login in memory still finds no user; a wrong guess writes no more than the guesses made; a save
clears cards of its own rider only. `NewestIsOwn` strengthens `NewestIsDefault`: the last card is
also the rider's own, so another rider's save cannot clear it. Why it survives a race is
the heart of the proof: a save clears what its snapshot showed, and the last card saved is either
not in it or held by the save that wrote it until its commit.

The handlers that do not move are one frame: rows only grow (`Grow`: a row, its owner, a spent code
and a guess are never taken back), and what `CallOK` says is kept while they do (`OthersKeep`).
So each action needs only its own call's new position and the facts about the rows it wrote.

**`SerialInv`** adds, when calls do not overlap, that what a handler read still holds when it writes
(`SerialOK`). With it, each action of `Accounts` is a step of `LoginFamily` or a stutter:
`IssueSession` signs in, `RefreshRotate` rotates, `LogoutRevoke` signs out (`SignsIn`, `Rotates`,
`SignsOut`). It holds only under `Serial`, and `refresh_race` shows why.

**`ReadInv`** adds that a verification spends the newest code of its phone and a save clears all
cards of its rider, which is what keeps an older code out after a lockout (`LockoutStands`)
and leaves one default card (`DefaultIsLast`).

**`SendInv`** counts: in any window of a phone, the codes sent and the requests that counted
and are about to insert are together at most `SendMax` plus the other requests at
work. A request that gets past the count found fewer than `SendMax` codes, and no more requests
can be about to insert than there are at work. The insert moves one from the second number to
the first. With one request at a time the excess is zero: `SendsAreBounded` is the same lemma.

### The rest

| Theorem | Says |
|---|---|
| `OneDoorPerCode` | in everything that implements `LoginFamily`, one live session per code |
| `NeighboursSuffice` | the search among neighbours finds every subject with two rides within the week |
| `FurtherIsNotCheaper` | a longer route never costs less, although each component is rounded alone |
| `FareIsPositive` | a quote is positive as soon as the base fare or the booking fee is |
| `RealMoneyIsOptIn` | a process that starts and can move real money had the opt-in, live mode and a live key |
| `ProductionSecretIsGiven` | in production the signing key was given, is no placeholder, and is the one used |
| `DevelopmentKeyBoots` | the development key, given explicitly, is accepted in production |

`NeighboursSuffice` takes an order of the rides by completion time (`Ordered`) as given: that
`ByTime` finds one for every finite set would need induction, and TLC finds it in `RepeatsChecked`.
Its argument: if two completions lie within the week, the later one's neighbour lies
between them. `FurtherIsNotCheaper` composes monotone
roundings: a half that falls short still rounds to no less than anything below it; `FareIsPositive` leaves the one
case the code allows and the ride flow does not survive: both fees at zero.

### Only model-checked

- `CaptureGetsBooked` and `RequestsAreAnswered` are liveness properties under strong fairness,
  out of the prover's reach.
- `RepeatsChecked` and the other bounded checks of pure algorithms compare recursive
  definitions with a reference on all small inputs.
- The five violated properties: a counterexample needs no proof.

## 6. What is not modelled

- **The pages of the web apps**: clients of the API. Whatever they send is some interleaving
  of the requests that the model lets come in. The rider page has steps of its own (it cannot leave
  a quote that was used or has lapsed); that is listed as a hazard and planned.
- **HTTP layer, guards, health, clock, seed**: argument parsing, role checks and error mapping, with
  no state the properties could speak of.
- **What a token or a hash is**: signatures, digits, HMACs. A code is right or wrong. The SMS
  channel comes last in `requestOtp` and its failure is swallowed.
- **The circle's geometry**: distances are natural numbers of metres, candidates of the
  greedy dispatch come in any order, and the pings carry no coordinates.
- **Plain lookups**: the quote and ride views, open requests, the trail and the list of cards return rows.
- **Amounts other than one positive fare** in the ride flow. `FareIsPositive` says when that is
  what a quote gives.
- **Field validation, labels, plan catalogue, currency, region and Twilio settings**: presentation and
  refusals that change nothing.
- **Stripe's own limits**: a hold that expires after days, and keys it forgets
  after a day. Nothing in the repository reacts to either.

## 7. Plan

1. *Done*: the ride flow with its money, dispatch, pings and views; accounts over both stores; the
   pure algorithms; the inductive invariants of ride flow, books, holds, views, pings,
   assignment, logins and send limits, the three refinements, and a theorem for
   every safety property that a run checks.
2. *Next*: the rider page as a client of `RideNow`, with lost answers; the guesses at a trip code
   against `MAX_OTP_ATTEMPTS`, a ping stored after its trip ended, two default cards and one code
   verified twice at once, each as a run for what the docs promise beyond what holds.
