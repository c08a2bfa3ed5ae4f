------------------------------- MODULE Ledger -------------------------------
(***************************************************************************)
(* The append-only double-entry ledger of a ride: the three groups of      *)
(* postings LedgerService builds, and what is derived from them.  A        *)
(* posting is one side of an entry; its group is the request that posted   *)
(* it, which stands for the random entryGroupId of that request.  Its id,  *)
(* its memo and its time are left out, and its driver column, which is the *)
(* driver of the driver_earnings account.                                  *)
(***************************************************************************)
EXTENDS Integers, FiniteSets, Folds

\* ACCOUNTS: an account is a tuple, so that the driver's earnings account
\* carries its driver.
Cash == <<"cash">>
RiderReceivable == <<"rider_receivable">>
AuthorizationHold == <<"authorization_hold">>
PlatformCommission == <<"platform_commission">>
DriverEarnings(d) == <<"driver_earnings", d>>

Accounts(drivers) ==
  {Cash, RiderReceivable, AuthorizationHold, PlatformCommission}
    \cup {DriverEarnings(d) : d \in drivers}

\* KINDS
Kinds == {"authorization", "hold_release", "capture",
          "driver_earnings", "platform_commission", "void"}

Posting(group, ride, kind, account, side, cents) ==
  [group |-> group, ride |-> ride, kind |-> kind, account |-> account,
   side |-> side, cents |-> cents]

Postings(groups, rides, drivers, amounts) ==
  [group : groups, ride : rides, kind : Kinds, account : Accounts(drivers),
   side : {"debit", "credit"}, cents : amounts]

\* confirm: the hold, a debit and a credit that cancel out.
AuthorizationPostings(g, ride, cents) ==
  {Posting(g, ride, "authorization", RiderReceivable, "debit", cents),
   Posting(g, ride, "authorization", AuthorizationHold, "credit", cents)}

\* complete: the hold released, the cash owed in full to the driver, and the
\* explicit zero commission.
CapturePostings(g, ride, driver, cents) ==
  {Posting(g, ride, "hold_release", AuthorizationHold, "debit", cents),
   Posting(g, ride, "hold_release", RiderReceivable, "credit", cents),
   Posting(g, ride, "capture", Cash, "debit", cents),
   Posting(g, ride, "driver_earnings", DriverEarnings(driver), "credit", cents),
   Posting(g, ride, "platform_commission", PlatformCommission, "credit", 0)}

\* cancel: the hold reversed.
VoidPostings(g, ride, cents) ==
  {Posting(g, ride, "void", AuthorizationHold, "debit", cents),
   Posting(g, ride, "void", RiderReceivable, "credit", cents)}

\* INSERT ... ON CONFLICT DO NOTHING on UNIQUE (ride_id, kind, account),
\* which the in-memory store mirrors: a posting whose key is there is dropped.
AllPostings(entries, postings) == postings   \* mutant: no unique key
FreshPostings(entries, postings) ==
  {p \in postings :
     ~ \E e \in entries : /\ e.ride = p.ride
                          /\ e.kind = p.kind
                          /\ e.account = p.account}

Post(entries, postings) == entries \cup FreshPostings(entries, postings)

OfRide(entries, ride) == {e \in entries : e.ride = ride}
Posted(entries, ride, kind) ==
  \E e \in entries : e.ride = ride /\ e.kind = kind

\* Debits less credits (isBalanced), and the net credit to a driver's
\* earnings account (driverTakeHomeCents).
Signed(e) == IF e.side = "debit" THEN e.cents ELSE -e.cents
Net(entries) ==
  MapThenFoldSet(+, 0, Signed, LAMBDA s : CHOOSE e \in s : TRUE, entries)
IsBalanced(entries) == Net(entries) = 0
DriverTakeHome(entries, driver) ==
  -Net({e \in entries : e.account = DriverEarnings(driver)})

\* The distinct rides among the earnings of a driver (driverSummary's trips).
TripsCredited(entries, driver) ==
  Cardinality({e.ride : e \in {x \in entries :
    x.kind = "driver_earnings" /\ x.account = DriverEarnings(driver)}})
=============================================================================
