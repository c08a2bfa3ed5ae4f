-------------------------------- MODULE Fares --------------------------------
(***************************************************************************)
(* The price of a quote.  Distances are metres and durations seconds, as   *)
(* the route gives them.                                                   *)
(***************************************************************************)
EXTENDS Integers

\* The products <<x, unit, rate>> whose floating-point value x / unit * rate
\* comes out below the half it exactly is: 1005 / 1000 * 100 is one.
CONSTANT BelowHalf

\* Math.round(a / b), exactly: a half goes up.
RoundQuotient(a, b) == (2 * a + b) \div (2 * b)

\* Math.round(x / unit * rate).  The error of the product matters for an exact
\* half only: any other value is at least 1 / (2 * unit) away from one.
RoundProduct(x, unit, rate) ==
  LET n == RoundQuotient(x * rate, unit)
      half == 2 * (x * rate) + unit = 2 * unit * n
  IN  IF half /\ <<x, unit, rate>> \in BelowHalf THEN n - 1 ELSE n

\* The route's duration at the assumed 8.33 m/s, at least a second.  A number
\* of metres over 8.33 is never a half.
AtLeast(x, y) == IF x >= y THEN x ELSE y
RouteDuration(metres) == AtLeast(1, RoundQuotient(100 * metres, 833))

DistanceCents(metres, perKm) == RoundProduct(metres, 1000, perKm)
TimeCents(seconds, perMin) == RoundProduct(seconds, 60, perMin)

\* fare: [base, perKm, perMin, booking], what readInt admits of the settings.
FareSettings == [base : Nat, perKm : Nat, perMin : Nat, booking : Nat]

\* The components in their sort order.
Price(fare, metres, seconds) ==
  <<fare.base, DistanceCents(metres, fare.perKm),
    TimeCents(seconds, fare.perMin), fare.booking>>

\* sumCents: every component must be a non-negative integer.
TotalCents(price) == price[1] + price[2] + price[3] + price[4]

QuoteTotal(fare, metres) == TotalCents(Price(fare, metres, RouteDuration(metres)))
=============================================================================
