----------------------------- MODULE FaresProofs -----------------------------
(***************************************************************************)
(* What every quote's total satisfies, for any route and any settings.     *)
(***************************************************************************)
EXTENDS Fares, TLAPS

\* The quotient and remainder of a division.
LEMMA Division ==
  ASSUME NEW a \in Nat, NEW b \in Nat \ {0}
  PROVE  /\ a \div b \in Nat
         /\ b * (a \div b) <= a
         /\ a < b * (a \div b) + b
OBVIOUS

\* Rounding is within half a unit.
LEMMA RoundingError ==
  ASSUME NEW a \in Nat, NEW b \in Nat \ {0}
  PROVE  /\ RoundQuotient(a, b) \in Nat
         /\ 2 * b * RoundQuotient(a, b) <= 2 * a + b
         /\ 2 * a - b < 2 * b * RoundQuotient(a, b)
<1> DEFINE q == RoundQuotient(a, b)
<1>1. 2 * a + b \in Nat /\ 2 * b \in Nat \ {0}
  OBVIOUS
<1>2. q = (2 * a + b) \div (2 * b)
  BY DEF RoundQuotient
<1>3. /\ q \in Nat
      /\ (2 * b) * q <= 2 * a + b
      /\ 2 * a + b < (2 * b) * q + 2 * b
  BY ONLY <1>1, <1>2, Division
<1> HIDE DEF q
<1>4. ASSUME NEW p \in Int, p <= 2 * a + b, 2 * a + b < p + 2 * b
      PROVE  p <= 2 * a + b /\ 2 * a - b < p
  BY <1>4
<1>5. (2 * b) * q \in Int
  BY <1>3
<1>6. QED
  BY <1>3, <1>4, <1>5 DEF q

\* A longer ride is never rounded to less.
LEMMA RoundingMonotone ==
  ASSUME NEW a \in Nat, NEW c \in Nat, NEW b \in Nat \ {0}, a <= c
  PROVE  RoundQuotient(a, b) <= RoundQuotient(c, b)
<1> DEFINE x == RoundQuotient(a, b)
           y == RoundQuotient(c, b)
           d == 2 * b
<1>1. d \in Nat \ {0} /\ 2 * a + b \in Nat /\ 2 * c + b \in Nat
      /\ 2 * a + b <= 2 * c + b
  OBVIOUS
<1>2. x = (2 * a + b) \div d /\ y = (2 * c + b) \div d
  BY DEF RoundQuotient
<1> HIDE DEF d
<1>3. x \in Nat /\ y \in Nat /\ d * x <= 2 * a + b /\ 2 * c + b < d * y + d
  BY <1>1, <1>2, Division
<1> HIDE DEF x, y
<1>4. d * x < d * y + d
  BY <1>1, <1>3
<1>5. ASSUME y + 1 <= x PROVE FALSE
  <2>1. d * (y + 1) <= d * x
    BY <1>1, <1>3, <1>5
  <2>2. d * (y + 1) = d * y + d
    BY <1>1, <1>3
  <2>3. QED
    BY <1>1, <1>3, <1>4, <2>1, <2>2
<1>6. x <= y
  BY <1>3, <1>5
<1>7. QED
  BY <1>6 DEF x, y

\* A tie that falls short of its half is still not negative.
LEMMA ProductRounds ==
  ASSUME NEW x \in Nat, NEW unit \in Nat \ {0}, NEW rate \in Nat
  PROVE  RoundProduct(x, unit, rate) \in Nat
<1> DEFINE a == x * rate
           n == RoundQuotient(a, unit)
<1>1. a \in Nat
  OBVIOUS
<1>2. RoundProduct(x, unit, rate) =
        IF 2 * a + unit = 2 * unit * n /\ <<x, unit, rate>> \in BelowHalf
        THEN n - 1 ELSE n
  BY DEF RoundProduct
<1> HIDE DEF a
<1>3. n \in Nat
  BY <1>1, RoundingError
<1> HIDE DEF n
<1>4. 2 * a + unit = 2 * unit * n => n # 0
  BY <1>1
<1>5. QED
  BY <1>2, <1>3, <1>4

\* More of the same rate never rounds to less, whichever ties fall short.
LEMMA ProductMonotone ==
  ASSUME NEW x \in Nat, NEW y \in Nat, NEW unit \in Nat \ {0}, NEW rate \in Nat, x <= y
  PROVE  RoundProduct(x, unit, rate) <= RoundProduct(y, unit, rate)
<1> DEFINE a == x * rate
           c == y * rate
           m == RoundQuotient(a, unit)
           n == RoundQuotient(c, unit)
           d == 2 * unit
           short(z) == <<z, unit, rate>> \in BelowHalf
<1>1. a \in Nat /\ c \in Nat /\ a <= c /\ d \in Nat \ {0}
  OBVIOUS
<1>2. /\ RoundProduct(x, unit, rate) = IF 2 * a + unit = d * m /\ short(x) THEN m - 1 ELSE m
      /\ RoundProduct(y, unit, rate) = IF 2 * c + unit = d * n /\ short(y) THEN n - 1 ELSE n
  BY DEF RoundProduct
<1>3. x # y /\ rate # 0 => a < c
  <2> SUFFICES ASSUME x # y, rate # 0 PROVE a < c
    OBVIOUS
  <2>1. (x + 1) * rate <= y * rate
    OBVIOUS
  <2>2. (x + 1) * rate = a + rate
    OBVIOUS
  <2>3. QED
    BY <2>1, <2>2
<1>4. rate = 0 => a = 0 /\ c = 0
  OBVIOUS
<1> HIDE DEF a, c
<1>5. m \in Nat /\ n \in Nat /\ m <= n
  BY <1>1, RoundingError, RoundingMonotone
<1>6. d * m <= 2 * a + unit
  BY <1>1, RoundingError
<1> HIDE DEF m, n, short
<1>7. CASE x = y
  BY <1>7, <1>2, <1>5, ProductRounds
<1>8. CASE a < c
  <2>1. CASE 2 * c + unit = d * n
    <3>1. 2 * a + unit < 2 * c + unit
      BY <1>1, <1>8
    <3> HIDE DEF d
    <3>2. d * m < d * n
      BY <1>1, <1>5, <1>6, <2>1, <3>1
    <3>3. m # n
      BY <3>2, <1>1, <1>5
    <3>4. QED
      BY <1>2, <1>5, <3>3
  <2>2. CASE 2 * c + unit # d * n
    BY <1>2, <1>5, <2>2
  <2>3. QED
    BY <2>1, <2>2
<1>9. CASE rate = 0
  <2>1. RoundProduct(x, unit, rate) = m /\ RoundProduct(y, unit, rate) = n
    <3>1. ASSUME NEW k \in Nat PROVE unit # d * k
      OBVIOUS
    <3>2. QED
      BY <1>2, <1>4, <1>5, <1>9, <3>1
  <2>2. QED
    BY <2>1, <1>5
<1>10. QED
  BY <1>3, <1>7, <1>8, <1>9

\* The components of a price are non-negative integers, as assertNonNegativeInt
\* wants them.
LEMMA PriceComponents ==
  ASSUME NEW fare \in FareSettings, NEW metres \in Nat, NEW seconds \in Nat
  PROVE  /\ fare.base \in Nat /\ fare.booking \in Nat
         /\ fare.perKm \in Nat /\ fare.perMin \in Nat
         /\ DistanceCents(metres, fare.perKm) \in Nat
         /\ TimeCents(seconds, fare.perMin) \in Nat
<1>1. /\ fare.base \in Nat /\ fare.booking \in Nat
      /\ fare.perKm \in Nat /\ fare.perMin \in Nat
  BY DEF FareSettings
<1> DEFINE km == 1000
           minute == 60
<1>2. km \in Nat \ {0} /\ minute \in Nat \ {0}
  OBVIOUS
<1> HIDE DEF km, minute
<1>3. RoundProduct(metres, km, fare.perKm) \in Nat
  BY ONLY <1>1, <1>2, metres \in Nat, ProductRounds
<1>4. RoundProduct(seconds, minute, fare.perMin) \in Nat
  BY ONLY <1>1, <1>2, seconds \in Nat, ProductRounds
<1>5. QED
  BY <1>1, <1>3, <1>4 DEF DistanceCents, TimeCents, km, minute

\* The route's duration is a positive whole number that grows with the distance.
LEMMA DurationGrows ==
  ASSUME NEW m \in Nat, NEW n \in Nat, m <= n
  PROVE  /\ RouteDuration(m) \in Nat /\ RouteDuration(n) \in Nat
         /\ RouteDuration(m) >= 1
         /\ RouteDuration(m) <= RouteDuration(n)
<1> DEFINE x == 100 * m
           y == 100 * n
           b == 833
<1>1. x \in Nat /\ y \in Nat /\ x <= y /\ b \in Nat \ {0}
  OBVIOUS
<1>2. /\ RouteDuration(m) = AtLeast(1, RoundQuotient(x, b))
      /\ RouteDuration(n) = AtLeast(1, RoundQuotient(y, b))
  BY DEF RouteDuration
<1> HIDE DEF x, y, b
<1>3. RoundQuotient(x, b) \in Nat
  BY ONLY <1>1, RoundingError
<1>4. RoundQuotient(y, b) \in Nat
  BY ONLY <1>1, RoundingError
<1>5. RoundQuotient(x, b) <= RoundQuotient(y, b)
  BY ONLY <1>1, RoundingMonotone
<1>6. QED
  BY <1>2, <1>3, <1>4, <1>5 DEF AtLeast

\* A quote is never cheaper for going further: the total of a route is at most
\* that of any longer one, although every component is rounded on its own.
THEOREM FurtherIsNotCheaper ==
  ASSUME NEW fare \in FareSettings, NEW m \in Nat, NEW n \in Nat, m <= n
  PROVE  QuoteTotal(fare, m) <= QuoteTotal(fare, n)
<1>1. /\ RouteDuration(m) \in Nat /\ RouteDuration(n) \in Nat
      /\ RouteDuration(m) <= RouteDuration(n)
  BY DurationGrows
<1>2. fare.perKm \in Nat /\ fare.perMin \in Nat /\ fare.base \in Nat /\ fare.booking \in Nat
  BY DEF FareSettings
<1>3. DistanceCents(m, fare.perKm) <= DistanceCents(n, fare.perKm)
  BY <1>2, ProductMonotone DEF DistanceCents
<1>4. TimeCents(RouteDuration(m), fare.perMin) <= TimeCents(RouteDuration(n), fare.perMin)
  BY <1>1, <1>2, ProductMonotone DEF TimeCents
<1>5. /\ DistanceCents(m, fare.perKm) \in Nat /\ DistanceCents(n, fare.perKm) \in Nat
      /\ TimeCents(RouteDuration(m), fare.perMin) \in Nat
      /\ TimeCents(RouteDuration(n), fare.perMin) \in Nat
  BY <1>1, PriceComponents
<1>6. QED
  BY <1>2, <1>3, <1>4, <1>5 DEF QuoteTotal, TotalCents, Price

\* A quote is a positive amount, which the hold's buildAuthorizationPostings
\* insists on, as soon as the base fare or the booking fee is.
THEOREM FareIsPositive ==
  ASSUME NEW fare \in FareSettings, NEW metres \in Nat, fare.base + fare.booking > 0
  PROVE  QuoteTotal(fare, metres) \in Nat \ {0}
<1>1. RouteDuration(metres) \in Nat
  BY DurationGrows
<1>2. /\ fare.base \in Nat /\ fare.booking \in Nat
      /\ DistanceCents(metres, fare.perKm) \in Nat
      /\ TimeCents(RouteDuration(metres), fare.perMin) \in Nat
  BY <1>1, PriceComponents
<1>3. QED
  BY <1>2 DEF QuoteTotal, TotalCents, Price
=============================================================================
