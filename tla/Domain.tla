------------------------------- MODULE Domain -------------------------------
(***************************************************************************)
(* The constants every module of the ride flow shares, and the deadlines   *)
(* of its rows.                                                            *)
(***************************************************************************)
EXTENDS Integers

CONSTANTS
  Quotes, Rides, Drivers,
  Calls,     \* the HTTP requests the server may be working on at one time
  None,      \* the null of a column
  Fare       \* the locked total of a quote, in cents

ASSUME NoneAssumption == None \notin Quotes \cup Rides \cup Drivers \cup Calls
ASSUME FareAssumption == Fare \in Nat \ {0}

\* A deadline of a row: quotes.expires_at, rides.offer_expires_at and
\* rides.otp_expires_at.
QuoteTtl(q) == <<"quote", q>>
OfferTtl(r) == <<"offer", r>>
OtpTtl(r) == <<"otp", r>>

Deadlines ==
  {QuoteTtl(q) : q \in Quotes} \cup {OfferTtl(r) : r \in Rides}
    \cup {OtpTtl(r) : r \in Rides}
=============================================================================
