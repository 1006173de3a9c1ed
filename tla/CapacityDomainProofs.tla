------------------------ MODULE CapacityDomainProofs ------------------------
(***************************************************************************)
(* What the operators of CapacityDomain return, for any rate scale and     *)
(* exponents: the lemmas that the proofs about the services rest on.       *)
(***************************************************************************)
EXTENDS CapacityDomain, TLAPS

(* Rounding up never comes short, and never by a whole unit too much. *)
LEMMA Ceiling ==
    ASSUME NEW n \in Int, NEW d \in Int, d > 0
    PROVE  /\ (n + d - 1) \div d \in Int
           /\ n <= ((n + d - 1) \div d) * d
           /\ ((n + d - 1) \div d) * d < n + d
<1> DEFINE m == n + d - 1
<1>1. m \in Int
  OBVIOUS
<1>2. m \div d \in Int /\ (m \div d) * d <= m /\ m < (m \div d) * d + d
  <2> HIDE DEF m
  <2> QED BY <1>1, Z3
<1>3. (m \div d) * d \in Int
  BY <1>2
<1> QED BY <1>2, <1>3

(* Amounts and the scale they are divided by are whole numbers. *)
LEMMA ExchangeTypes ==
    /\ Denominator \in Int /\ Denominator > 0
    /\ \A minor \in Int, quote \in Nat : Numerator(minor, quote) \in Int
<1>1. Denominator \in Int /\ Denominator > 0
  <2>1. /\ RateScale \in Nat /\ RateScale > 0
        /\ Downscale \in Nat /\ Downscale > 0
    BY ExchangeAssumption
  <2> QED BY <2>1, Z3 DEF Denominator
<1>2. ASSUME NEW minor \in Int, NEW quote \in Nat
      PROVE  Numerator(minor, quote) \in Int
  <2>1. minor * quote \in Int /\ Upscale \in Int
    BY ExchangeAssumption
  <2> QED BY <2>1 DEF Numerator
<1> QED BY <1>1, <1>2

(* A conversion yields an amount of minor units, and the reservation that  *)
(* is opened with it.                                                      *)
LEMMA ConvertedType ==
    ASSUME NEW original \in Money, NEW quote \in Nat
    PROVE  /\ Converted(original, quote) \in Int
           /\ OpenHold(Conversion(original, quote)) \in Reservation
<1>1. original.minor \in Int
  BY DEF Money
<1>2. Converted(original, quote) \in Int
  BY <1>1, ExchangeTypes, Ceiling DEF Converted, ApplyRate
<1> QED BY <1>2 DEF OpenHold, Conversion, Reservation, NoQuote

(* The answers Program.reserve has. *)
Verdicts ==
    {"CREATED", "REPLAYED", "DUPLICATE_INVOICE", "INSUFFICIENT_CAPACITY",
     "INVALID_AMOUNT", "INVALID_RESERVATION", "FX_RATE_NOT_FOUND"}

(* What Program.reserve answers, and what it has checked before it opens a *)
(* hold.                                                                   *)
LEMMA VerdictMeaning ==
    ASSUME NEW p, NEW r \in Reservation, NEW original \in Money, NEW quote \in Nat
    PROVE  LET verdict == ReserveVerdict(p, r, original, quote)
               held    == Converted(original, quote)
           IN  /\ verdict \in Verdicts
               /\ verdict = "CREATED" =>
                     /\ r.status = "NONE"
                     /\ Priceable(original, quote)
                     /\ Holdable(original, held)
                     /\ HasCapacityFor(p, held)
               /\ verdict = "REPLAYED" =>
                     r.status # "NONE" /\ r.original = original
<1>1. CASE r.status = "NONE"
  <2>1. original.minor \in Int
    BY DEF Money
  <2>2. CASE original.minor < 0
    BY <1>1, <2>1, <2>2 DEF ReserveVerdict, NewHoldVerdict, Verdicts
  <2>3. CASE original.minor >= 0 /\ ~Priceable(original, quote)
    BY <1>1, <2>1, <2>3 DEF ReserveVerdict, NewHoldVerdict, Verdicts
  <2>4. CASE original.minor >= 0 /\ Priceable(original, quote)
    BY <1>1, <2>1, <2>4 DEF ReserveVerdict, NewHoldVerdict, Verdicts
  <2> QED BY <2>1, <2>2, <2>3, <2>4
<1>2. CASE r.status # "NONE"
  BY <1>2 DEF ReserveVerdict, RetryVerdict, Verdicts
<1> QED BY <1>1, <1>2

(* Releasing a reservation yields one. *)
LEMMA HoldTypes ==
    /\ NoReservation \in Reservation
    /\ \A r \in Reservation, reason \in ReleaseReasons :
          Release(r, reason) \in Reservation
    /\ \A r \in Reservation : Outstanding(r) \in Int /\ r.held \in Int
<1>1. NoReservation \in Reservation
  BY DEF NoReservation, Reservation, Money, ZeroMoney, NoQuote
<1>2. ASSUME NEW r \in Reservation, NEW reason \in ReleaseReasons
      PROVE  Release(r, reason) \in Reservation
  BY DEF Release, IsReleased, Reservation
<1>3. ASSUME NEW r \in Reservation
      PROVE  Outstanding(r) \in Int /\ r.held \in Int
  BY DEF Outstanding, Reservation
<1> QED BY <1>1, <1>2, <1>3

(* What opening a hold leaves behind, and ending it does not touch. *)
Covers(r) ==
    IF r.original.currency = "home" THEN r.held = r.original.minor
    ELSE /\ Numerator(r.original.minor, r.rate) <= r.held * Denominator
         /\ r.held * Denominator < Numerator(r.original.minor, r.rate) + Denominator

(* A hold that is opened with its conversion covers the invoice. *)
LEMMA OpeningCovers ==
    ASSUME NEW original \in Money, NEW quote \in Nat
    PROVE  Covers(OpenHold(Conversion(original, quote)))
<1>1. original.minor \in Int
  BY DEF Money
<1>2. CASE original.currency = "home"
  BY <1>2 DEF Covers, OpenHold, Conversion, Converted
<1>3. CASE original.currency # "home"
  <2> DEFINE cost == Numerator(original.minor, quote)
             held == ApplyRate(original.minor, quote)
  <2>1. cost \in Int /\ Denominator \in Int /\ Denominator > 0
    BY <1>1, ExchangeTypes
  <2>2. held = (cost + Denominator - 1) \div Denominator
    BY DEF ApplyRate
  <2> HIDE DEF cost, held
  <2>3. cost <= held * Denominator /\ held * Denominator < cost + Denominator
    BY <2>1, <2>2, Ceiling
  <2>4. /\ OpenHold(Conversion(original, quote)).original = original
        /\ OpenHold(Conversion(original, quote)).rate = quote
        /\ OpenHold(Conversion(original, quote)).held = held
    BY <1>3 DEF OpenHold, Conversion, Converted, held
  <2> QED BY <1>3, <2>3, <2>4 DEF Covers, cost
<1> QED BY <1>2, <1>3

=============================================================================
