--------------------------- MODULE CapacityDomain ---------------------------
(***************************************************************************)
(* The capacity domain as pure operators: the Program aggregate            *)
(* (capacity/domain/program.ts), the Reservation it holds per invoice      *)
(* (capacity/domain/reservation.ts) and the conversion that prices a       *)
(* foreign invoice (fx/convert.ts).                                        *)
(*                                                                         *)
(* A program is [exists, limit, reserved] in minor units of its currency;  *)
(* a reservation is [status, original, held, released, rate, reason].      *)
(* Instants, actors and correlation ids are left out: no property of these *)
(* operators is about them.  Amounts are unbounded integers, as bigint is. *)
(***************************************************************************)
EXTENDS Integers

CONSTANTS
    RateScale,      \* FxRate.SCALE: a rate is a number of RateScale-ths
    Upscale,        \* 10^n where the program's currency has n decimals more
    Downscale       \* than the other one, and where it has n fewer

ASSUME ExchangeAssumption ==
    /\ {RateScale, Upscale, Downscale} \subseteq Nat \ {0}
    /\ Upscale = 1 \/ Downscale = 1

(***************************************************************************)
(* The program.                                                            *)
(***************************************************************************)

Program == [exists : BOOLEAN, limit : Nat, reserved : Nat]

NoProgram == [exists |-> FALSE, limit |-> 0, reserved |-> 0]

NewProgram(limit) == [exists |-> TRUE, limit |-> limit, reserved |-> 0]

Available(p) == p.limit - p.reserved

OverUtilized(p) == Available(p) < 0

(* Mutant: the check forgets what is already reserved. *)
HasCapacityForEver(p, amount) == p.limit >= amount

HasCapacityFor(p, amount) == Available(p) >= amount

(***************************************************************************)
(* Money as it arrives: minor units of the program's own currency ("home") *)
(* or of another one ("foreign").  Money.equals compares both.             *)
(***************************************************************************)

Money == [currency : {"home", "foreign"}, minor : Int]

(* Money.zero: what the empty slot of an unheld invoice carries. *)
ZeroMoney == [currency |-> "home", minor |-> 0]

(* Rates are positive, so 0 can stand for "the provider quotes nothing for *)
(* this pair", and for the evidence of a hold that needed no rate.         *)
NoQuote == 0

Numerator(minor, quote) == minor * quote * Upscale

Denominator == RateScale * Downscale

(* Mutant: what is left over is dropped. *)
ApplyRateDown(minor, quote) == Numerator(minor, quote) \div Denominator

(* applyRate rounds up, once, at the end. *)
ApplyRate(minor, quote) ==
    (Numerator(minor, quote) + Denominator - 1) \div Denominator

Priceable(original, quote) == original.currency = "home" \/ quote # NoQuote

Converted(original, quote) ==
    IF original.currency = "home" THEN original.minor
                                  ELSE ApplyRate(original.minor, quote)

Conversion(original, quote) ==
    [original  |-> original,
     converted |-> Converted(original, quote),
     rate      |-> IF original.currency = "home" THEN NoQuote ELSE quote]

(***************************************************************************)
(* The reservation of one invoice.  "NONE" is the absence of a row.        *)
(***************************************************************************)

ReleaseReasons == {"REPAID", "CANCELLED"}

Reservation ==
    [status   : {"NONE", "ACTIVE", "RELEASED"},
     original : Money,
     held     : Int,
     released : Int,
     rate     : Nat,
     reason   : ReleaseReasons \cup {"NONE"}]

NoReservation ==
    [status   |-> "NONE",
     original |-> ZeroMoney,
     held     |-> 0,
     released |-> 0,
     rate     |-> NoQuote,
     reason   |-> "NONE"]

(* Reservation.open refuses an invoice, or a hold, that is not positive. *)
Holdable(original, held) == held > 0 /\ original.minor > 0

(* A rate is stored exactly with the holds that were converted. *)
FxEvidence(original, rate) == original.currency = "home" <=> rate = NoQuote

(* ... and open recomputes the hold from the evidence it comes with. *)
Explains(original, rate, held) ==
    /\ FxEvidence(original, rate)
    /\ held = IF rate = NoQuote THEN original.minor
                                ELSE ApplyRate(original.minor, rate)

OpenHold(conversion) ==
    [status   |-> "ACTIVE",
     original |-> conversion.original,
     held     |-> conversion.converted,
     released |-> 0,
     rate     |-> conversion.rate,
     reason   |-> "NONE"]

Outstanding(r) == r.held - r.released

(* What a row must look like for Reservation.rehydrate to load it: either  *)
(* holding everything, or holding nothing and saying why.  The rate need   *)
(* not come to the hold any more: a correction leaves it alone.            *)
Loadable(r) ==
    /\ r.held > 0
    /\ FxEvidence(r.original, r.rate)
    /\ r.status = "ACTIVE"   => r.released = 0 /\ r.reason = "NONE"
    /\ r.status = "RELEASED" => r.released = r.held /\ r.reason # "NONE"

(* Mutant: the early return for a settled invoice is dropped. *)
IsReleasedNever(r) == FALSE

IsReleased(r) == r.status = "RELEASED"

(* Mutant: the release forgets to give the held amount back. *)
ReleaseWithoutAmount(r, reason) ==
    IF IsReleased(r) THEN r
    ELSE [r EXCEPT !.status = "RELEASED", !.reason = reason]

(* Only an active hold changes: a second release keeps the first reason.   *)
Release(r, reason) ==
    IF IsReleased(r) THEN r
    ELSE [r EXCEPT !.status   = "RELEASED",
                   !.released = r.held,
                   !.reason   = reason]

(* Mutant: a correction restates the invoice as well. *)
CorrectToAnew(r, amount) ==
    [r EXCEPT !.held = amount, !.rate = NoQuote,
              !.original = [currency |-> "home", minor |-> amount]]

(* A correction restates the hold and never the invoice's own amount, nor  *)
(* the rate it was quoted.                                                 *)
CorrectTo(r, amount) == [r EXCEPT !.held = amount]

(***************************************************************************)
(* Program.reserve, as the verdict the order of its checks produces.  The  *)
(* use case converts only when the lookup found nothing, so a replay is    *)
(* judged on the original amount alone and needs no quote.                 *)
(***************************************************************************)

(* Mutant: any retry counts as a replay, whatever amount it asks for. *)
RetryVerdictIgnoringAmount(existing, original, quote) ==
    IF IsReleased(existing) THEN "DUPLICATE_INVOICE" ELSE "REPLAYED"

(* Mutant: a retry is compared by what it converts to today. *)
RetryVerdictByHeld(existing, original, quote) ==
    IF ~IsReleased(existing) /\ existing.held = Converted(original, quote)
    THEN "REPLAYED"
    ELSE "DUPLICATE_INVOICE"

(* resolveDuplicate *)
RetryVerdict(existing, original, quote) ==
    IF ~IsReleased(existing) /\ existing.original = original
    THEN "REPLAYED"
    ELSE "DUPLICATE_INVOICE"

(* convert, then Reservation.open, then the capacity check. *)
NewHoldVerdict(p, original, quote) ==
    CASE original.minor < 0 -> "INVALID_AMOUNT"
      [] original.minor >= 0 /\ ~Priceable(original, quote) ->
            "FX_RATE_NOT_FOUND"
      [] original.minor >= 0 /\ Priceable(original, quote) ->
            LET held == Converted(original, quote)
            IN  IF ~Holdable(original, held) THEN "INVALID_RESERVATION"
                ELSE IF HasCapacityFor(p, held) THEN "CREATED"
                ELSE "INSUFFICIENT_CAPACITY"

ReserveVerdict(p, existing, original, quote) ==
    IF existing.status = "NONE" THEN NewHoldVerdict(p, original, quote)
                                ELSE RetryVerdict(existing, original, quote)

(***************************************************************************)
(* One entry of the audit log: what moved, and the total it left behind.   *)
(***************************************************************************)

EventTypes ==
    {"RESERVED", "RELEASED", "LIMIT_CHANGED", "RECONCILIATION_ADJUSTMENT"}

Event(type, invoice, delta, resulting) ==
    [type |-> type, invoice |-> invoice, delta |-> delta,
     resulting |-> resulting]

=============================================================================
