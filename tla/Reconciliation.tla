--------------------------- MODULE Reconciliation ---------------------------
(***************************************************************************)
(* What a treasury snapshot means for a program: the gates it has to pass, *)
(* the difference between what it reports and what is held, and the plan   *)
(* that settles it (treasury-sync/domain/reconcile-program.ts).  Pure      *)
(* operators: nothing here is a state.                                     *)
(*                                                                         *)
(* A snapshot is [sequence, asOf, limit, invoices, fault].  "invoices"     *)
(* maps the invoices it lists to entries [status, amount, original, rate]; *)
(* a rate of NoQuote is none at all.  "fault" stands for what only the     *)
(* message as text can get wrong: an amount, a currency or a rate that     *)
(* does not parse (UNPARSABLE), another program's name, an unreadable      *)
(* instant, a foreign currency, a listing that names no invoice or one     *)
(* twice, totals that do not add up.                                       *)
(*                                                                         *)
(* "rows" is a record [holds, reservedAt, releasedAt] of functions on      *)
(* InvoiceIds.  Instants are integers, Margin is the clock-skew margin.    *)
(***************************************************************************)
EXTENDS CapacityDomain, Sequences, FiniteSetsExt

CONSTANTS
    InvoiceIds,     \* invoices, named by their trimmed id
    Margin          \* how far treasury's clock may run ahead of ours

(* resolveClockSkewMargin refuses a negative margin. *)
ASSUME MarginAssumption == IsFiniteSet(InvoiceIds) /\ Margin \in Nat

(* "Never reconciled": usable sequences are not negative. *)
NoSequence == -1

DiscrepancyReasons ==
    {"HELD_BUT_NOT_REPORTED", "REPORTED_AGAINST_RELEASED_HOLD",
     "MISSING_FX_EVIDENCE", "INCONSISTENT_FX_EVIDENCE", "UNUSABLE_AMOUNT"}

(***************************************************************************)
(* Reading a snapshot, and the rows it is compared with.                   *)
(***************************************************************************)

Mentioned(snap) == DOMAIN snap.invoices

SnapshotEntry ==
    [status : {"REPAID", "OUTSTANDING"}, amount : Int, original : Money, rate : Nat]

IsSnapshot(snap) ==
    /\ {snap.sequence, snap.asOf, snap.limit} \subseteq Int
    /\ \A i \in Mentioned(snap) : snap.invoices[i] \in SnapshotEntry

(* Every amount, currency and rate of the message can be read: if not,     *)
(* toTreasurySnapshot throws before any gate is asked.                     *)
Parses(snap) == snap.fault # "UNPARSABLE"

(* What it says of an invoice.  An outstanding amount of nothing is no     *)
(* exposure, and below nothing does not get past the gates.                *)
Reported(snap, i) ==
    CASE i \notin Mentioned(snap) -> "NOTHING"
      [] i \in Mentioned(snap)    ->
            IF snap.invoices[i].status = "REPAID" THEN "REPAID"
            ELSE IF snap.invoices[i].amount > 0 THEN "EXPOSURE"
            ELSE "UNUSABLE"

With(rows, status) == {i \in InvoiceIds : rows.holds[i].status = status}

Held(rows)     == With(rows, "ACTIVE")
Released(rows) == With(rows, "RELEASED")
Unheld(rows)   == With(rows, "NONE")

(* Mutant: only the active holds are loaded. *)
LoadedIfActive(rows, snap, i) ==
    IF rows.holds[i].status = "ACTIVE" THEN rows.holds[i] ELSE NoReservation

(* What the plan gets to see: every active hold, and every reservation the *)
(* snapshot names.  A row that is not loaded looks like no row at all.     *)
Loaded(rows, snap, i) ==
    IF rows.holds[i].status = "ACTIVE" \/ i \in Mentioned(snap)
    THEN rows.holds[i] ELSE NoReservation

ActiveTotal(rows) ==
    SumFunctionOnSet([i \in InvoiceIds |-> Outstanding(rows.holds[i])],
                     Held(rows))

(* Mutant: the margin widens nothing. *)
CutoffWithoutMargin(snap) == snap.asOf

(* A hold, or a release, that is not older than this may have crossed the  *)
(* snapshot on its way.                                                    *)
Cutoff(snap) == snap.asOf - Margin

(***************************************************************************)
(* The gates.  The verdict is the first one that refuses the snapshot.     *)
(***************************************************************************)

Gates == <<"WRONG_PROGRAM", "UNUSABLE_SEQUENCE", "STALE_SEQUENCE",
           "COUNTER_DRIFT", "UNREADABLE_AS_OF", "UNUSABLE_LIMIT",
           "FOREIGN_CURRENCY", "NEGATIVE_AMOUNT", "BLANK_INVOICE_ID",
           "DUPLICATE_INVOICE", "CHECKSUM_MISMATCH">>

Stale(snap, applied) == snap.sequence <= applied

Refuses(gate, p, rows, applied, snap) ==
    CASE gate = "UNUSABLE_SEQUENCE" -> snap.sequence < 0
      [] gate = "STALE_SEQUENCE"    -> Stale(snap, applied)
      [] gate = "COUNTER_DRIFT"     -> p.reserved # ActiveTotal(rows)
      [] gate = "UNUSABLE_LIMIT"    -> snap.limit < 0
      [] gate = "NEGATIVE_AMOUNT"   ->
            \E i \in Mentioned(snap) : snap.invoices[i].amount < 0
      [] OTHER                      -> snap.fault = gate

ScreenSnapshot(p, rows, applied, snap) ==
    LET refusing == {n \in DOMAIN Gates :
                        Refuses(Gates[n], p, rows, applied, snap)}
    IN  IF refusing = {} THEN "APPLY" ELSE Gates[Min(refusing)]

(***************************************************************************)
(* The plan.                                                               *)
(***************************************************************************)

(* Could the entry's own figures open a reservation? *)
EvidenceFault(entry) ==
    LET converted  == entry.original.currency # "home"
        priced     == entry.rate # NoQuote
        reproduced == IF priced
                      THEN ApplyRate(entry.original.minor, entry.rate)
                      ELSE entry.original.minor
    IN  IF converted /\ ~priced THEN "MISSING_FX_EVIDENCE"
        ELSE IF \/ ~converted /\ priced
                \/ entry.original.minor <= 0
                \/ reproduced # entry.amount
             THEN "INCONSISTENT_FX_EVIDENCE"
             ELSE "NONE"

JudgeReleased(rows, snap, i) ==
    IF rows.releasedAt[i] >= Cutoff(snap) THEN "KEEP"
    ELSE "REPORTED_AGAINST_RELEASED_HOLD"

JudgeExposure(rows, snap, i) ==
    LET entry == snap.invoices[i]
        hold  == Loaded(rows, snap, i)
    IN  CASE hold.status = "RELEASED" -> JudgeReleased(rows, snap, i)
          [] hold.status = "ACTIVE"   ->
                IF entry.amount = hold.held THEN "KEEP" ELSE "CORRECT"
          [] hold.status = "NONE"     ->
                IF EvidenceFault(entry) = "NONE" THEN "CREATE"
                ELSE EvidenceFault(entry)

(* Mutant: what treasury does not mention any more is let go. *)
JudgeSilenceAsRepaid(rows, snap, i) ==
    IF i \in Held(rows) /\ rows.reservedAt[i] < Cutoff(snap)
    THEN "RELEASE" ELSE "KEEP"

JudgeSilence(rows, snap, i) ==
    IF i \in Held(rows) /\ rows.reservedAt[i] < Cutoff(snap)
    THEN "HELD_BUT_NOT_REPORTED" ELSE "KEEP"

(* One invoice: a step to take, a discrepancy, or nothing to do. *)
Judgement(rows, snap, i) ==
    LET says == Reported(snap, i)
    IN  CASE says = "NOTHING"  -> JudgeSilence(rows, snap, i)
          [] says = "REPAID"   -> IF i \in Held(rows) THEN "RELEASE" ELSE "KEEP"
          [] says = "UNUSABLE" -> "UNUSABLE_AMOUNT"
          [] says = "EXPOSURE" -> JudgeExposure(rows, snap, i)

Judged(rows, snap, judgement) ==
    {i \in InvoiceIds : Judgement(rows, snap, i) = judgement}

Discrepancies(rows, snap) ==
    {<<i, Judgement(rows, snap, i)>> : i \in InvoiceIds}
        \cap (InvoiceIds \X DiscrepancyReasons)

(***************************************************************************)
(* Carrying the plan out.                                                  *)
(***************************************************************************)

(* The row of an invoice once its step is taken. *)
PlannedHold(rows, snap, i) ==
    LET judgement == Judgement(rows, snap, i)
    IN  CASE judgement = "RELEASE" -> Release(rows.holds[i], "REPAID")
          [] judgement = "CORRECT" ->
                CorrectTo(rows.holds[i], snap.invoices[i].amount)
          [] judgement = "CREATE"  ->
                OpenHold([original  |-> snap.invoices[i].original,
                          converted |-> snap.invoices[i].amount,
                          rate      |-> snap.invoices[i].rate])
          [] OTHER                 -> rows.holds[i]

(* Mutant: a correction records the new amount, not the change. *)
DeltaOfNewAmount(rows, snap, i) ==
    Outstanding(PlannedHold(rows, snap, i)) -
        (IF Judgement(rows, snap, i) = "CORRECT" THEN 0
         ELSE Outstanding(rows.holds[i]))

(* What that adds to the reserved total: also the delta its audit entry    *)
(* records.                                                                *)
Delta(rows, snap, i) ==
    Outstanding(PlannedHold(rows, snap, i)) - Outstanding(rows.holds[i])

Deltas(rows, snap) == [i \in InvoiceIds |-> Delta(rows, snap, i)]

(* Mutant: a correction leaves the counter alone. *)
PlannedReservedUncorrected(p, rows, snap) ==
    p.reserved + SumFunctionOnSet(Deltas(rows, snap),
                                  InvoiceIds \ Judged(rows, snap, "CORRECT"))

PlannedReserved(p, rows, snap) ==
    p.reserved + SumFunctionOnSet(Deltas(rows, snap), InvoiceIds)

(* Releases and decreases go first, so no step leaves the counter lower    *)
(* than they do together.                                                  *)
LowestReserved(p, rows, snap) ==
    p.reserved +
        SumFunctionOnSet([i \in InvoiceIds |-> Min({0, Delta(rows, snap, i)})],
                         InvoiceIds)

(* Would a step refuse?  Each operation of the domain checks again what the *)
(* gates and the plan have looked at.                                      *)
Inapplicable(p, rows, snap) ==
    \/ snap.limit < 0
    \/ LowestReserved(p, rows, snap) < 0
    \/ \E i \in Judged(rows, snap, "CREATE") :
          LET entry == snap.invoices[i]
          IN  \/ ~Holdable(entry.original, entry.amount)
              \/ ~Explains(entry.original, entry.rate, entry.amount)

=============================================================================
