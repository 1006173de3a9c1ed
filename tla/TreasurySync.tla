---------------------------- MODULE TreasurySync ----------------------------
(***************************************************************************)
(* One program kept in line with treasury: clients reserve and release,    *)
(* treasury's messages change the limit, repay invoices and restate the    *)
(* whole program in snapshots, which come late, twice or out of order.     *)
(*                                                                         *)
(* A use case is one step.  Each of them takes the program's row lock      *)
(* first and commits once, and CapacityServiceProofs shows (Serialized)    *)
(* that the steps of such transactions are whole use cases applied to the  *)
(* committed rows.                                                         *)
(*                                                                         *)
(* An open discrepancy's last_seen is the watermark's instant and is not   *)
(* kept; neither are the texts and amounts of discrepancies.               *)
(***************************************************************************)
EXTENDS Reconciliation

CONSTANTS
    Originals,      \* the amounts clients ask to reserve
    Quotes,         \* what the rate provider may answer
    ApiReasons,     \* why clients release
    Limits,         \* the limits the program is created with or moved to
    MaxAmount,      \* the largest amount a column holds
    Snapshots,      \* the snapshots treasury may send
    MaxTime         \* bound: the service's clock stops here

ASSUME ColumnAssumption == MaxAmount \in Nat

ASSUME InputAssumption ==
    /\ Originals \subseteq Money
    /\ Quotes \subseteq Nat
    /\ ApiReasons \subseteq ReleaseReasons
    /\ Limits \subseteq Int
    /\ \A snap \in Snapshots : IsSnapshot(snap)
    /\ MaxTime \in Nat

VARIABLES
    program,        \* the row of programs, without its watermark
    holds,          \* the rows of reservations, by invoice
    reservedAt,     \* their instants; 0 where the row has none
    releasedAt,
    watermark,      \* [sequence, asOf] of the last snapshot applied
    discrepancies,  \* [state, firstSeen] by <<invoice, reason>>
    logged,         \* by invoice, the sum of its audit entries' deltas
    now             \* the service's clock

rows == [holds |-> holds, reservedAt |-> reservedAt, releasedAt |-> releasedAt]

vars == <<program, holds, reservedAt, releasedAt, watermark, discrepancies,
          logged, now>>

Keys == InvoiceIds \X DiscrepancyReasons

NoDiscrepancy == [state |-> "NONE", firstSeen |-> 0]

OpenKeys == {k \in Keys : discrepancies[k].state = "OPEN"}

TypeOK ==
    /\ program       \in Program
    /\ holds         \in [InvoiceIds -> Reservation]
    /\ reservedAt    \in [InvoiceIds -> Int]
    /\ releasedAt    \in [InvoiceIds -> Int]
    /\ watermark     \in [sequence : Nat \cup {NoSequence}, asOf : Int]
    /\ discrepancies \in [Keys -> [state : {"NONE", "OPEN", "RESOLVED"},
                                   firstSeen : Int]]
    /\ logged        \in [InvoiceIds -> Int]
    /\ now           \in 0..MaxTime

Init ==
    /\ program       = NoProgram
    /\ holds         = [i \in InvoiceIds |-> NoReservation]
    /\ reservedAt    = [i \in InvoiceIds |-> 0]
    /\ releasedAt    = [i \in InvoiceIds |-> 0]
    /\ watermark     = [sequence |-> NoSequence, asOf |-> 0]
    /\ discrepancies = [k \in Keys |-> NoDiscrepancy]
    /\ logged        = [i \in InvoiceIds |-> 0]
    /\ now           = 0

-----------------------------------------------------------------------------
(***************************************************************************)
(* The use cases the service had without snapshots (see CapacityService):  *)
(* a call that changes nothing is a stuttering step.  So is one whose      *)
(* flush fails, with an amount that is too large for its column.           *)
(***************************************************************************)

Storable(amount) == amount <= MaxAmount

CreateProgram(limit) ==
    /\ ~program.exists
    /\ limit >= 0
    /\ Storable(limit)
    /\ program' = NewProgram(limit)
    /\ UNCHANGED <<holds, reservedAt, releasedAt, watermark, discrepancies,
                   logged, now>>

ReserveInvoice(i, original, quote) ==
    LET held == Converted(original, quote)
    IN  /\ program.exists
        /\ ReserveVerdict(program, holds[i], original, quote) = "CREATED"
        /\ Storable(original.minor)
        /\ holds' = [holds EXCEPT ![i] = OpenHold(Conversion(original, quote))]
        /\ reservedAt' = [reservedAt EXCEPT ![i] = now]
        /\ program' = [program EXCEPT !.reserved = @ + held]
        /\ logged' = [logged EXCEPT ![i] = @ + held]
        /\ UNCHANGED <<releasedAt, watermark, discrepancies, now>>

(* A client's release and an InvoiceRepaid message.  Both are stamped with *)
(* the service's clock, and a row may not be released before it is taken:  *)
(* the flush fails while the clock is behind a hold that treasury created. *)
ReleaseReservation(i, reason) ==
    /\ i \in Held(rows)
    /\ now >= reservedAt[i]
    /\ program.reserved >= Outstanding(holds[i])
    /\ holds' = [holds EXCEPT ![i] = Release(@, reason)]
    /\ releasedAt' = [releasedAt EXCEPT ![i] = now]
    /\ program' = [program EXCEPT !.reserved = @ - Outstanding(holds[i])]
    /\ logged' = [logged EXCEPT ![i] = @ - Outstanding(holds[i])]
    /\ UNCHANGED <<reservedAt, watermark, discrepancies, now>>

(* Mutant: the new limit is taken as it comes. *)
ChangeCreditLimitUnchecked(limit) ==
    /\ program.exists
    /\ Storable(limit)
    /\ program' = [program EXCEPT !.limit = limit]
    /\ UNCHANGED <<holds, reservedAt, releasedAt, watermark, discrepancies,
                   logged, now>>

ChangeCreditLimit(limit) ==
    /\ program.exists
    /\ limit >= 0
    /\ Storable(limit)
    /\ program' = [program EXCEPT !.limit = limit]
    /\ UNCHANGED <<holds, reservedAt, releasedAt, watermark, discrepancies,
                   logged, now>>

Tick ==
    /\ now < MaxTime
    /\ now' = now + 1
    /\ UNCHANGED <<program, holds, reservedAt, releasedAt, watermark,
                   discrepancies, logged>>

-----------------------------------------------------------------------------
(***************************************************************************)
(* A snapshot.  SnapshotVerdict is what becomes of the message:            *)
(*   UNKNOWN_PROGRAM, or the gate that refuses it: to the dead letters;    *)
(*   THROWN       a field does not parse, or an operation of the domain,   *)
(*                or of the watermark, refuses;                            *)
(*   CONSTRAINT   the database refuses the rows;                           *)
(*   APPLY        committed.                                               *)
(* THROWN and CONSTRAINT roll everything back and count as transient: the  *)
(* message is left where it is and comes again.                            *)
(***************************************************************************)

(* advanceWatermark has its own guard against going back. *)
Advances(snap) == snap.sequence > watermark.sequence

(* Mutant: a release has to come strictly after its hold. *)
RowsViolateCheckStrictly(snap) ==
    \/ \E i \in Judged(rows, snap, "RELEASE") : snap.asOf <= reservedAt[i]
    \/ \E i \in Judged(rows, snap, "CREATE") : holds[i].status # "NONE"
    \/ \E k \in Discrepancies(rows, snap) :
          /\ discrepancies[k].state # "NONE"
          /\ snap.asOf < discrepancies[k].firstSeen

(* Mutant: the tables have no checks. *)
RowsViolateNothing(snap) == FALSE

(* What the plan writes does not fit the columns, or the counter's check: *)
(* a discrepancy records the amount that treasury reports.                 *)
Overflows(snap) ==
    \/ ~Storable(snap.limit)
    \/ PlannedReserved(program, rows, snap) \notin 0..MaxAmount
    \/ \E i \in InvoiceIds \cap Mentioned(snap) :
          LET entry     == snap.invoices[i]
              judgement == Judgement(rows, snap, i)
          IN  \/ judgement \notin {"KEEP", "RELEASE"} /\ ~Storable(entry.amount)
              \/ judgement = "CREATE" /\ ~Storable(entry.original.minor)
              \/ judgement = "CREATE" /\ ~Storable(entry.rate)

(* reservations_released_after_reserved, the key of reservations,          *)
(* treasury_discrepancies_last_seen_after_first_seen, and the columns.     *)
RowsViolateCheck(snap) ==
    \/ Overflows(snap)
    \/ \E i \in Judged(rows, snap, "RELEASE") : snap.asOf < reservedAt[i]
    \/ \E i \in Judged(rows, snap, "CREATE") : holds[i].status # "NONE"
    \/ \E k \in Discrepancies(rows, snap) :
          /\ discrepancies[k].state # "NONE"
          /\ snap.asOf < discrepancies[k].firstSeen

SnapshotVerdict(snap) ==
    LET screen == ScreenSnapshot(program, rows, watermark.sequence, snap)
    IN  IF ~program.exists THEN "UNKNOWN_PROGRAM"
        ELSE IF ~Parses(snap) THEN "THROWN"
        ELSE IF screen # "APPLY" THEN screen
        ELSE IF Inapplicable(program, rows, snap) \/ ~Advances(snap)
             THEN "THROWN"
        ELSE IF RowsViolateCheck(snap) THEN "CONSTRAINT"
        ELSE "APPLY"

(* Mutant: what is no longer disputed stays open. *)
SettledDiscrepanciesForgetful(disputed, asOf) ==
    [k \in Keys |->
        IF k \notin disputed THEN discrepancies[k]
        ELSE [state     |-> "OPEN",
              firstSeen |-> IF discrepancies[k].state = "NONE"
                            THEN asOf ELSE discrepancies[k].firstSeen]]

(* The upsert seeds first_seen when it inserts the row and never again; a  *)
(* row that was open and is disputed no longer is resolved.                *)
SettledDiscrepancies(disputed, asOf) ==
    [k \in Keys |->
        CASE k \in disputed ->
                [state     |-> "OPEN",
                 firstSeen |-> IF discrepancies[k].state = "NONE"
                               THEN asOf ELSE discrepancies[k].firstSeen]
          [] k \in OpenKeys \ disputed ->
                [discrepancies[k] EXCEPT !.state = "RESOLVED"]
          [] OTHER -> discrepancies[k]]

ApplySnapshot(snap) ==
    LET created  == Judged(rows, snap, "CREATE")
        released == Judged(rows, snap, "RELEASE")
    IN  /\ SnapshotVerdict(snap) = "APPLY"
        /\ holds' = [i \in InvoiceIds |-> PlannedHold(rows, snap, i)]
        /\ reservedAt' = [i \in InvoiceIds |->
                IF i \in created THEN snap.asOf ELSE reservedAt[i]]
        /\ releasedAt' = [i \in InvoiceIds |->
                IF i \in released THEN snap.asOf ELSE releasedAt[i]]
        /\ logged' = [i \in InvoiceIds |-> logged[i] + Delta(rows, snap, i)]
        /\ program' = [program EXCEPT
                !.limit    = snap.limit,
                !.reserved = PlannedReserved(program, rows, snap)]
        /\ discrepancies' =
                SettledDiscrepancies(Discrepancies(rows, snap), snap.asOf)
        /\ watermark' = [sequence |-> snap.sequence, asOf |-> snap.asOf]
        /\ UNCHANGED now

-----------------------------------------------------------------------------

Next ==
    \/ \E limit \in Limits : CreateProgram(limit)
    \/ \E limit \in Limits : ChangeCreditLimit(limit)
    \/ \E i \in InvoiceIds, original \in Originals, quote \in Quotes :
          ReserveInvoice(i, original, quote)
    \/ \E i \in InvoiceIds, reason \in ApiReasons \cup {"REPAID"} :
          ReleaseReservation(i, reason)
    \/ \E snap \in Snapshots : ApplySnapshot(snap)
    \/ Tick

Spec == Init /\ [][Next]_vars

-----------------------------------------------------------------------------
(***************************************************************************)
(* Safety.                                                                 *)
(***************************************************************************)

(* The stored counter is the sum of the active holds, whoever moved them:  *)
(* the invariant that the COUNTER_DRIFT gate tests and nothing repairs.    *)
CounterIsSumOfHolds == program.reserved = ActiveTotal(rows)

(* What the audit log says of an invoice adds up to what it holds, also    *)
(* where one snapshot frees, corrects and creates holds together.          *)
LogAccountsForHolds == \A i \in InvoiceIds : logged[i] = Outstanding(holds[i])

(* Reservation.rehydrate can load every row again: a row that it refuses   *)
(* would fail every later reserve, release and snapshot that reads it.     *)
(* And the columns hold what the program's row says, however far treasury  *)
(* takes the total past the limit.                                         *)
RowsAreLoadable ==
    /\ {program.reserved, program.limit} \subseteq 0..MaxAmount
    /\ \A i \in InvoiceIds :
          /\ i \notin Unheld(rows) => Loadable(holds[i])
          /\ i \in Released(rows)  => releasedAt[i] >= reservedAt[i]

(* A snapshot that parses and passes the gates can be carried out: no      *)
(* operation of the domain, nor the watermark, refuses on the way what the *)
(* plan decided (the counter never goes below zero between two steps,      *)
(* evidence that was accepted opens a hold, a hold is not created over an  *)
(* existing row).  Such a refusal would count as transient and be tried    *)
(* for ever, as a snapshot that does not parse is.                         *)
PlansAreApplicable ==
    \A snap \in Snapshots :
        LET verdict == SnapshotVerdict(snap)
        IN  /\ verdict = "THROWN" => ~Parses(snap)
            /\ verdict = "CONSTRAINT" =>
                   Judged(rows, snap, "CREATE") \subseteq Unheld(rows)

(***************************************************************************)
(* Action properties.                                                      *)
(***************************************************************************)

(* In this step the snapshot was committed. *)
Applied(snap) ==
    /\ watermark' = [sequence |-> snap.sequence, asOf |-> snap.asOf]
    /\ ApplySnapshot(snap)

Disputed(i) == {reason \in DiscrepancyReasons : <<i, reason>> \in OpenKeys}

FxReasons == {"MISSING_FX_EVIDENCE", "INCONSISTENT_FX_EVIDENCE"}

(* After a snapshot the rows say what it says, and where they do not, the  *)
(* difference is in flight or an open discrepancy; and every discrepancy   *)
(* that is open then is such a difference.  (The diff, the plan and the    *)
(* upserting and resolving of discrepancies, against what they are for.)   *)
Agree(snap, i) ==
    LET says == Reported(snap, i)
    IN  CASE says = "REPAID"   -> i \notin Held(rows) /\ Disputed(i) = {}
          [] says = "UNUSABLE" -> Disputed(i) = {"UNUSABLE_AMOUNT"}
          [] says = "NOTHING"  ->
                \/ i \notin Held(rows) /\ Disputed(i) = {}
                \/ reservedAt[i] >= snap.asOf - Margin /\ Disputed(i) = {}
                \/ i \in Held(rows) /\ Disputed(i) = {"HELD_BUT_NOT_REPORTED"}
          [] says = "EXPOSURE" ->
                \/ /\ i \in Held(rows)
                   /\ holds[i].held = snap.invoices[i].amount
                   /\ Disputed(i) = {}
                \/ /\ i \in Released(rows)
                   /\ releasedAt[i] >= snap.asOf - Margin
                   /\ Disputed(i) = {}
                \/ /\ i \in Released(rows)
                   /\ Disputed(i) = {"REPORTED_AGAINST_RELEASED_HOLD"}
                \/ /\ i \in Unheld(rows)
                   /\ \E reason \in FxReasons : Disputed(i) = {reason}

AgreesWith(snap) ==
    program.limit = snap.limit /\ \A i \in InvoiceIds : Agree(snap, i)

SnapshotsSettle ==
    [][watermark' # watermark =>
          \A snap \in Snapshots : Applied(snap) => AgreesWith(snap)']_vars

(* Silence is never evidence: a snapshot leaves the holds it does not      *)
(* mention as they are (PLAN 2.1, the governing rule; an empty list would  *)
(* otherwise free the whole limit).                                        *)
SilenceFreesNothing ==
    [][\A i \in Held(rows) :
          watermark' # watermark /\ holds'[i] # holds[i] =>
             \A snap \in Snapshots : Applied(snap) => i \in Mentioned(snap)]_vars

(* What was quoted stays: a reservation keeps the invoice's own amount and *)
(* its rate for good, also when treasury corrects the hold or frees it     *)
(* (PLAN 2.1 and 2.3: the evidence of an old decision is not restated).    *)
EvidenceIsKept ==
    [][\A i \in InvoiceIds : holds[i].status # "NONE" =>
          /\ holds'[i].original = holds[i].original
          /\ holds'[i].rate = holds[i].rate]_vars

(* A discrepancy that was not open and now is was first seen by the        *)
(* snapshot that opens it (PLAN 2.2, step 7).                              *)
OpensWithItsSnapshot ==
    [][\A k \in Keys : (k \notin OpenKeys /\ (k \in OpenKeys)') =>
          discrepancies'[k].firstSeen = watermark'.asOf]_vars

=============================================================================
