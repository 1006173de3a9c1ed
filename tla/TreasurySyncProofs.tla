------------------------- MODULE TreasurySyncProofs -------------------------
(***************************************************************************)
(* Theorems about TreasurySync, for any invoices, amounts, snapshots,      *)
(* margins and column widths.                                              *)
(***************************************************************************)
EXTENDS TreasurySync, CapacityDomainProofs, SumProofs

-----------------------------------------------------------------------------
(* What a snapshot does to one invoice. *)

(* The steps and discrepancies one invoice can be judged to. *)
Judgements ==
    {"KEEP", "RELEASE", "CORRECT", "CREATE"} \cup DiscrepancyReasons

(* Every judgement, with the state of the row and the report it rests on.  *)
LEMMA JudgementMeaning ==
    ASSUME TypeOK, NEW snap, IsSnapshot(snap), NEW i \in InvoiceIds
    PROVE  LET judgement == Judgement(rows, snap, i)
               entry     == snap.invoices[i]
           IN  /\ judgement \in Judgements
               /\ judgement = "RELEASE" =>
                     i \in Held(rows) /\ Reported(snap, i) = "REPAID"
               /\ judgement = "CORRECT" =>
                     /\ i \in Held(rows) /\ Reported(snap, i) = "EXPOSURE"
                     /\ i \in Mentioned(snap) /\ entry.amount > 0
               /\ judgement = "CREATE" =>
                     /\ i \in Unheld(rows) /\ Reported(snap, i) = "EXPOSURE"
                     /\ i \in Mentioned(snap) /\ entry.amount > 0
<1> DEFINE entry == snap.invoices[i]
<1>1. holds[i].status \in {"NONE", "ACTIVE", "RELEASED"}
  BY DEF TypeOK, Reservation
<1>2. /\ i \in Held(rows) <=> holds[i].status = "ACTIVE"
      /\ i \in Unheld(rows) <=> holds[i].status = "NONE"
      /\ rows.holds = holds
  BY DEF Held, Unheld, With, rows
<1>3. CASE Reported(snap, i) = "NOTHING"
  BY <1>3 DEF Judgement, JudgeSilence, Judgements, DiscrepancyReasons
<1>4. CASE Reported(snap, i) = "REPAID"
  BY <1>4 DEF Judgement, Judgements, DiscrepancyReasons
<1>5. CASE Reported(snap, i) = "UNUSABLE"
  BY <1>5 DEF Judgement, Judgements, DiscrepancyReasons
<1>6. CASE Reported(snap, i) = "EXPOSURE"
  <2>1. i \in Mentioned(snap) /\ entry.amount > 0
    BY <1>6 DEF Reported
  <2>2. Loaded(rows, snap, i) = holds[i]
    BY <1>2, <2>1 DEF Loaded
  <2>3. Judgement(rows, snap, i) = JudgeExposure(rows, snap, i)
    BY <1>6 DEF Judgement
  <2>4. CASE holds[i].status = "RELEASED"
    BY <2>2, <2>3, <2>4, <1>6
       DEF JudgeExposure, JudgeReleased, Judgements, DiscrepancyReasons
  <2>5. CASE holds[i].status = "ACTIVE"
    BY <1>2, <1>6, <2>1, <2>2, <2>3, <2>5
       DEF JudgeExposure, Judgements, DiscrepancyReasons
  <2>6. CASE holds[i].status = "NONE"
    BY <1>2, <1>6, <2>1, <2>2, <2>3, <2>6
       DEF JudgeExposure, EvidenceFault, Judgements, DiscrepancyReasons
  <2> QED BY <1>1, <2>4, <2>5, <2>6
<1>7. Reported(snap, i) \in {"NOTHING", "REPAID", "UNUSABLE", "EXPOSURE"}
  BY DEF Reported
<1> QED BY <1>3, <1>4, <1>5, <1>6, <1>7

(* The row a judgement leaves behind. *)
LEMMA PlannedRow ==
    ASSUME TypeOK, NEW snap, IsSnapshot(snap), NEW i \in InvoiceIds
    PROVE  LET judgement == Judgement(rows, snap, i)
               planned   == PlannedHold(rows, snap, i)
               entry     == snap.invoices[i]
           IN  /\ planned \in Reservation
               /\ judgement = "RELEASE" => planned = Release(holds[i], "REPAID")
               /\ judgement = "CORRECT" => planned = CorrectTo(holds[i], entry.amount)
               /\ judgement = "CREATE"  =>
                     planned = OpenHold([original  |-> entry.original,
                                         converted |-> entry.amount,
                                         rate      |-> entry.rate])
               /\ judgement \notin {"RELEASE", "CORRECT", "CREATE"} =>
                     planned = holds[i]
<1> DEFINE judgement == Judgement(rows, snap, i)
           planned   == PlannedHold(rows, snap, i)
           entry     == snap.invoices[i]
<1>0. rows.holds = holds /\ holds[i] \in Reservation
  BY DEF rows, TypeOK
<1>1. CASE judgement = "RELEASE"
  <2>1. planned = Release(holds[i], "REPAID")
    BY <1>0, <1>1 DEF PlannedHold
  <2> QED BY <1>0, <1>1, <2>1, HoldTypes DEF ReleaseReasons
<1>2. CASE judgement = "CORRECT"
  <2>1. planned = CorrectTo(holds[i], entry.amount)
    BY <1>0, <1>2 DEF PlannedHold
  <2>2. entry.amount \in Int
    BY <1>2, JudgementMeaning DEF IsSnapshot, SnapshotEntry
  <2>3. CorrectTo(holds[i], entry.amount) \in Reservation
    BY <1>0, <2>2 DEF CorrectTo, Reservation
  <2> QED BY <1>2, <2>1, <2>3
<1>3. CASE judgement = "CREATE"
  <2>1. planned = OpenHold([original  |-> entry.original,
                            converted |-> entry.amount,
                            rate      |-> entry.rate])
    BY <1>3 DEF PlannedHold
  <2>2. entry \in SnapshotEntry
    BY <1>3, JudgementMeaning DEF IsSnapshot
  <2>3. OpenHold([original  |-> entry.original,
                  converted |-> entry.amount,
                  rate      |-> entry.rate]) \in Reservation
    BY <2>2 DEF SnapshotEntry, OpenHold, Reservation
  <2> QED BY <1>3, <2>1, <2>3
<1>4. CASE judgement \notin {"RELEASE", "CORRECT", "CREATE"}
  <2>1. planned = holds[i]
    BY <1>0, <1>4 DEF PlannedHold
  <2> QED BY <1>0, <1>4, <2>1
<1> QED BY <1>1, <1>2, <1>3, <1>4

-----------------------------------------------------------------------------
(* What the use cases have checked when they commit. *)

(* A reservation is opened on an empty slot, for no more than is left, and *)
(* with evidence that explains it.                                         *)
LEMMA ReserveMeaning ==
    ASSUME TypeOK, NEW i \in InvoiceIds, NEW original \in Originals,
           NEW quote \in Quotes, ReserveInvoice(i, original, quote)
    PROVE  LET held   == Converted(original, quote)
               opened == OpenHold(Conversion(original, quote))
           IN  /\ held \in Int /\ held > 0
               /\ program.reserved + held <= program.limit
               /\ holds[i].status = "NONE"
               /\ opened \in Reservation
               /\ opened.status = "ACTIVE" /\ Loadable(opened)
               /\ Outstanding(opened) = held
<1> DEFINE held   == Converted(original, quote)
           opened == OpenHold(Conversion(original, quote))
<1>1. original \in Money /\ quote \in Nat
  BY InputAssumption
<1>2. held \in Int /\ opened \in Reservation
  BY <1>1, ConvertedType
<1>3. /\ holds[i].status = "NONE" /\ Priceable(original, quote)
      /\ Holdable(original, held) /\ HasCapacityFor(program, held)
  <2>1. holds[i] \in Reservation
    BY DEF TypeOK
  <2>2. ReserveVerdict(program, holds[i], original, quote) = "CREATED"
    BY DEF ReserveInvoice
  <2> QED BY <1>1, <2>1, <2>2, VerdictMeaning
<1>4. program.reserved + held <= program.limit
  <2>1. program.reserved \in Int /\ program.limit \in Int
    BY DEF TypeOK, Program
  <2> HIDE DEF held
  <2> QED BY <1>2, <1>3, <2>1 DEF HasCapacityFor, Available
<1>5. /\ opened.original = original /\ opened.held = held
      /\ opened.released = 0 /\ opened.status = "ACTIVE" /\ opened.reason = "NONE"
      /\ opened.rate = IF original.currency = "home" THEN NoQuote ELSE quote
  BY DEF OpenHold, Conversion
<1>6. held > 0
  BY <1>3 DEF Holdable
<1>7. Loadable(opened)
  <2> HIDE DEF held, opened
  <2> QED BY <1>3, <1>5, <1>6 DEF Loadable, FxEvidence, Priceable
<1>8. Outstanding(opened) = held
  <2> HIDE DEF held, opened
  <2> QED BY <1>2, <1>5 DEF Outstanding
<1> QED BY <1>2, <1>3, <1>4, <1>5, <1>6, <1>7, <1>8

(* A snapshot that is committed opens what its evidence explains, and      *)
(* releases nothing before it was taken.                                   *)
LEMMA ApplyMeaning ==
    ASSUME NEW snap, IsSnapshot(snap), ApplySnapshot(snap)
    PROVE  /\ snap.limit \in 0..MaxAmount
           /\ PlannedReserved(program, rows, snap) \in 0..MaxAmount
           /\ program.exists
           /\ snap.sequence > watermark.sequence
           /\ \A i \in InvoiceIds : Judgement(rows, snap, i) = "CREATE" =>
                 /\ snap.invoices[i].amount > 0
                 /\ FxEvidence(snap.invoices[i].original, snap.invoices[i].rate)
           /\ \A i \in InvoiceIds : Judgement(rows, snap, i) = "RELEASE" =>
                 ~(snap.asOf < reservedAt[i])
<1>1. /\ program.exists /\ Advances(snap)
      /\ ~Inapplicable(program, rows, snap) /\ ~RowsViolateCheck(snap)
  BY DEF ApplySnapshot, SnapshotVerdict, ScreenSnapshot
<1>2. snap.limit \in 0..MaxAmount
  BY <1>1, ColumnAssumption
     DEF Inapplicable, RowsViolateCheck, Overflows, Storable, IsSnapshot
<1> QED BY <1>1, <1>2 DEF Inapplicable, RowsViolateCheck, Overflows, Judged,
                          Advances, Holdable, Explains

-----------------------------------------------------------------------------
(* Type correctness. *)

(* A slot without a row carries nothing. *)
EmptySlots ==
    \A i \in InvoiceIds : holds[i].status = "NONE" => holds[i] = NoReservation

(* The inductive invariant: the types and the rows lean on each other, for *)
(* a release may only take the counter down by what its row says.          *)
RowInv == TypeOK /\ EmptySlots /\ RowsAreLoadable /\ LogAccountsForHolds

(* Every use case leaves the types as they are. *)
LEMMA TypeStep ==
    ASSUME TypeOK, RowsAreLoadable, [Next]_vars
    PROVE  TypeOK'
<1>0. program.reserved \in Nat /\ program.limit \in Nat /\ program.exists \in BOOLEAN
  BY DEF TypeOK, Program
<1>1. ASSUME NEW limit \in Limits, CreateProgram(limit)
      PROVE  TypeOK'
  <2>1. limit \in Nat
    BY <1>1, InputAssumption DEF CreateProgram
  <2>2. program' \in Program
    BY <1>1, <2>1 DEF CreateProgram, NewProgram, Program
  <2> QED BY <1>1, <2>2 DEF CreateProgram, TypeOK
<1>2. ASSUME NEW limit \in Limits, ChangeCreditLimit(limit)
      PROVE  TypeOK'
  <2>1. limit \in Nat
    BY <1>2, InputAssumption DEF ChangeCreditLimit
  <2>2. program' \in Program
    BY <1>2, <2>1 DEF ChangeCreditLimit, TypeOK, Program
  <2> QED BY <1>2, <2>2 DEF ChangeCreditLimit, TypeOK
<1>3. ASSUME NEW i \in InvoiceIds, NEW original \in Originals, NEW quote \in Quotes,
             ReserveInvoice(i, original, quote)
      PROVE  TypeOK'
  <2> DEFINE held   == Converted(original, quote)
             opened == OpenHold(Conversion(original, quote))
  <2>1. held \in Int /\ held > 0 /\ opened \in Reservation
    BY <1>3, ReserveMeaning
  <2>2. /\ holds' = [holds EXCEPT ![i] = opened]
        /\ reservedAt' = [reservedAt EXCEPT ![i] = now]
        /\ program' = [program EXCEPT !.reserved = program.reserved + held]
        /\ logged' = [logged EXCEPT ![i] = logged[i] + held]
        /\ UNCHANGED <<releasedAt, watermark, discrepancies, now>>
    BY <1>3 DEF ReserveInvoice, TypeOK
  <2> HIDE DEF held, opened
  <2>3. program' \in Program
    BY <1>0, <2>1, <2>2 DEF TypeOK, Program
  <2>4. holds' \in [InvoiceIds -> Reservation]
    BY <2>1, <2>2 DEF TypeOK
  <2>5. reservedAt' \in [InvoiceIds -> Int] /\ logged' \in [InvoiceIds -> Int]
    BY <2>1, <2>2, InputAssumption DEF TypeOK
  <2> QED BY <2>2, <2>3, <2>4, <2>5 DEF TypeOK
<1>4. ASSUME NEW i \in InvoiceIds, NEW reason \in ApiReasons \cup {"REPAID"},
             ReleaseReservation(i, reason)
      PROVE  TypeOK'
  <2> DEFINE freed == Outstanding(holds[i])
  <2>1. holds[i] \in Reservation /\ freed \in Int
    BY HoldTypes DEF TypeOK
  <2>2. reason \in ReleaseReasons
    BY InputAssumption DEF ReleaseReasons
  <2>3. Release(holds[i], reason) \in Reservation
    BY <2>1, <2>2, HoldTypes
  <2>4. /\ holds' = [holds EXCEPT ![i] = Release(holds[i], reason)]
        /\ releasedAt' = [releasedAt EXCEPT ![i] = now]
        /\ program' = [program EXCEPT !.reserved = program.reserved - freed]
        /\ logged' = [logged EXCEPT ![i] = logged[i] - freed]
        /\ program.reserved >= freed
        /\ UNCHANGED <<reservedAt, watermark, discrepancies, now>>
    BY <1>4 DEF ReleaseReservation, TypeOK
  <2> HIDE DEF freed
  <2>5. program' \in Program
    BY <1>0, <2>1, <2>4 DEF TypeOK, Program
  <2>6. holds' \in [InvoiceIds -> Reservation]
    BY <2>3, <2>4 DEF TypeOK
  <2>7. releasedAt' \in [InvoiceIds -> Int] /\ logged' \in [InvoiceIds -> Int]
    BY <2>1, <2>4, InputAssumption DEF TypeOK
  <2> QED BY <2>4, <2>5, <2>6, <2>7 DEF TypeOK
<1>5. ASSUME NEW snap \in Snapshots, ApplySnapshot(snap)
      PROVE  TypeOK'
  <2>1. /\ IsSnapshot(snap)
        /\ {snap.sequence, snap.asOf, snap.limit} \subseteq Int
    BY InputAssumption DEF IsSnapshot
  <2>2. /\ snap.limit \in Nat /\ PlannedReserved(program, rows, snap) \in Nat
        /\ snap.sequence > watermark.sequence
    BY <1>5, <2>1, ApplyMeaning
  <2>3. program' \in Program
    BY <1>0, <1>5, <2>2 DEF ApplySnapshot, TypeOK, Program
  <2>4. holds' \in [InvoiceIds -> Reservation]
    BY <1>5, <2>1, PlannedRow DEF ApplySnapshot
  <2>5. logged' \in [InvoiceIds -> Int]
    <3>1. ASSUME NEW i \in InvoiceIds
          PROVE  Delta(rows, snap, i) \in Int
      <4>1. holds[i] \in Reservation /\ PlannedHold(rows, snap, i) \in Reservation
        BY <2>1, PlannedRow DEF TypeOK
      <4>2. /\ Outstanding(rows.holds[i]) \in Int
            /\ Outstanding(PlannedHold(rows, snap, i)) \in Int
        BY <4>1, HoldTypes DEF rows
      <4> QED BY <4>2 DEF Delta
    <3> QED BY <1>5, <3>1 DEF ApplySnapshot, TypeOK
  <2>6. reservedAt' \in [InvoiceIds -> Int] /\ releasedAt' \in [InvoiceIds -> Int]
    BY <1>5, <2>1 DEF ApplySnapshot, TypeOK
  <2>7. watermark' \in [sequence : Nat \cup {NoSequence}, asOf : Int]
    BY <1>5, <2>1, <2>2 DEF ApplySnapshot, TypeOK, NoSequence
  <2>8. discrepancies' \in [Keys -> [state : {"NONE", "OPEN", "RESOLVED"},
                                     firstSeen : Int]]
    <3>1. \A k \in Keys :
             SettledDiscrepancies(Discrepancies(rows, snap), snap.asOf)[k]
                \in [state : {"NONE", "OPEN", "RESOLVED"}, firstSeen : Int]
      BY <2>1 DEF SettledDiscrepancies, TypeOK
    <3> QED BY <1>5, <3>1 DEF ApplySnapshot, SettledDiscrepancies
  <2> QED BY <1>5, <2>3, <2>4, <2>5, <2>6, <2>7, <2>8 DEF ApplySnapshot, TypeOK
<1>6. CASE Tick
  BY <1>6, InputAssumption DEF Tick, TypeOK
<1>7. CASE UNCHANGED vars
  BY <1>7 DEF vars, TypeOK
<1> QED BY <1>1, <1>2, <1>3, <1>4, <1>5, <1>6, <1>7 DEF Next

-----------------------------------------------------------------------------
(* The rows. *)

(* What the invariants ask of one row: its fields, its instants and what   *)
(* the log says of it.                                                     *)
RowOK(r, reserved, released, log) ==
    /\ r.status = "NONE" => r = NoReservation
    /\ r.status # "NONE" => Loadable(r)
    /\ r.status = "RELEASED" => released >= reserved
    /\ log = Outstanding(r)

(* The invariants of the rows are those of each row, and of the program's. *)
LEMMA RowInvByRow ==
    RowInv <=> /\ TypeOK
               /\ {program.reserved, program.limit} \subseteq 0..MaxAmount
               /\ \A i \in InvoiceIds :
                     RowOK(holds[i], reservedAt[i], releasedAt[i], logged[i])
BY DEF RowInv, EmptySlots, RowsAreLoadable, LogAccountsForHolds, RowOK, Unheld,
       Released, With, rows

(* The same of the state after a step. *)
LEMMA NextRowInvByRow ==
    ASSUME TypeOK', {program.reserved, program.limit}' \subseteq 0..MaxAmount,
           \A i \in InvoiceIds :
              RowOK(holds'[i], reservedAt'[i], releasedAt'[i], logged'[i])
    PROVE  RowInv'
BY DEF RowInv, EmptySlots, RowsAreLoadable, LogAccountsForHolds, RowOK, Unheld,
       Released, With, rows

(* A release gives all of the hold back, for good. *)
LEMMA ReleasedRow ==
    ASSUME NEW r \in Reservation, r.status = "ACTIVE", Loadable(r),
           NEW reason \in ReleaseReasons
    PROVE  LET released == Release(r, reason)
           IN  /\ released.status = "RELEASED" /\ Loadable(released)
               /\ Outstanding(released) = 0
               /\ Outstanding(r) = r.held /\ r.held > 0
BY DEF Release, IsReleased, Loadable, FxEvidence, Outstanding, Reservation,
       ReleaseReasons

(* The row a snapshot plans is in order where the row it found was. *)
LEMMA PlannedRowOK ==
    ASSUME TypeOK, NEW snap, IsSnapshot(snap), ApplySnapshot(snap),
           NEW i \in InvoiceIds,
           RowOK(holds[i], reservedAt[i], releasedAt[i], logged[i])
    PROVE  RowOK(holds'[i], reservedAt'[i], releasedAt'[i], logged'[i])
<1> DEFINE judgement == Judgement(rows, snap, i)
           planned   == PlannedHold(rows, snap, i)
           entry     == snap.invoices[i]
<1>1. /\ holds'[i] = planned
      /\ reservedAt'[i] = IF judgement = "CREATE" THEN snap.asOf ELSE reservedAt[i]
      /\ releasedAt'[i] = IF judgement = "RELEASE" THEN snap.asOf ELSE releasedAt[i]
      /\ logged'[i] = logged[i] + Delta(rows, snap, i)
  BY DEF ApplySnapshot, Judged
<1>2. holds[i] \in Reservation /\ planned \in Reservation
  BY PlannedRow DEF TypeOK
<1>3. logged'[i] = Outstanding(planned)
  <2>1. Outstanding(holds[i]) \in Int /\ Outstanding(planned) \in Int
    BY <1>2, HoldTypes
  <2>2. Delta(rows, snap, i) = Outstanding(planned) - Outstanding(holds[i])
    BY DEF Delta, rows
  <2>3. logged[i] = Outstanding(holds[i])
    BY DEF RowOK
  <2> HIDE DEF planned
  <2> QED BY <1>1, <2>1, <2>2, <2>3
<1>4. CASE judgement = "RELEASE"
  <2>1. /\ planned = Release(holds[i], "REPAID")
        /\ holds[i].status = "ACTIVE"
        /\ ~(snap.asOf < reservedAt[i])
    BY <1>4, PlannedRow, JudgementMeaning, ApplyMeaning DEF Held, With, rows
  <2>2. planned.status = "RELEASED" /\ Loadable(planned)
    BY <1>2, <2>1, ReleasedRow DEF ReleaseReasons, RowOK
  <2>3. snap.asOf >= reservedAt[i]
    BY <2>1 DEF IsSnapshot, TypeOK
  <2>4. reservedAt'[i] = reservedAt[i] /\ releasedAt'[i] = snap.asOf
    BY <1>1, <1>4
  <2> QED BY <1>1, <1>3, <2>2, <2>3, <2>4 DEF RowOK
<1>5. CASE judgement = "CORRECT"
  <2>1. /\ planned = CorrectTo(holds[i], entry.amount)
        /\ holds[i].status = "ACTIVE"
        /\ entry.amount > 0
    BY <1>5, PlannedRow, JudgementMeaning DEF Held, With, rows
  <2>2. planned.status = "ACTIVE" /\ Loadable(planned)
    BY <1>2, <2>1 DEF CorrectTo, RowOK, Loadable, FxEvidence, Reservation
  <2> QED BY <1>1, <1>3, <2>2 DEF RowOK
<1>6. CASE judgement = "CREATE"
  <2>1. /\ planned = OpenHold([original  |-> entry.original,
                               converted |-> entry.amount,
                               rate      |-> entry.rate])
        /\ entry.amount > 0
        /\ FxEvidence(entry.original, entry.rate)
    BY <1>6, PlannedRow, ApplyMeaning
  <2>2. planned.status = "ACTIVE" /\ Loadable(planned)
    BY <2>1 DEF OpenHold, Loadable, FxEvidence
  <2> QED BY <1>1, <1>3, <2>2 DEF RowOK
<1>7. CASE judgement \notin {"RELEASE", "CORRECT", "CREATE"}
  <2>1. planned = holds[i]
    BY <1>7, PlannedRow
  <2>2. reservedAt'[i] = reservedAt[i] /\ releasedAt'[i] = releasedAt[i]
    BY <1>1, <1>7
  <2> QED BY <1>1, <1>3, <2>1, <2>2 DEF RowOK
<1> QED BY <1>4, <1>5, <1>6, <1>7

(* Every use case leaves every row, the log and the columns in order. *)
LEMMA RowStep ==
    ASSUME RowInv, [Next]_vars
    PROVE  RowInv'
<1>0. /\ TypeOK /\ TypeOK'
      /\ \A i \in InvoiceIds :
            RowOK(holds[i], reservedAt[i], releasedAt[i], logged[i])
      /\ program.reserved \in 0..MaxAmount /\ program.limit \in 0..MaxAmount
      /\ MaxAmount \in Nat
  <2>1. TypeOK /\ RowsAreLoadable
    BY DEF RowInv
  <2> QED BY <2>1, TypeStep, RowInvByRow, ColumnAssumption
<1>1. ASSUME UNCHANGED <<holds, reservedAt, releasedAt, logged>>,
             program'.reserved \in 0..MaxAmount, program'.limit \in 0..MaxAmount
      PROVE  RowInv'
  BY <1>0, <1>1, NextRowInvByRow
<1>2. ASSUME NEW limit \in Limits, CreateProgram(limit)
      PROVE  RowInv'
  BY <1>0, <1>1, <1>2, InputAssumption DEF CreateProgram, NewProgram, Storable
<1>3. ASSUME NEW limit \in Limits, ChangeCreditLimit(limit)
      PROVE  RowInv'
  BY <1>0, <1>1, <1>3, InputAssumption
     DEF ChangeCreditLimit, Storable, TypeOK, Program
<1>4. ASSUME NEW i \in InvoiceIds, NEW original \in Originals, NEW quote \in Quotes,
             ReserveInvoice(i, original, quote)
      PROVE  RowInv'
  <2> DEFINE held   == Converted(original, quote)
             opened == OpenHold(Conversion(original, quote))
  <2>1. /\ held \in Int /\ held > 0 /\ program.reserved + held <= program.limit
        /\ holds[i].status = "NONE" /\ opened.status = "ACTIVE"
        /\ Loadable(opened) /\ Outstanding(opened) = held
    BY <1>0, <1>4, ReserveMeaning
  <2>2. /\ holds' = [holds EXCEPT ![i] = opened]
        /\ reservedAt' = [reservedAt EXCEPT ![i] = now]
        /\ releasedAt' = releasedAt
        /\ program' = [program EXCEPT !.reserved = program.reserved + held]
        /\ logged' = [logged EXCEPT ![i] = logged[i] + held]
    BY <1>4 DEF ReserveInvoice
  <2>3. logged[i] = 0
    BY <1>0, <2>1 DEF RowOK, NoReservation, Outstanding
  <2> HIDE DEF held, opened
  <2>4. program'.reserved = program.reserved + held /\ program'.limit = program.limit
    BY <1>0, <2>2 DEF TypeOK, Program
  <2>5. program'.reserved \in 0..MaxAmount /\ program'.limit \in 0..MaxAmount
    BY <1>0, <2>1, <2>4
  <2>6. ASSUME NEW j \in InvoiceIds
        PROVE  RowOK(holds'[j], reservedAt'[j], releasedAt'[j], logged'[j])
    <3>1. CASE j # i
      BY <1>0, <2>2, <3>1 DEF TypeOK
    <3>2. CASE j = i
      <4>1. holds'[i] = opened /\ logged'[i] = held
        BY <1>0, <2>1, <2>2, <2>3 DEF TypeOK
      <4> QED BY <2>1, <3>2, <4>1 DEF RowOK
    <3> QED BY <3>1, <3>2
  <2> QED BY <1>0, <2>5, <2>6, NextRowInvByRow
<1>5. ASSUME NEW i \in InvoiceIds, NEW reason \in ApiReasons \cup {"REPAID"},
             ReleaseReservation(i, reason)
      PROVE  RowInv'
  <2> DEFINE freed == Outstanding(holds[i])
             after == Release(holds[i], reason)
  <2>1. /\ holds[i].status = "ACTIVE" /\ now >= reservedAt[i]
        /\ program.reserved >= freed
        /\ holds' = [holds EXCEPT ![i] = after]
        /\ reservedAt' = reservedAt
        /\ releasedAt' = [releasedAt EXCEPT ![i] = now]
        /\ program' = [program EXCEPT !.reserved = program.reserved - freed]
        /\ logged' = [logged EXCEPT ![i] = logged[i] - freed]
    BY <1>5 DEF ReleaseReservation, Held, With, rows
  <2>2. reason \in ReleaseReasons
    BY InputAssumption DEF ReleaseReasons
  <2>3. holds[i] \in Reservation /\ freed \in Int
    BY <1>0, HoldTypes DEF TypeOK
  <2>4. Loadable(holds[i]) /\ logged[i] = freed
    BY <1>0, <2>1 DEF RowOK
  <2>5. /\ after.status = "RELEASED" /\ Loadable(after)
        /\ Outstanding(after) = 0 /\ freed > 0
    BY <2>1, <2>2, <2>3, <2>4, ReleasedRow
  <2> HIDE DEF freed, after
  <2>6. program'.reserved = program.reserved - freed /\ program'.limit = program.limit
    BY <1>0, <2>1 DEF TypeOK, Program
  <2>7. program'.reserved \in 0..MaxAmount /\ program'.limit \in 0..MaxAmount
    BY <1>0, <2>1, <2>3, <2>5, <2>6
  <2>8. ASSUME NEW j \in InvoiceIds
        PROVE  RowOK(holds'[j], reservedAt'[j], releasedAt'[j], logged'[j])
    <3>1. CASE j # i
      BY <1>0, <2>1, <3>1 DEF TypeOK
    <3>2. CASE j = i
      <4>1. holds'[i] = after /\ releasedAt'[i] = now
        BY <1>0, <2>1 DEF TypeOK
      <4>2. logged'[i] = 0
        BY <1>0, <2>1, <2>3, <2>4 DEF TypeOK
      <4> QED BY <2>1, <2>5, <3>2, <4>1, <4>2 DEF RowOK
    <3> QED BY <3>1, <3>2
  <2> QED BY <1>0, <2>7, <2>8, NextRowInvByRow
<1>6. ASSUME NEW snap \in Snapshots, ApplySnapshot(snap)
      PROVE  RowInv'
  <2>1. IsSnapshot(snap)
    BY InputAssumption
  <2>2. snap.limit \in 0..MaxAmount /\ PlannedReserved(program, rows, snap) \in 0..MaxAmount
    BY <1>6, <2>1, ApplyMeaning
  <2>3. program'.reserved \in 0..MaxAmount /\ program'.limit \in 0..MaxAmount
    BY <1>0, <1>6, <2>2 DEF ApplySnapshot, TypeOK, Program
  <2> QED BY <1>0, <1>6, <2>1, <2>3, PlannedRowOK, NextRowInvByRow
<1>7. CASE Tick
  BY <1>0, <1>1, <1>7 DEF Tick
<1>8. CASE UNCHANGED vars
  BY <1>0, <1>1, <1>8 DEF vars
<1> QED BY <1>2, <1>3, <1>4, <1>5, <1>6, <1>7, <1>8 DEF Next

(* An empty database is in order. *)
LEMMA RowInit == Init => RowInv
<1> SUFFICES ASSUME Init
             PROVE  RowInv
  OBVIOUS
<1>1. TypeOK
  BY HoldTypes, InputAssumption
     DEF Init, TypeOK, NoProgram, Program, NoSequence, NoDiscrepancy
<1>2. \A i \in InvoiceIds :
         RowOK(holds[i], reservedAt[i], releasedAt[i], logged[i])
  BY DEF Init, RowOK, NoReservation, Outstanding
<1>3. {program.reserved, program.limit} \subseteq 0..MaxAmount
  BY ColumnAssumption DEF Init, NoProgram
<1> QED BY <1>1, <1>2, <1>3, RowInvByRow

(* What is true of the rows at every moment. *)
LEMMA RowInvariant == Spec => []RowInv
BY RowInit, RowStep, PTL DEF Spec

(* Every variable keeps its type, whatever arrives in whatever order; the  *)
(* stored total is never negative.                                         *)
THEOREM TypeCorrect == Spec => []TypeOK
<1>1. RowInv => TypeOK
  BY DEF RowInv
<1> QED BY <1>1, RowInvariant, PTL

(* Every row can be loaded again by Reservation.rehydrate, no hold ends    *)
(* before it begins, and the program's figures fit their columns.          *)
THEOREM RowsStayLoadable == Spec => []RowsAreLoadable
<1>1. RowInv => RowsAreLoadable
  BY DEF RowInv
<1> QED BY <1>1, RowInvariant, PTL

(* The audit entries of every invoice add up to what it holds, through     *)
(* reserves, releases, corrections and holds that treasury created.        *)
THEOREM LogExplainsRows == Spec => []LogAccountsForHolds
<1>1. RowInv => LogAccountsForHolds
  BY DEF RowInv
<1> QED BY <1>1, RowInvariant, PTL

-----------------------------------------------------------------------------
(* What a step may never do. *)

(* A use case that is not a snapshot leaves the invoice's own amount and   *)
(* the rate of every row alone, and so does a snapshot.                    *)
LEMMA EvidenceStep ==
    ASSUME RowInv, [Next]_vars, NEW i \in InvoiceIds, holds[i].status # "NONE"
    PROVE  /\ holds'[i].original = holds[i].original
           /\ holds'[i].rate = holds[i].rate
<1>0. TypeOK /\ holds[i] \in Reservation
  BY DEF RowInv, TypeOK
<1>1. CASE holds'[i] = holds[i]
  BY <1>1
<1>2. ASSUME NEW j \in InvoiceIds, NEW original \in Originals, NEW quote \in Quotes,
             ReserveInvoice(j, original, quote)
      PROVE  holds'[i] = holds[i]
  <2>1. j # i
    BY <1>0, <1>2, ReserveMeaning
  <2> QED BY <1>0, <1>2, <2>1 DEF ReserveInvoice, TypeOK
<1>3. ASSUME NEW j \in InvoiceIds, NEW reason \in ApiReasons \cup {"REPAID"},
             ReleaseReservation(j, reason)
      PROVE  holds'[i] \in {holds[i], Release(holds[i], reason)}
  BY <1>0, <1>3 DEF ReleaseReservation, TypeOK
<1>4. ASSUME NEW snap \in Snapshots, ApplySnapshot(snap)
      PROVE  \/ holds'[i] = holds[i]
             \/ holds'[i] = Release(holds[i], "REPAID")
             \/ holds'[i] = CorrectTo(holds[i], snap.invoices[i].amount)
  <2>1. IsSnapshot(snap) /\ holds'[i] = PlannedHold(rows, snap, i)
    BY <1>4, InputAssumption DEF ApplySnapshot
  <2>2. Judgement(rows, snap, i) # "CREATE"
    BY <1>0, <2>1, JudgementMeaning DEF Unheld, With, rows
  <2> QED BY <1>0, <2>1, <2>2, PlannedRow
<1>5. ASSUME NEW reason, holds'[i] = Release(holds[i], reason)
      PROVE  holds'[i].original = holds[i].original /\ holds'[i].rate = holds[i].rate
  BY <1>0, <1>5 DEF Release, IsReleased, Reservation
<1>6. ASSUME NEW amount, holds'[i] = CorrectTo(holds[i], amount)
      PROVE  holds'[i].original = holds[i].original /\ holds'[i].rate = holds[i].rate
  BY <1>0, <1>6 DEF CorrectTo, Reservation
<1>7. CASE UNCHANGED holds
  BY <1>7
<1> QED BY <1>1, <1>2, <1>3, <1>4, <1>5, <1>6, <1>7
        DEF Next, CreateProgram, ChangeCreditLimit, Tick, vars

(* No correction, release or later snapshot restates what was quoted.      *)
THEOREM EvidenceStays == Spec => EvidenceIsKept
<1>1. ASSUME RowInv, [Next]_vars
      PROVE  [\A i \in InvoiceIds : holds[i].status # "NONE" =>
                 /\ holds'[i].original = holds[i].original
                 /\ holds'[i].rate = holds[i].rate]_vars
  BY <1>1, EvidenceStep
<1> QED BY <1>1, RowInvariant, PTL DEF Spec, EvidenceIsKept

(* An invoice that a snapshot does not mention keeps its row. *)
LEMMA SilenceStep ==
    ASSUME TypeOK, NEW snap \in Snapshots, ApplySnapshot(snap),
           NEW i \in InvoiceIds, holds'[i] # holds[i]
    PROVE  i \in Mentioned(snap)
<1>1. IsSnapshot(snap) /\ holds'[i] = PlannedHold(rows, snap, i)
  BY InputAssumption DEF ApplySnapshot
<1>2. Judgement(rows, snap, i) \in {"RELEASE", "CORRECT", "CREATE"}
  BY <1>1, PlannedRow
<1>3. Reported(snap, i) # "NOTHING"
  BY <1>1, <1>2, JudgementMeaning
<1> QED BY <1>3 DEF Reported

(* Silence is never taken for a repayment, by any snapshot. *)
THEOREM SilenceIsNoEvidence == Spec => SilenceFreesNothing
<1>1. ASSUME TypeOK, [Next]_vars
      PROVE  [\A i \in Held(rows) :
                 watermark' # watermark /\ holds'[i] # holds[i] =>
                    \A snap \in Snapshots : Applied(snap) => i \in Mentioned(snap)]_vars
  BY <1>1, SilenceStep DEF Held, With, Applied
<1> QED BY <1>1, TypeCorrect, PTL DEF Spec, SilenceFreesNothing

-----------------------------------------------------------------------------
(* What a snapshot leaves unsettled. *)

(* Exactly the disputed keys are open when the snapshot is committed. *)
LEMMA OpenAreDisputed ==
    ASSUME TypeOK, NEW snap, ApplySnapshot(snap), NEW i \in InvoiceIds
    PROVE  Disputed(i)' = {Judgement(rows, snap, i)} \cap DiscrepancyReasons
<1> DEFINE disputed == Discrepancies(rows, snap)
<1>1. ASSUME NEW reason \in DiscrepancyReasons
      PROVE  <<i, reason>> \in disputed <=> Judgement(rows, snap, i) = reason
  BY <1>1 DEF Discrepancies
<1>2. ASSUME NEW k \in Keys
      PROVE  discrepancies'[k].state = "OPEN" <=> k \in disputed
  <2>1. discrepancies'[k] = SettledDiscrepancies(disputed, snap.asOf)[k]
    BY DEF ApplySnapshot
  <2> HIDE DEF disputed
  <2>2. CASE k \in disputed
    BY <2>1, <2>2 DEF SettledDiscrepancies
  <2>3. CASE k \in OpenKeys \ disputed
    BY <2>1, <2>3 DEF SettledDiscrepancies, OpenKeys, TypeOK
  <2>4. CASE k \notin disputed /\ k \notin OpenKeys
    BY <2>1, <2>4 DEF SettledDiscrepancies, OpenKeys
  <2> QED BY <2>2, <2>3, <2>4
<1>3. \A reason \in DiscrepancyReasons :
         <<i, reason>> \in OpenKeys' <=> Judgement(rows, snap, i) = reason
  BY <1>1, <1>2 DEF OpenKeys, Keys
<1> QED BY <1>3 DEF Disputed

(* The row agrees with the report, or the difference is in flight or is    *)
(* the discrepancy that is open.                                           *)
LEMMA AgreeStep ==
    ASSUME TypeOK, TypeOK', NEW snap \in Snapshots, ApplySnapshot(snap),
           NEW i \in InvoiceIds
    PROVE  Agree(snap, i)'
<1> DEFINE judgement == Judgement(rows, snap, i)
           entry     == snap.invoices[i]
<1>0. /\ IsSnapshot(snap)
      /\ holds'[i] = PlannedHold(rows, snap, i)
      /\ reservedAt'[i] = IF judgement = "CREATE" THEN snap.asOf ELSE reservedAt[i]
      /\ releasedAt'[i] = IF judgement = "RELEASE" THEN snap.asOf ELSE releasedAt[i]
  BY InputAssumption DEF ApplySnapshot, Judged
<1>1. /\ holds[i] \in Reservation
      /\ holds[i].status \in {"NONE", "ACTIVE", "RELEASED"}
  BY DEF TypeOK, Reservation
<1>2. /\ (i \in Held(rows))' <=> holds'[i].status = "ACTIVE"
      /\ (i \in Released(rows))' <=> holds'[i].status = "RELEASED"
      /\ (i \in Unheld(rows))' <=> holds'[i].status = "NONE"
      /\ i \in Held(rows) <=> holds[i].status = "ACTIVE"
      /\ i \in Released(rows) <=> holds[i].status = "RELEASED"
      /\ i \in Unheld(rows) <=> holds[i].status = "NONE"
  BY DEF Held, Released, Unheld, With, rows
<1>3. Disputed(i)' = {judgement} \cap DiscrepancyReasons
  BY OpenAreDisputed
<1>4. judgement \in {"KEEP", "RELEASE", "CORRECT", "CREATE"} => Disputed(i)' = {}
  BY <1>3 DEF DiscrepancyReasons
<1>5. judgement \notin {"RELEASE", "CORRECT", "CREATE"} =>
          /\ holds'[i] = holds[i]
          /\ reservedAt'[i] = reservedAt[i] /\ releasedAt'[i] = releasedAt[i]
  BY <1>0, PlannedRow
<1>6. CASE Reported(snap, i) = "REPAID"
  <2>1. CASE judgement = "RELEASE"
    <3>1. holds'[i] = Release(holds[i], "REPAID") /\ i \in Held(rows)
      BY <1>0, <2>1, PlannedRow, JudgementMeaning
    <3>2. holds'[i].status = "RELEASED"
      BY <1>1, <1>2, <3>1 DEF Release, IsReleased, Reservation
    <3> QED BY <1>2, <1>4, <1>6, <2>1, <3>2 DEF Agree
  <2>2. CASE judgement = "KEEP" /\ i \notin Held(rows)
    BY <1>2, <1>4, <1>5, <1>6, <2>2 DEF Agree
  <2> QED BY <1>6, <2>1, <2>2 DEF Judgement
<1>7. CASE Reported(snap, i) = "UNUSABLE"
  <2>1. judgement = "UNUSABLE_AMOUNT"
    BY <1>7 DEF Judgement
  <2>2. Disputed(i)' = {"UNUSABLE_AMOUNT"}
    BY <1>3, <2>1 DEF DiscrepancyReasons
  <2> QED BY <1>7, <2>2 DEF Agree
<1>8. CASE Reported(snap, i) = "NOTHING"
  <2>1. judgement = JudgeSilence(rows, snap, i)
    BY <1>8 DEF Judgement
  <2>2. CASE i \notin Held(rows)
    <3>1. judgement = "KEEP"
      BY <2>1, <2>2 DEF JudgeSilence
    <3> QED BY <1>2, <1>4, <1>5, <1>8, <2>2, <3>1 DEF Agree
  <2>3. CASE i \in Held(rows) /\ reservedAt[i] < snap.asOf - Margin
    <3>1. judgement = "HELD_BUT_NOT_REPORTED"
      BY <2>1, <2>3 DEF JudgeSilence, Cutoff, rows
    <3>2. Disputed(i)' = {"HELD_BUT_NOT_REPORTED"} /\ (i \in Held(rows))'
      BY <1>2, <1>3, <1>5, <2>3, <3>1 DEF DiscrepancyReasons
    <3> QED BY <1>8, <3>2 DEF Agree
  <2>4. CASE i \in Held(rows) /\ ~(reservedAt[i] < snap.asOf - Margin)
    <3>1. judgement = "KEEP"
      BY <2>1, <2>4 DEF JudgeSilence, Cutoff, rows
    <3>2. reservedAt'[i] >= snap.asOf - Margin
      BY <1>0, <1>5, <2>4, <3>1, MarginAssumption DEF IsSnapshot, TypeOK
    <3> QED BY <1>4, <1>8, <3>1, <3>2 DEF Agree
  <2> QED BY <2>2, <2>3, <2>4
<1>9. CASE Reported(snap, i) = "EXPOSURE"
  <2>1. i \in Mentioned(snap) /\ judgement = JudgeExposure(rows, snap, i)
    BY <1>9 DEF Reported, Judgement
  <2>2. Loaded(rows, snap, i) = holds[i]
    BY <2>1 DEF Loaded, rows
  <2>3. CASE holds[i].status = "RELEASED"
    <3>1. judgement = JudgeReleased(rows, snap, i)
      BY <2>1, <2>2, <2>3 DEF JudgeExposure
    <3>2. CASE releasedAt[i] >= snap.asOf - Margin
      <4>1. judgement = "KEEP"
        BY <3>1, <3>2 DEF JudgeReleased, Cutoff, rows
      <4>2. (i \in Released(rows))' /\ releasedAt'[i] = releasedAt[i]
        BY <1>2, <1>5, <2>3, <4>1
      <4> QED BY <1>4, <1>9, <3>2, <4>1, <4>2 DEF Agree
    <3>3. CASE ~(releasedAt[i] >= snap.asOf - Margin)
      <4>1. judgement = "REPORTED_AGAINST_RELEASED_HOLD"
        BY <3>1, <3>3 DEF JudgeReleased, Cutoff, rows
      <4>2. /\ (i \in Released(rows))'
            /\ Disputed(i)' = {"REPORTED_AGAINST_RELEASED_HOLD"}
        BY <1>2, <1>3, <1>5, <2>3, <4>1 DEF DiscrepancyReasons
      <4> QED BY <1>9, <4>2 DEF Agree
    <3> QED BY <3>2, <3>3
  <2>4. CASE holds[i].status = "ACTIVE"
    <3>1. CASE entry.amount = holds[i].held
      <4>1. judgement = "KEEP"
        BY <2>1, <2>2, <2>4, <3>1 DEF JudgeExposure
      <4>2. (i \in Held(rows))' /\ holds'[i].held = entry.amount
        BY <1>2, <1>5, <2>4, <3>1, <4>1
      <4> QED BY <1>4, <1>9, <4>1, <4>2 DEF Agree
    <3>2. CASE entry.amount # holds[i].held
      <4>1. judgement = "CORRECT"
        BY <2>1, <2>2, <2>4, <3>2 DEF JudgeExposure
      <4>2. holds'[i] = CorrectTo(holds[i], entry.amount)
        BY <1>0, <4>1, PlannedRow
      <4>3. (i \in Held(rows))' /\ holds'[i].held = entry.amount
        BY <1>1, <1>2, <2>4, <4>2 DEF CorrectTo, Reservation
      <4> QED BY <1>4, <1>9, <4>1, <4>3 DEF Agree
    <3> QED BY <3>1, <3>2
  <2>5. CASE holds[i].status = "NONE"
    <3>1. CASE EvidenceFault(entry) = "NONE"
      <4>1. judgement = "CREATE"
        BY <2>1, <2>2, <2>5, <3>1 DEF JudgeExposure
      <4>2. holds'[i] = OpenHold([original  |-> entry.original,
                                  converted |-> entry.amount,
                                  rate      |-> entry.rate])
        BY <1>0, <4>1, PlannedRow
      <4>3. (i \in Held(rows))' /\ holds'[i].held = entry.amount
        BY <1>2, <4>2 DEF OpenHold
      <4> QED BY <1>4, <1>9, <4>1, <4>3 DEF Agree
    <3>2. CASE EvidenceFault(entry) # "NONE"
      <4>1. judgement = EvidenceFault(entry) /\ judgement \in FxReasons
        BY <2>1, <2>2, <2>5, <3>2 DEF JudgeExposure, EvidenceFault, FxReasons
      <4>2. (i \in Unheld(rows))' /\ Disputed(i)' = {judgement}
        BY <1>2, <1>3, <1>5, <2>5, <4>1 DEF FxReasons, DiscrepancyReasons
      <4> QED BY <1>9, <4>1, <4>2 DEF Agree
    <3> QED BY <3>1, <3>2
  <2> QED BY <1>1, <2>3, <2>4, <2>5
<1> QED BY <1>6, <1>7, <1>8, <1>9 DEF Reported

(* Whatever a snapshot says of any number of invoices, once it is committed *)
(* the rows agree with it or the difference is on record; and nothing else *)
(* is.                                                                     *)
THEOREM SnapshotsAreSettled == Spec => SnapshotsSettle
<1>1. ASSUME TypeOK, TypeOK', NEW snap \in Snapshots, Applied(snap)
      PROVE  AgreesWith(snap)'
  <2>1. \A i \in InvoiceIds : Agree(snap, i)'
    BY <1>1, AgreeStep DEF Applied
  <2>2. program'.limit = snap.limit
    BY <1>1 DEF Applied, ApplySnapshot, TypeOK, Program
  <2> QED BY <2>1, <2>2 DEF AgreesWith
<1>2. ASSUME TypeOK, TypeOK', [Next]_vars
      PROVE  [watermark' # watermark =>
                 \A snap \in Snapshots : Applied(snap) => AgreesWith(snap)']_vars
  BY <1>1, <1>2
<1> QED BY <1>2, TypeCorrect, PTL DEF Spec, SnapshotsSettle

-----------------------------------------------------------------------------
(* The counter and the rows. *)

Outstandings == [i \in InvoiceIds |-> Outstanding(holds[i])]

(* What a row carries, from its status. *)
LEMMA OutstandingByStatus ==
    RowInv => \A i \in InvoiceIds :
                 /\ Outstandings[i] \in Nat
                 /\ i \notin Held(rows) => Outstandings[i] = 0
<1> SUFFICES ASSUME RowInv, NEW i \in InvoiceIds
             PROVE  /\ Outstanding(holds[i]) \in Nat
                    /\ i \notin Held(rows) => Outstanding(holds[i]) = 0
  BY DEF Outstandings
<1>1. /\ RowOK(holds[i], reservedAt[i], releasedAt[i], logged[i])
      /\ holds[i].status \in {"NONE", "ACTIVE", "RELEASED"}
      /\ holds[i].held \in Int /\ holds[i].released \in Int
      /\ i \in Held(rows) <=> holds[i].status = "ACTIVE"
  BY RowInvByRow DEF TypeOK, Reservation, Held, With, rows
<1>2. CASE holds[i].status = "NONE"
  BY <1>1, <1>2 DEF RowOK, NoReservation, Outstanding
<1>3. CASE holds[i].status # "NONE"
  BY <1>1, <1>3 DEF RowOK, Loadable, Outstanding
<1> QED BY <1>2, <1>3

(* sumActiveHolds adds up all there is: no other row carries anything.     *)
LEMMA ActiveTotalIsAll ==
    RowInv => ActiveTotal(rows) = SumFunctionOnSet(Outstandings, InvoiceIds)
<1> SUFFICES ASSUME RowInv
             PROVE  ActiveTotal(rows) = SumFunctionOnSet(Outstandings, InvoiceIds)
  OBVIOUS
<1>1. ActiveTotal(rows) = SumFunctionOnSet(Outstandings, Held(rows))
  BY DEF ActiveTotal, Outstandings, rows
<1>2. Held(rows) \in SUBSET InvoiceIds
  BY DEF Held, With
<1>3. /\ \A i \in InvoiceIds : Outstandings[i] \in Int
      /\ \A i \in InvoiceIds \ Held(rows) : Outstandings[i] = 0
  BY OutstandingByStatus
<1> QED BY <1>1, <1>2, <1>3, SumOfPart, MarginAssumption

(* So it does in the state after a step. *)
LEMMA NextActiveTotalIsAll ==
    RowInv' => ActiveTotal(rows)' = SumFunctionOnSet(Outstandings', InvoiceIds)
<1>1. (RowInv => ActiveTotal(rows) = SumFunctionOnSet(Outstandings, InvoiceIds))'
  BY ActiveTotalIsAll, PTL
<1> QED BY <1>1

(* A step whose rows and counter move by the same total.                   *)
LEMMA CounterMoves ==
    ASSUME RowInv, RowInv', CounterIsSumOfHolds,
           NEW moved, \A i \in InvoiceIds : moved[i] \in Int,
           \A i \in InvoiceIds :
              Outstanding(holds'[i]) = Outstanding(holds[i]) + moved[i],
           program'.reserved =
              program.reserved + SumFunctionOnSet(moved, InvoiceIds)
    PROVE  CounterIsSumOfHolds'
<1>1. \A i \in InvoiceIds : Outstandings[i] \in Int
  BY OutstandingByStatus
<1>2. \A i \in InvoiceIds : Outstandings'[i] = Outstandings[i] + moved[i]
  BY DEF Outstandings
<1>3. SumFunctionOnSet(Outstandings', InvoiceIds) =
          SumFunctionOnSet(Outstandings, InvoiceIds)
              + SumFunctionOnSet(moved, InvoiceIds)
  BY <1>1, <1>2, SumOfPlus, MarginAssumption
<1>4. program.reserved = SumFunctionOnSet(Outstandings, InvoiceIds)
  BY ActiveTotalIsAll DEF CounterIsSumOfHolds
<1>5. program'.reserved = SumFunctionOnSet(Outstandings', InvoiceIds)
  BY <1>3, <1>4
<1>6. ActiveTotal(rows)' = SumFunctionOnSet(Outstandings', InvoiceIds)
  BY NextActiveTotalIsAll
<1> QED BY <1>5, <1>6 DEF CounterIsSumOfHolds

(* One row changes, and the counter by as much. *)
LEMMA RowMovesCounter ==
    ASSUME RowInv, RowInv', CounterIsSumOfHolds,
           NEW i \in InvoiceIds, NEW r, holds' = [holds EXCEPT ![i] = r],
           NEW change \in Int, program'.reserved = program.reserved + change,
           Outstanding(r) = Outstanding(holds[i]) + change
    PROVE  CounterIsSumOfHolds'
<1> DEFINE still == [j \in InvoiceIds |-> 0]
           moved == [still EXCEPT ![i] = change]
<1>1. /\ \A j \in InvoiceIds : still[j] = 0 /\ still[j] \in Int
      /\ \A j \in InvoiceIds : moved[j] \in Int
      /\ \A j \in InvoiceIds \ {i} : moved[j] = still[j]
      /\ moved[i] = change /\ still[i] = 0
  OBVIOUS
<1>2. \A j \in InvoiceIds :
         Outstanding(holds'[j]) = Outstanding(holds[j]) + moved[j]
  <2>1. holds \in [InvoiceIds -> Reservation]
    BY DEF RowInv, TypeOK
  <2>2. \A j \in InvoiceIds : Outstanding(holds[j]) \in Int
    BY OutstandingByStatus DEF Outstandings
  <2>3. ASSUME NEW j \in InvoiceIds, j # i
        PROVE  Outstanding(holds'[j]) = Outstanding(holds[j]) + moved[j]
    <3>1. holds'[j] = holds[j] /\ moved[j] = 0
      BY <1>1, <2>1, <2>3
    <3> QED BY <2>2, <3>1
  <2>4. Outstanding(holds'[i]) = Outstanding(holds[i]) + moved[i]
    <3>1. holds'[i] = r
      BY <2>1
    <3> QED BY <1>1, <3>1
  <2> QED BY <2>3, <2>4
<1> HIDE DEF still, moved
<1>3. SumFunctionOnSet(still, InvoiceIds) = 0
  <2>1. {} \in SUBSET InvoiceIds /\ \A j \in InvoiceIds \ {} : still[j] = 0
    BY <1>1
  <2>2. SumFunctionOnSet(still, {}) = SumFunctionOnSet(still, InvoiceIds)
    BY <1>1, <2>1, SumOfPart, MarginAssumption
  <2> QED BY <2>2, SumOfNothing
<1>4. SumFunctionOnSet(moved, InvoiceIds) = change
  <2>1. SumFunctionOnSet(moved, InvoiceIds) =
            SumFunctionOnSet(still, InvoiceIds) + (moved[i] - still[i])
    BY <1>1, SumAfterUpdate, MarginAssumption
  <2> QED BY <1>1, <1>3, <2>1
<1>5. program'.reserved = program.reserved + SumFunctionOnSet(moved, InvoiceIds)
  BY <1>4
<1> QED BY <1>1, <1>2, <1>5, CounterMoves

(* What makes the counter's equation inductive: a program starts from      *)
(* nothing because nothing was ever held before it.                        *)
BooksInv ==
    /\ RowInv
    /\ CounterIsSumOfHolds
    /\ ~program.exists => program.reserved = 0

(* A snapshot moves the counter by what it moves the rows. *)
LEMMA SnapshotMovesCounter ==
    ASSUME RowInv, RowInv', CounterIsSumOfHolds,
           NEW snap, IsSnapshot(snap), ApplySnapshot(snap)
    PROVE  CounterIsSumOfHolds'
<1> DEFINE moved == Deltas(rows, snap)
<1>1. ASSUME NEW i \in InvoiceIds
      PROVE  /\ moved[i] \in Int
             /\ Outstanding(holds'[i]) = Outstanding(holds[i]) + moved[i]
  <2>1. TypeOK /\ rows.holds = holds
    BY DEF RowInv, rows
  <2>2. holds[i] \in Reservation /\ PlannedHold(rows, snap, i) \in Reservation
    BY <2>1, PlannedRow DEF TypeOK
  <2>3. Outstanding(holds[i]) \in Int /\ Outstanding(PlannedHold(rows, snap, i)) \in Int
    BY <2>2, HoldTypes
  <2>4. holds'[i] = PlannedHold(rows, snap, i)
    BY DEF ApplySnapshot
  <2>5. moved[i] = Outstanding(PlannedHold(rows, snap, i)) - Outstanding(holds[i])
    BY <2>1 DEF Deltas, Delta
  <2> QED BY <2>3, <2>4, <2>5
<1>2. program'.reserved = program.reserved + SumFunctionOnSet(moved, InvoiceIds)
  <2>1. program \in Program
    BY DEF RowInv, TypeOK
  <2> QED BY <2>1 DEF ApplySnapshot, PlannedReserved, Program
<1> HIDE DEF moved
<1> QED BY <1>1, <1>2, CounterMoves

(* Every use case moves the counter by what it moves the rows. *)
LEMMA BooksStep ==
    ASSUME BooksInv, [Next]_vars
    PROVE  BooksInv'
<1>0. /\ RowInv /\ RowInv' /\ CounterIsSumOfHolds /\ TypeOK
      /\ program \in Program /\ program.reserved \in Int
  BY RowStep DEF BooksInv, RowInv, TypeOK, Program
<1>1. ASSUME UNCHANGED holds, program'.reserved = program.reserved
      PROVE  CounterIsSumOfHolds'
  <2>1. ActiveTotal(rows)' = ActiveTotal(rows)
    <3>1. Outstandings' = Outstandings
      BY <1>1 DEF Outstandings
    <3> QED BY <1>0, <3>1, ActiveTotalIsAll, NextActiveTotalIsAll
  <2> QED BY <1>0, <1>1, <2>1 DEF CounterIsSumOfHolds
<1>2. ASSUME NEW limit \in Limits, CreateProgram(limit)
      PROVE  BooksInv'
  <2>1. program.reserved = 0 /\ program'.reserved = 0 /\ program'.exists
    BY <1>2 DEF BooksInv, CreateProgram, NewProgram
  <2>2. UNCHANGED holds
    BY <1>2 DEF CreateProgram
  <2> QED BY <1>0, <1>1, <2>1, <2>2 DEF BooksInv
<1>3. ASSUME NEW limit \in Limits, ChangeCreditLimit(limit)
      PROVE  BooksInv'
  <2>1. /\ program'.reserved = program.reserved /\ program'.exists
        /\ UNCHANGED holds
    BY <1>0, <1>3 DEF ChangeCreditLimit, Program
  <2> QED BY <1>0, <1>1, <2>1 DEF BooksInv
<1>4. ASSUME NEW i \in InvoiceIds, NEW original \in Originals, NEW quote \in Quotes,
             ReserveInvoice(i, original, quote)
      PROVE  BooksInv'
  <2> DEFINE held   == Converted(original, quote)
             opened == OpenHold(Conversion(original, quote))
  <2>1. held \in Int /\ holds[i].status = "NONE" /\ Outstanding(opened) = held
    BY <1>0, <1>4, ReserveMeaning
  <2>2. Outstanding(holds[i]) = 0
    BY <2>1 DEF BooksInv, RowInv, EmptySlots, NoReservation, Outstanding
  <2>3. /\ holds' = [holds EXCEPT ![i] = opened]
        /\ program'.reserved = program.reserved + held
        /\ program'.exists
    BY <1>0, <1>4 DEF ReserveInvoice, Program
  <2> HIDE DEF held, opened
  <2>4. Outstanding(opened) = Outstanding(holds[i]) + held
    BY <2>1, <2>2
  <2>5. CounterIsSumOfHolds'
    BY <1>0, <2>1, <2>3, <2>4, RowMovesCounter
  <2> QED BY <1>0, <2>3, <2>5 DEF BooksInv
<1>5. ASSUME NEW i \in InvoiceIds, NEW reason \in ApiReasons \cup {"REPAID"},
             ReleaseReservation(i, reason)
      PROVE  BooksInv'
  <2> DEFINE freed    == Outstanding(holds[i])
             released == Release(holds[i], reason)
  <2>1. /\ holds[i] \in Reservation /\ Loadable(holds[i])
        /\ holds[i].status = "ACTIVE"
    BY <1>0, <1>5
       DEF ReleaseReservation, Held, Unheld, With, rows, TypeOK, RowInv, RowsAreLoadable
  <2>2. reason \in ReleaseReasons
    BY InputAssumption DEF ReleaseReasons
  <2>3. freed \in Int /\ freed > 0 /\ Outstanding(released) = 0
    BY <2>1, <2>2, ReleasedRow DEF Reservation
  <2>4. /\ holds' = [holds EXCEPT ![i] = released]
        /\ program'.reserved = program.reserved - freed
        /\ program'.exists = program.exists
        /\ program.reserved >= freed
    BY <1>0, <1>5 DEF ReleaseReservation, TypeOK, Program
  <2> HIDE DEF freed, released
  <2>5. program.exists
    BY <1>0, <2>3, <2>4 DEF BooksInv
  <2>6. /\ -freed \in Int
        /\ program'.reserved = program.reserved + -freed
        /\ Outstanding(released) = Outstanding(holds[i]) + -freed
    BY <1>0, <2>3, <2>4 DEF freed
  <2>7. CounterIsSumOfHolds'
    <3> DEFINE change == -freed
    <3>1. /\ change \in Int
          /\ program'.reserved = program.reserved + change
          /\ Outstanding(released) = Outstanding(holds[i]) + change
      BY <2>6
    <3> HIDE DEF change
    <3> QED BY <1>0, <2>4, <3>1, RowMovesCounter
  <2> QED BY <1>0, <2>4, <2>5, <2>7 DEF BooksInv
<1>6. ASSUME NEW snap \in Snapshots, ApplySnapshot(snap)
      PROVE  BooksInv'
  <2>1. IsSnapshot(snap)
    BY InputAssumption
  <2>2. program'.exists
    BY <1>0, <1>6, <2>1, ApplyMeaning DEF ApplySnapshot, Program
  <2>3. CounterIsSumOfHolds'
    BY <1>0, <1>6, <2>1, SnapshotMovesCounter
  <2> QED BY <1>0, <2>2, <2>3 DEF BooksInv
<1>7. CASE UNCHANGED <<holds, program>>
  BY <1>0, <1>1, <1>7 DEF BooksInv
<1> QED BY <1>2, <1>3, <1>4, <1>5, <1>6, <1>7 DEF Next, Tick, vars

(* Nothing is held and nothing reserved in an empty database. *)
LEMMA BooksInit == Init => BooksInv
<1> SUFFICES ASSUME Init
             PROVE  CounterIsSumOfHolds /\ program.reserved = 0
  BY RowInit DEF BooksInv
<1>1. program.reserved = 0
  BY DEF Init, NoProgram
<1>2. Held(rows) = {}
  BY DEF Init, Held, With, rows, NoReservation
<1>3. ActiveTotal(rows) = 0
  BY <1>2, SumOfNothing DEF ActiveTotal
<1> QED BY <1>1, <1>3 DEF CounterIsSumOfHolds

LEMMA BooksInvariant == Spec => []BooksInv
BY BooksInit, BooksStep, PTL DEF Spec

(* The stored total is the sum of the active holds at every moment, for    *)
(* any number of invoices in one snapshot: COUNTER_DRIFT never fires in a  *)
(* database that only these use cases write.                               *)
THEOREM CounterNeverDrifts == Spec => []CounterIsSumOfHolds
<1>1. BooksInv => CounterIsSumOfHolds
  BY DEF BooksInv
<1> QED BY <1>1, BooksInvariant, PTL

-----------------------------------------------------------------------------
(* Plans that pass the gates. *)

(* A finite set of integers that is not empty has a least one: so a        *)
(* snapshot that some gate refuses is refused by the first of them.        *)
LEMMA LeastIsInside ==
    ASSUME NEW S, S \subseteq Int, IsFiniteSet(S), S # {}
    PROVE  Min(S) \in S /\ \A y \in S : Min(S) <= y
<1> DEFINE D == {T \in SUBSET S : T # {} => \E m \in T : \A y \in T : m <= y}
<1>1. {} \in D
  OBVIOUS
<1>2. ASSUME NEW T \in SUBSET S, T # {}, \A x \in T : T \ {x} \in D
      PROVE  T \in D
  <2>1. PICK x \in T : x \in Int
    BY <1>2
  <2>2. CASE T \ {x} = {}
    <3>1. \A y \in T : x <= y
      BY <2>1, <2>2
    <3> QED BY <2>1, <3>1
  <2>3. CASE T \ {x} # {}
    <3>1. PICK m \in T \ {x} : \A y \in T \ {x} : m <= y
      BY <1>2, <2>1, <2>3
    <3>2. m \in Int
      OBVIOUS
    <3>3. CASE m <= x
      BY <3>1, <3>3
    <3>4. CASE x < m
      <4>1. \A y \in T : x <= y
        BY <2>1, <3>1, <3>2, <3>4
      <4> QED BY <2>1, <4>1
    <3> QED BY <2>1, <3>2, <3>3, <3>4
  <2> QED BY <2>2, <2>3
<1>3. S \in D
  <2> HIDE DEF D
  <2> QED BY <1>1, <1>2, SubsetsByRemoval
<1> QED BY <1>3 DEF Min

(* So is what a change takes the counter down by. *)
LEMMA LeastOfTwo ==
    ASSUME NEW delta \in Int
    PROVE  Min({0, delta}) \in {0, delta}
<1>1. PICK m \in {0, delta} : \A y \in {0, delta} : m <= y
  <2>1. CASE delta <= 0
    BY <2>1
  <2>2. CASE 0 < delta
    BY <2>2
  <2> QED BY <2>1, <2>2
<1> QED BY <1>1 DEF Min

(* What has passed the gates was refused by none of them; and none of them *)
(* has the name of another verdict.                                        *)
LEMMA ScreenMeaning ==
    ASSUME NEW snap
    PROVE  LET screen == ScreenSnapshot(program, rows, watermark.sequence, snap)
           IN  /\ screen = "APPLY" =>
                     \A gate \in {"STALE_SEQUENCE", "UNUSABLE_LIMIT"} :
                        ~Refuses(gate, program, rows, watermark.sequence, snap)
               /\ screen \notin {"THROWN", "CONSTRAINT"}
<1> DEFINE Refusing(n) == Refuses(Gates[n], program, rows, watermark.sequence, snap)
           refusing    == {n \in DOMAIN Gates : Refusing(n)}
           screen      == ScreenSnapshot(program, rows, watermark.sequence, snap)
<1>1. /\ DOMAIN Gates = 1..11
      /\ \A n \in 1..11 : Gates[n] \notin {"APPLY", "THROWN", "CONSTRAINT"}
      /\ Gates[3] = "STALE_SEQUENCE" /\ Gates[6] = "UNUSABLE_LIMIT"
  BY DEF Gates
<1>2. screen = IF refusing = {} THEN "APPLY" ELSE Gates[Min(refusing)]
  BY DEF ScreenSnapshot
<1>3. refusing # {} => Min(refusing) \in 1..11
  <2>1. refusing \subseteq 1..11 /\ 1..11 \subseteq Int
    BY <1>1
  <2>2. IsFiniteSet(1..11)
    BY FS_Interval, 1 \in Int, 11 \in Int
  <2> HIDE DEF refusing
  <2>3. IsFiniteSet(refusing) /\ refusing \subseteq Int
    BY <2>1, <2>2, FS_Subset
  <2> QED BY <2>1, <2>3, LeastIsInside
<1>4. CASE refusing = {}
  <2>1. ~Refusing(3) /\ ~Refusing(6)
    BY <1>1, <1>4
  <2> QED BY <1>1, <1>2, <1>4, <2>1
<1>5. CASE refusing # {}
  <2> HIDE DEF refusing
  <2> QED BY <1>1, <1>2, <1>3, <1>5
<1> QED BY <1>4, <1>5

(* A hold is only created from evidence that opens it. *)
LEMMA CreatedIsExplained ==
    ASSUME TypeOK, NEW snap, IsSnapshot(snap), NEW i \in InvoiceIds,
           Judgement(rows, snap, i) = "CREATE"
    PROVE  LET entry == snap.invoices[i]
           IN  /\ Holdable(entry.original, entry.amount)
               /\ Explains(entry.original, entry.rate, entry.amount)
<1> DEFINE entry == snap.invoices[i]
<1>1. /\ i \in Unheld(rows) /\ Reported(snap, i) = "EXPOSURE"
      /\ i \in Mentioned(snap) /\ entry.amount > 0
  BY JudgementMeaning
<1>2. entry \in SnapshotEntry
  BY <1>1 DEF IsSnapshot
<1>3. JudgeExposure(rows, snap, i) = "CREATE"
  BY <1>1 DEF Judgement
<1>4. Loaded(rows, snap, i).status = "NONE"
  BY <1>1 DEF Loaded, Unheld, With
<1>5. EvidenceFault(entry) = "NONE"
  <2>1. EvidenceFault(entry) \in
            {"NONE", "MISSING_FX_EVIDENCE", "INCONSISTENT_FX_EVIDENCE"}
    BY DEF EvidenceFault
  <2> QED BY <1>3, <1>4, <2>1 DEF JudgeExposure
<1>6. /\ ~(entry.original.currency # "home" /\ entry.rate = NoQuote)
      /\ ~(entry.original.currency = "home" /\ entry.rate # NoQuote)
      /\ ~(entry.original.minor <= 0)
      /\ entry.amount = IF entry.rate # NoQuote
                        THEN ApplyRate(entry.original.minor, entry.rate)
                        ELSE entry.original.minor
  BY <1>5 DEF EvidenceFault
<1>7. entry.original.minor > 0
  BY <1>2, <1>6 DEF SnapshotEntry, Money
<1> QED BY <1>1, <1>6, <1>7 DEF Holdable, Explains, FxEvidence

(* No plan leaves a row that carries less than nothing. *)
LEMMA PlannedIsAmount ==
    ASSUME RowInv, NEW snap, IsSnapshot(snap), NEW i \in InvoiceIds
    PROVE  Outstanding(PlannedHold(rows, snap, i)) \in Nat
<1> DEFINE judgement == Judgement(rows, snap, i)
           planned   == PlannedHold(rows, snap, i)
           entry     == snap.invoices[i]
<1>1. /\ TypeOK /\ holds[i] \in Reservation
      /\ RowOK(holds[i], reservedAt[i], releasedAt[i], logged[i])
  BY RowInvByRow DEF RowInv, TypeOK
<1>2. CASE judgement = "RELEASE"
  <2>1. planned = Release(holds[i], "REPAID") /\ holds[i].status = "ACTIVE"
    BY <1>1, <1>2, PlannedRow, JudgementMeaning DEF Held, With, rows
  <2>2. Outstanding(planned) = 0
    BY <1>1, <2>1, ReleasedRow DEF ReleaseReasons, RowOK
  <2> QED BY <2>2
<1>3. CASE judgement = "CORRECT"
  <2>1. /\ planned = CorrectTo(holds[i], entry.amount)
        /\ holds[i].status = "ACTIVE" /\ entry.amount > 0
        /\ i \in Mentioned(snap)
    BY <1>1, <1>3, PlannedRow, JudgementMeaning DEF Held, With, rows
  <2>2. entry.amount \in Int
    BY <2>1 DEF IsSnapshot, SnapshotEntry
  <2>3. planned.held = entry.amount /\ planned.released = 0
    BY <1>1, <2>1 DEF CorrectTo, RowOK, Loadable, Reservation
  <2> QED BY <2>1, <2>2, <2>3 DEF Outstanding
<1>4. CASE judgement = "CREATE"
  <2>1. /\ planned = OpenHold([original  |-> entry.original,
                               converted |-> entry.amount,
                               rate      |-> entry.rate])
        /\ entry.amount > 0 /\ i \in Mentioned(snap)
    BY <1>1, <1>4, PlannedRow, JudgementMeaning
  <2>2. entry.amount \in Int
    BY <2>1 DEF IsSnapshot, SnapshotEntry
  <2>3. planned.held = entry.amount /\ planned.released = 0
    BY <2>1 DEF OpenHold
  <2> QED BY <2>1, <2>2, <2>3 DEF Outstanding
<1>5. CASE judgement \notin {"RELEASE", "CORRECT", "CREATE"}
  <2>1. planned = holds[i]
    BY <1>1, <1>5, PlannedRow
  <2> QED BY <2>1, OutstandingByStatus DEF Outstandings
<1> QED BY <1>2, <1>3, <1>4, <1>5

(* However the steps of a plan are ordered, the counter stays above zero:  *)
(* what they give back together is no more than the rows hold.             *)
LEMMA CounterStaysAboveZero ==
    ASSUME RowInv, CounterIsSumOfHolds, NEW snap, IsSnapshot(snap)
    PROVE  LowestReserved(program, rows, snap) >= 0
<1> DEFINE given == [i \in InvoiceIds |-> Min({0, Delta(rows, snap, i)})]
           left  == [i \in InvoiceIds |-> Outstandings[i] + given[i]]
<1>1. ASSUME NEW i \in InvoiceIds
      PROVE  given[i] \in Int /\ Outstandings[i] + given[i] \in Nat
  <2> DEFINE delta   == Delta(rows, snap, i)
             planned == Outstanding(PlannedHold(rows, snap, i))
  <2>1. planned \in Nat /\ Outstandings[i] \in Nat
    BY PlannedIsAmount, OutstandingByStatus
  <2>2. delta = planned - Outstandings[i]
    BY DEF Delta, Outstandings, rows
  <2> HIDE DEF delta, planned
  <2>3. Min({0, delta}) \in {0, delta}
    <3>1. delta \in Int
      BY <2>1, <2>2
    <3> QED BY <3>1, LeastOfTwo
  <2>4. given[i] \in {0, delta}
    BY <2>3 DEF delta
  <2> HIDE DEF given
  <2> QED BY <2>1, <2>2, <2>4
<1>2. LowestReserved(program, rows, snap) =
          program.reserved + SumFunctionOnSet(given, InvoiceIds)
  BY DEF LowestReserved
<1> HIDE DEF given
<1>3. program.reserved = SumFunctionOnSet(Outstandings, InvoiceIds)
  BY ActiveTotalIsAll DEF CounterIsSumOfHolds
<1>4. \A i \in InvoiceIds :
         /\ Outstandings[i] \in Int
         /\ left[i] = Outstandings[i] + given[i] /\ left[i] \in Nat
  BY <1>1, OutstandingByStatus
<1> HIDE DEF left
<1>5. SumFunctionOnSet(left, InvoiceIds) =
          SumFunctionOnSet(Outstandings, InvoiceIds)
              + SumFunctionOnSet(given, InvoiceIds)
  BY <1>1, <1>4, SumOfPlus, MarginAssumption
<1>6. SumFunctionOnSet(left, InvoiceIds) \in Nat
  BY <1>4, SumOfAmounts, MarginAssumption
<1> QED BY <1>2, <1>3, <1>5, <1>6

(* Whatever the rows and the snapshot, as long as its fields parse, the    *)
(* domain and the watermark carry out what the gates let through: no plan is thrown back, to be      *)
(* tried for ever, by a check that comes after it was made.                *)
THEOREM PlansCanBeCarriedOut == Spec => []PlansAreApplicable
<1>1. ASSUME BooksInv, NEW snap \in Snapshots
      PROVE  /\ SnapshotVerdict(snap) = "THROWN" => ~Parses(snap)
             /\ Judged(rows, snap, "CREATE") \subseteq Unheld(rows)
  <2> DEFINE screen == ScreenSnapshot(program, rows, watermark.sequence, snap)
  <2>1. /\ RowInv /\ TypeOK /\ CounterIsSumOfHolds
        /\ IsSnapshot(snap) /\ snap.sequence \in Int /\ snap.limit \in Int
        /\ watermark.sequence \in Int
    <3>1. RowInv /\ TypeOK /\ CounterIsSumOfHolds
      BY <1>1 DEF BooksInv, RowInv
    <3>2. IsSnapshot(snap) /\ snap.sequence \in Int /\ snap.limit \in Int
      BY InputAssumption DEF IsSnapshot
    <3>3. watermark.sequence \in Int
      BY <3>1 DEF TypeOK, NoSequence
    <3> QED BY <3>1, <3>2, <3>3
  <2>2. ASSUME screen = "APPLY"
        PROVE  ~Inapplicable(program, rows, snap) /\ Advances(snap)
    <3>1. /\ ~Refuses("STALE_SEQUENCE", program, rows, watermark.sequence, snap)
          /\ ~Refuses("UNUSABLE_LIMIT", program, rows, watermark.sequence, snap)
      BY <2>2, ScreenMeaning
    <3>2. ~(snap.sequence <= watermark.sequence) /\ ~(snap.limit < 0)
      BY <3>1 DEF Refuses, Stale
    <3>3. ~(LowestReserved(program, rows, snap) < 0)
      <4>1. LowestReserved(program, rows, snap) \in Int
        <5> DEFINE least == [i \in InvoiceIds |-> Min({0, Delta(rows, snap, i)})]
        <5>1. ASSUME NEW i \in InvoiceIds
              PROVE  least[i] \in Int
          <6>1. Delta(rows, snap, i) \in Int
            <7>1. /\ Outstanding(PlannedHold(rows, snap, i)) \in Nat
                  /\ Outstanding(holds[i]) \in Nat
              BY <2>1, PlannedIsAmount, OutstandingByStatus DEF Outstandings
            <7> QED BY <7>1 DEF Delta, rows
          <6> QED BY <6>1, LeastOfTwo
        <5>2. SumFunctionOnSet(least, InvoiceIds) \in Int
          <6> HIDE DEF least
          <6> QED BY <5>1, SumIsInteger, MarginAssumption
        <5>3. program.reserved \in Int
          BY <2>1 DEF TypeOK, Program
        <5> QED BY <5>2, <5>3 DEF LowestReserved
      <4> QED BY <2>1, <4>1, CounterStaysAboveZero
    <3>4. \A i \in Judged(rows, snap, "CREATE") :
             /\ Holdable(snap.invoices[i].original, snap.invoices[i].amount)
             /\ Explains(snap.invoices[i].original, snap.invoices[i].rate,
                         snap.invoices[i].amount)
      BY <2>1, CreatedIsExplained DEF Judged
    <3> QED BY <2>1, <3>2, <3>3, <3>4 DEF Inapplicable, Advances
  <2>3. SnapshotVerdict(snap) = "THROWN" => ~Parses(snap)
    <3>1. screen \notin {"THROWN", "CONSTRAINT"}
      BY ScreenMeaning
    <3> QED BY <2>2, <3>1 DEF SnapshotVerdict
  <2>4. Judged(rows, snap, "CREATE") \subseteq Unheld(rows)
    BY <2>1, JudgementMeaning DEF Judged
  <2> QED BY <2>3, <2>4
<1>2. BooksInv => PlansAreApplicable
  BY <1>1 DEF PlansAreApplicable
<1> QED BY <1>2, BooksInvariant, PTL

=============================================================================
