----------------------- MODULE TruthfulTreasuryProofs -----------------------
(***************************************************************************)
(* Theorems about TruthfulTreasury, for any invoices, amounts, clocks,     *)
(* delays and margins.                                                     *)
(***************************************************************************)
EXTENDS TruthfulTreasury, TreasurySyncProofs

-----------------------------------------------------------------------------
(* What treasury has sent. *)

TMessages ==
    [kind : {"SNAPSHOT"}, snap : TruthfulSnapshots]
        \cup [kind : {"INVOICE_REPAID"}, invoice : InvoiceIds]

TopicTypeOK ==
    /\ books  \in [InvoiceIds -> [state  : {"UNKNOWN", "OUTSTANDING", "REPAID"},
                                  amount : Nat]]
    /\ topic  \in Seq(TMessages)
    /\ offset \in 0..Len(topic)
    /\ \A i \in InvoiceIds : i \notin Known("UNKNOWN") => books[i].amount \in Amounts

(* The snapshots in the topic, by position, and those that the consumer    *)
(* may still handle: the last one that it did may come again.              *)
Sent == {k \in 1..Len(topic) : topic[k].kind = "SNAPSHOT"}

Pending == {k \in Sent : k >= offset}

Snap(k) == topic[k].snap

Says(snap, i, status) ==
    i \in Mentioned(snap) /\ snap.invoices[i].status = status

(* What may be said of a snapshot, by the shape it is drawn up in. *)
LEMMA TruthfulShape ==
    ASSUME NEW snap \in TruthfulSnapshots
    PROVE  /\ snap \in Snapshots /\ IsSnapshot(snap)
           /\ snap.asOf \in Int
           /\ Mentioned(snap) \subseteq InvoiceIds
           /\ \A i \in Mentioned(snap) :
                 /\ snap.invoices[i].status \in {"OUTSTANDING", "REPAID"}
                 /\ snap.invoices[i].amount \in Nat \ {0}
                 /\ snap.invoices[i].original =
                       [currency |-> "home", minor |-> snap.invoices[i].amount]
                 /\ snap.invoices[i].rate = NoQuote
<1>1. snap \in Snapshots /\ IsSnapshot(snap) /\ snap.asOf \in Int
  BY TreasuryAssumption, InputAssumption DEF IsSnapshot
<1>2. PICK listed \in SUBSET InvoiceIds : snap.invoices \in [listed -> TruthfulEntries]
  BY DEF TruthfulSnapshots
<1>3. Mentioned(snap) = listed
  BY <1>2 DEF Mentioned
<1>4. ASSUME NEW i \in Mentioned(snap)
      PROVE  snap.invoices[i] \in TruthfulEntries
  BY <1>2, <1>3
<1> QED BY <1>1, <1>3, <1>4, TreasuryAssumption DEF TruthfulEntries

LEMMA SentIsTruthful ==
    ASSUME TopicTypeOK, NEW k \in Sent
    PROVE  Snap(k) \in TruthfulSnapshots
BY DEF TopicTypeOK, TMessages, Sent, Snap

(* A message of the topic is one or the other. *)
LEMMA TopicShape ==
    ASSUME TopicTypeOK, NEW k \in 1..Len(topic)
    PROVE  /\ topic[k].kind = "SNAPSHOT" => k \in Sent
           /\ topic[k].kind # "SNAPSHOT" => topic[k].invoice \in InvoiceIds
BY DEF TopicTypeOK, TMessages, Sent

(* What treasury draws up is of that shape. *)
LEMMA DrawnIsTruthful ==
    ASSUME TopicTypeOK, TypeOK, Len(topic) < MaxMessages
    PROVE  Drawn(Len(topic)) \in TruthfulSnapshots
<1> DEFINE listed == Known("OUTSTANDING") \cup Known("REPAID")
<1>1. ASSUME NEW i \in listed
      PROVE  EntryFor(i) \in TruthfulEntries
  BY DEF Known, TopicTypeOK, EntryFor, TruthfulEntries
<1>2. listed \in SUBSET InvoiceIds
  BY DEF Known
<1>3. [i \in listed |-> EntryFor(i)] \in
          UNION {[S -> TruthfulEntries] : S \in SUBSET InvoiceIds}
  <2> HIDE DEF listed
  <2>1. [i \in listed |-> EntryFor(i)] \in [listed -> TruthfulEntries]
    BY <1>1
  <2>2. [listed -> TruthfulEntries] \in
            {[S -> TruthfulEntries] : S \in SUBSET InvoiceIds}
    BY <1>2
  <2> QED BY <2>1, <2>2
<1>4. TreasuryTime \in Skew..(MaxTime + Skew)
  <2>1. now \in 0..MaxTime /\ MaxTime \in Nat /\ Skew \in Int
    BY WithinMargin, InputAssumption DEF TypeOK
  <2> QED BY <2>1 DEF TreasuryTime
<1>5. Len(topic) \in 0..(MaxMessages - 1)
  <2>1. Len(topic) \in Nat /\ MaxMessages \in Nat
    BY TreasuryAssumption DEF TopicTypeOK
  <2> QED BY <2>1
<1> HIDE DEF listed
<1> QED BY <1>3, <1>4, <1>5 DEF Drawn, TruthfulSnapshots, listed

-----------------------------------------------------------------------------
(* The service between client and treasury. *)

(* What handling a message does to the rows. *)
HandledRows(k) ==
    \/ k \in Sent /\ ApplySnapshot(Snap(k))
    \/ \E i \in InvoiceIds : ReleaseReservation(i, "REPAID")
    \/ UNCHANGED service

LEMMA HandleMeaning ==
    ASSUME TopicTypeOK, NEW k \in 1..Len(topic), Handle(topic[k])
    PROVE  HandledRows(k)
<1>1. CASE topic[k].kind = "SNAPSHOT"
  BY <1>1, TopicShape DEF Handle, HandleSnapshot, HandledRows, Snap
<1>2. CASE topic[k].kind # "SNAPSHOT"
  BY <1>2, TopicShape DEF Handle, HandleRepaid, HandledRows
<1> QED BY <1>1, <1>2

LEMMA HandledIsUseCase ==
    ASSUME TopicTypeOK, NEW k \in 1..Len(topic), HandledRows(k)
    PROVE  [Next]_vars
<1>1. CASE k \in Sent /\ ApplySnapshot(Snap(k))
  <2>1. Snap(k) \in Snapshots
    BY <1>1, SentIsTruthful, TruthfulShape
  <2> QED BY <1>1, <2>1 DEF Next
<1>2. ASSUME NEW i \in InvoiceIds, ReleaseReservation(i, "REPAID")
      PROVE  [Next]_vars
  BY <1>2 DEF Next
<1>3. CASE UNCHANGED service
  BY <1>3 DEF service
<1> QED BY <1>1, <1>2, <1>3 DEF HandledRows

(* Every step is a use case, or leaves the rows alone. *)
LEMMA TruthfulStepIsUseCase ==
    ASSUME TopicTypeOK, [TNext]_allVars
    PROVE  [Next]_vars
<1>1. CASE Client
  BY <1>1, TreasuryAssumption DEF Client, Next
<1>2. CASE Clock
  BY <1>2 DEF Clock, Next
<1>3. CASE (\E i \in InvoiceIds : Learn(i) \/ Settle(i)) \/ Publish
  BY <1>3 DEF Learn, Settle, Publish, service
<1>4. CASE Deliver
  <2>1. offset + 1 \in 1..Len(topic)
    BY <1>4 DEF Deliver, TopicTypeOK
  <2> QED BY <1>4, <2>1, HandleMeaning, HandledIsUseCase DEF Deliver
<1>5. CASE Redeliver
  <2>1. offset \in 1..Len(topic)
    BY <1>5 DEF Redeliver, TopicTypeOK
  <2> QED BY <1>5, <2>1, HandleMeaning, HandledIsUseCase DEF Redeliver
<1>6. CASE UNCHANGED allVars
  BY <1>6 DEF allVars, vars
<1> QED BY <1>1, <1>2, <1>3, <1>4, <1>5, <1>6 DEF TNext

LEMMA TopicTypeStep ==
    ASSUME TopicTypeOK, TypeOK, [TNext]_allVars
    PROVE  TopicTypeOK'
<1>0. Len(topic) \in Nat /\ Amounts \subseteq Nat
  BY TreasuryAssumption DEF TopicTypeOK
<1>1. CASE Client \/ Clock \/ UNCHANGED allVars
  BY <1>1 DEF Client, Clock, allVars, TopicTypeOK, Known
<1>2. ASSUME NEW i \in InvoiceIds, Learn(i)
      PROVE  TopicTypeOK'
  <2>1. PICK amount \in Amounts :
           books' = [books EXCEPT ![i] = [state |-> "OUTSTANDING", amount |-> amount]]
    BY <1>2 DEF Learn
  <2> QED BY <1>0, <1>2, <2>1 DEF Learn, TopicTypeOK, Known
<1>3. ASSUME NEW i \in InvoiceIds, Settle(i)
      PROVE  TopicTypeOK'
  <2>1. /\ books' = [books EXCEPT ![i].state = "REPAID"]
        /\ books[i].state = "OUTSTANDING"
        /\ UNCHANGED offset
    BY <1>3 DEF Settle, Known
  <2>2. topic' \in Seq(TMessages) /\ Len(topic') \in Nat /\ Len(topic') >= Len(topic)
    <3>1. CASE UNCHANGED topic
      BY <1>0, <3>1 DEF TopicTypeOK
    <3>2. CASE topic' = Append(topic, [kind |-> "INVOICE_REPAID", invoice |-> i])
      <4>1. [kind |-> "INVOICE_REPAID", invoice |-> i] \in TMessages
        BY DEF TMessages
      <4> QED BY <1>0, <3>2, <4>1 DEF TopicTypeOK
    <3> QED BY <1>3, <3>1, <3>2 DEF Settle
  <2>3. /\ books' \in [InvoiceIds -> [state  : {"UNKNOWN", "OUTSTANDING", "REPAID"},
                                      amount : Nat]]
        /\ \A j \in InvoiceIds : books'[j].state # "UNKNOWN" => books'[j].amount \in Amounts
    BY <2>1 DEF TopicTypeOK, Known
  <2>4. offset' \in 0..Len(topic')
    BY <1>0, <2>1, <2>2 DEF TopicTypeOK
  <2> QED BY <2>2, <2>3, <2>4 DEF TopicTypeOK, Known
<1>4. CASE Publish
  <2> DEFINE message == [kind |-> "SNAPSHOT", snap |-> Drawn(Len(topic))]
  <2>1. message \in TMessages
    BY <1>4, DrawnIsTruthful DEF Publish, TMessages
  <2>2. topic' = Append(topic, message) /\ UNCHANGED <<books, offset>>
    BY <1>4 DEF Publish
  <2> HIDE DEF message
  <2>3. topic' \in Seq(TMessages) /\ Len(topic') = Len(topic) + 1
    BY <2>1, <2>2 DEF TopicTypeOK
  <2> QED BY <1>0, <2>2, <2>3 DEF TopicTypeOK, Known
<1>5. CASE Deliver \/ Redeliver
  BY <1>0, <1>5 DEF Deliver, Redeliver, TopicTypeOK, Known
<1> QED BY <1>1, <1>2, <1>3, <1>4, <1>5 DEF TNext

-----------------------------------------------------------------------------
(* What makes the absence of false alarms inductive. *)

(* What treasury has said it knows, and what it knows once it says in all  *)
(* it sends later.                                                         *)
KnowledgeGrows ==
    /\ \A k \in Sent, i \in InvoiceIds :
          /\ i \in Mentioned(Snap(k)) => books[i].state # "UNKNOWN"
          /\ Says(Snap(k), i, "REPAID") => books[i].state = "REPAID"
    /\ \A j, k \in Sent : j <= k => \A i \in InvoiceIds :
          /\ i \in Mentioned(Snap(j)) => i \in Mentioned(Snap(k))
          /\ Says(Snap(j), i, "REPAID") => Says(Snap(k), i, "REPAID")

(* Treasury is behind the service by no more than Delay. *)
NewsIsFresh ==
    \A i \in InvoiceIds :
        /\ i \in Held(rows) /\ books[i].state = "UNKNOWN" =>
              now - reservedAt[i] <= Delay
        /\ i \in Released(rows) /\ books[i].state = "OUTSTANDING" =>
              now - releasedAt[i] <= Delay

(* So every snapshot that may still be handled has the margin cover both   *)
(* directions of the race.                                                 *)
Covered(snap) ==
    /\ snap.asOf <= now + Skew
    /\ \A i \in InvoiceIds :
          /\ i \in Held(rows) /\ i \notin Mentioned(snap) =>
                reservedAt[i] >= Cutoff(snap)
          /\ i \in Released(rows) /\ Says(snap, i, "OUTSTANDING") =>
                releasedAt[i] >= Cutoff(snap)

MarginCovers == \A k \in Pending : Covered(Snap(k))

LEMMA GrowthStep ==
    ASSUME TopicTypeOK, KnowledgeGrows, [TNext]_allVars
    PROVE  KnowledgeGrows'
<1>0. Len(topic) \in Nat
  BY DEF TopicTypeOK
<1>1. ASSUME UNCHANGED <<books, topic>>
      PROVE  KnowledgeGrows'
  BY <1>1 DEF KnowledgeGrows, Sent, Snap, Says
<1>2. CASE Client \/ Clock \/ Deliver \/ Redeliver \/ UNCHANGED allVars
  BY <1>1, <1>2 DEF Client, Clock, Deliver, Redeliver, allVars
<1>3. ASSUME NEW i \in InvoiceIds, Learn(i)
      PROVE  KnowledgeGrows'
  <2>1. /\ books[i].state = "UNKNOWN"
        /\ \A j \in InvoiceIds : j # i => books'[j] = books[j]
        /\ books'[i].state = "OUTSTANDING"
        /\ UNCHANGED topic
    BY <1>3 DEF Learn, Known, TopicTypeOK
  <2> QED BY <2>1 DEF KnowledgeGrows, Sent, Snap, Says
<1>4. ASSUME NEW i \in InvoiceIds, Settle(i)
      PROVE  KnowledgeGrows'
  <2>1. /\ books[i].state = "OUTSTANDING"
        /\ \A j \in InvoiceIds : j # i => books'[j] = books[j]
        /\ books'[i].state = "REPAID"
    BY <1>4 DEF Settle, Known, TopicTypeOK
  <2>2. Sent' = Sent /\ \A k \in Sent : topic'[k] = topic[k]
    <3>1. CASE UNCHANGED topic
      BY <3>1 DEF Sent
    <3>2. CASE topic' = Append(topic, [kind |-> "INVOICE_REPAID", invoice |-> i])
      <4>1. /\ Len(topic') = Len(topic) + 1
            /\ \A k \in 1..Len(topic) : topic'[k] = topic[k]
            /\ topic'[Len(topic) + 1].kind = "INVOICE_REPAID"
        BY <1>0, <3>2 DEF TopicTypeOK
      <4> QED BY <1>0, <4>1 DEF Sent
    <3> QED BY <1>4, <3>1, <3>2 DEF Settle
  <2> QED BY <2>1, <2>2 DEF KnowledgeGrows, Snap, Says
<1>5. CASE Publish
  <2> DEFINE last  == Len(topic) + 1
             drawn == Drawn(Len(topic))
  <2>1. /\ UNCHANGED books
        /\ Len(topic') = last /\ topic'[last] = [kind |-> "SNAPSHOT", snap |-> drawn]
        /\ \A k \in 1..Len(topic) : topic'[k] = topic[k]
    BY <1>0, <1>5 DEF Publish, TopicTypeOK
  <2>2. /\ Sent' = Sent \cup {last} /\ last \notin Sent
        /\ \A k \in Sent : k \in 1..Len(topic) /\ topic'[k] = topic[k]
        /\ topic'[last].snap = drawn
    BY <1>0, <2>1 DEF Sent
  <2>3. \A i \in InvoiceIds :
           /\ i \in Mentioned(drawn) <=> books[i].state # "UNKNOWN"
           /\ Says(drawn, i, "REPAID") <=> books[i].state = "REPAID"
    BY DEF Drawn, Mentioned, Says, Known, EntryFor, TopicTypeOK
  <2> HIDE DEF drawn
  <2>4. \A j, k \in Sent' : j <= k => j = k \/ (j \in Sent /\ k = last)
                                   \/ (j \in Sent /\ k \in Sent)
    BY <1>0, <2>2
  <2> HIDE DEF last
  <2>5. /\ \A k \in Sent : topic'[k].snap = Snap(k)
        /\ topic'[last].snap = drawn
    BY <2>2 DEF Snap
  <2>6. ASSUME NEW k \in Sent', NEW i \in InvoiceIds
        PROVE  /\ i \in Mentioned(topic'[k].snap) => books'[i].state # "UNKNOWN"
               /\ Says(topic'[k].snap, i, "REPAID") => books'[i].state = "REPAID"
    BY <2>1, <2>2, <2>3, <2>5 DEF KnowledgeGrows
  <2>7. ASSUME NEW j \in Sent', NEW k \in Sent', j <= k, NEW i \in InvoiceIds
        PROVE  /\ i \in Mentioned(topic'[j].snap) => i \in Mentioned(topic'[k].snap)
               /\ Says(topic'[j].snap, i, "REPAID") => Says(topic'[k].snap, i, "REPAID")
    <3>1. CASE j = k
      BY <3>1
    <3>2. CASE j \in Sent /\ k = last
      BY <2>3, <2>5, <3>2 DEF KnowledgeGrows
    <3>3. CASE j \in Sent /\ k \in Sent
      BY <2>5, <2>7, <3>3 DEF KnowledgeGrows
    <3> QED BY <2>4, <2>7, <3>1, <3>2, <3>3
  <2> QED BY <2>6, <2>7 DEF KnowledgeGrows, Snap, Says, Mentioned
<1> QED BY <1>2, <1>3, <1>4, <1>5 DEF TNext

(* How a use case changes the rows: what is held or released and was not   *)
(* before is stamped by the service's clock, or is what a snapshot says.   *)
MovedNow ==
    \A i \in InvoiceIds :
        /\ (i \in Held(rows))' =>
              \/ i \in Held(rows) /\ reservedAt'[i] = reservedAt[i]
              \/ reservedAt'[i] = now
        /\ (i \in Released(rows))' =>
              \/ i \in Released(rows) /\ releasedAt'[i] = releasedAt[i]
              \/ releasedAt'[i] = now

MovedBy(snap) ==
    \A i \in InvoiceIds :
        /\ (i \in Held(rows))' =>
              \/ i \in Held(rows) /\ reservedAt'[i] = reservedAt[i]
              \/ i \in Mentioned(snap)
        /\ (i \in Released(rows))' =>
              \/ i \in Released(rows) /\ releasedAt'[i] = releasedAt[i]
              \/ Says(snap, i, "REPAID")

LEMMA StillRows ==
    ASSUME UNCHANGED <<holds, reservedAt, releasedAt>>
    PROVE  MovedNow
BY DEF MovedNow, Held, Released, With, rows

LEMMA ReleaseMovesNow ==
    ASSUME TypeOK, NEW i \in InvoiceIds, NEW reason, ReleaseReservation(i, reason)
    PROVE  MovedNow
<1>1. /\ holds' = [holds EXCEPT ![i] = Release(holds[i], reason)]
      /\ releasedAt' = [releasedAt EXCEPT ![i] = now]
      /\ UNCHANGED reservedAt
      /\ holds[i].status = "ACTIVE"
  BY DEF ReleaseReservation, TypeOK, Held, With, rows
<1>2. holds'[i].status = "RELEASED"
  <2>1. holds[i] \in Reservation
    BY DEF TypeOK
  <2> QED BY <1>1, <2>1 DEF Release, IsReleased, Reservation, TypeOK
<1> QED BY <1>1, <1>2 DEF MovedNow, Held, Released, With, rows, TypeOK

LEMMA ReserveMovesNow ==
    ASSUME TypeOK, NEW i \in InvoiceIds, NEW original \in Originals,
           NEW quote \in Quotes, ReserveInvoice(i, original, quote)
    PROVE  MovedNow
<1> DEFINE opened == OpenHold(Conversion(original, quote))
<1>1. /\ holds' = [holds EXCEPT ![i] = opened]
      /\ reservedAt' = [reservedAt EXCEPT ![i] = now]
      /\ UNCHANGED releasedAt
  BY DEF ReserveInvoice
<1>2. opened.status = "ACTIVE"
  BY DEF OpenHold
<1> HIDE DEF opened
<1> QED BY <1>1, <1>2 DEF MovedNow, Held, Released, With, rows, TypeOK

LEMMA SnapshotMoves ==
    ASSUME RowInv, NEW snap \in TruthfulSnapshots, ApplySnapshot(snap)
    PROVE  MovedBy(snap)
<1>0. TypeOK /\ IsSnapshot(snap)
  BY TruthfulShape DEF RowInv
<1> SUFFICES ASSUME NEW i \in InvoiceIds
             PROVE  /\ (i \in Held(rows))' =>
                          \/ i \in Held(rows) /\ reservedAt'[i] = reservedAt[i]
                          \/ i \in Mentioned(snap)
                    /\ (i \in Released(rows))' =>
                          \/ i \in Released(rows) /\ releasedAt'[i] = releasedAt[i]
                          \/ Says(snap, i, "REPAID")
  BY DEF MovedBy
<1> DEFINE judgement == Judgement(rows, snap, i)
<1>1. /\ holds'[i] = PlannedHold(rows, snap, i)
      /\ reservedAt'[i] = IF judgement = "CREATE" THEN snap.asOf ELSE reservedAt[i]
      /\ releasedAt'[i] = IF judgement = "RELEASE" THEN snap.asOf ELSE releasedAt[i]
  BY DEF ApplySnapshot, Judged
<1>2. /\ i \in Held(rows) <=> holds[i].status = "ACTIVE"
      /\ i \in Released(rows) <=> holds[i].status = "RELEASED"
      /\ (i \in Held(rows))' <=> holds'[i].status = "ACTIVE"
      /\ (i \in Released(rows))' <=> holds'[i].status = "RELEASED"
  BY DEF Held, Released, With, rows
<1>3. CASE judgement = "RELEASE"
  <2>1. Reported(snap, i) = "REPAID" /\ holds[i].status = "ACTIVE"
    BY <1>0, <1>2, <1>3, JudgementMeaning
  <2>2. Says(snap, i, "REPAID")
    BY <2>1 DEF Reported, Says
  <2> QED BY <2>2 DEF Says
<1>4. CASE judgement = "CREATE"
  <2>1. /\ i \in Mentioned(snap)
        /\ holds'[i] = OpenHold([original  |-> snap.invoices[i].original,
                                 converted |-> snap.invoices[i].amount,
                                 rate      |-> snap.invoices[i].rate])
    BY <1>0, <1>1, <1>4, JudgementMeaning, PlannedRow
  <2> QED BY <1>2, <2>1 DEF OpenHold
<1>5. CASE judgement = "CORRECT"
  <2>1. /\ i \in Mentioned(snap)
        /\ holds[i].status = "ACTIVE"
        /\ holds'[i] = CorrectTo(holds[i], snap.invoices[i].amount)
    BY <1>0, <1>1, <1>2, <1>5, JudgementMeaning, PlannedRow
  <2>2. holds'[i].status = "ACTIVE"
    BY <1>0, <2>1 DEF CorrectTo, TypeOK, Reservation
  <2> QED BY <1>2, <2>1, <2>2
<1>6. CASE judgement \notin {"RELEASE", "CREATE", "CORRECT"}
  <2>1. holds'[i] = holds[i]
    BY <1>0, <1>1, <1>6, PlannedRow
  <2> QED BY <1>1, <1>2, <1>6, <2>1
<1> QED BY <1>3, <1>4, <1>5, <1>6

-----------------------------------------------------------------------------
(* The margin. *)

LEMMA Clocks ==
    ASSUME TypeOK
    PROVE  /\ {now, Delay, Skew, Margin} \subseteq Int
           /\ Delay >= 0 /\ Skew <= Margin - Delay
           /\ \A i \in InvoiceIds : reservedAt[i] \in Int /\ releasedAt[i] \in Int
BY WithinMargin, MarginAssumption DEF TypeOK

(* What a snapshot covers stays covered when the rows move by the clock... *)
LEMMA CoversClients ==
    ASSUME TypeOK, NEW snap \in TruthfulSnapshots, Covered(snap), MovedNow,
           UNCHANGED now
    PROVE  Covered(snap)'
<1>1. snap.asOf \in Int /\ snap.asOf <= now + Skew
  BY TruthfulShape DEF Covered
<1>2. now >= Cutoff(snap)
  BY <1>1, Clocks DEF Cutoff
<1> QED BY <1>2 DEF Covered, MovedNow

(* ... or as a snapshot before it says. *)
LEMMA CoversSnapshots ==
    ASSUME NEW snap, Covered(snap), NEW earlier, MovedBy(earlier), UNCHANGED now,
           \A i \in InvoiceIds :
              /\ i \in Mentioned(earlier) => i \in Mentioned(snap)
              /\ Says(earlier, i, "REPAID") => Says(snap, i, "REPAID")
    PROVE  Covered(snap)'
BY DEF Covered, MovedBy, Says

(* It is enough to look at one snapshot. *)
LEMMA MarginCoversByOne ==
    ASSUME TopicTypeOK, UNCHANGED topic,
           \A k \in Pending' : \A snap : snap = Snap(k) => Covered(snap)'
    PROVE  MarginCovers'
<1> SUFFICES ASSUME NEW k \in Pending'
             PROVE  Covered(Snap(k))'
  BY DEF MarginCovers
<1>1. PICK snap : snap = Snap(k)
  OBVIOUS
<1>2. Covered(snap)'
  BY <1>1
<1>3. topic'[k].snap = snap
  BY <1>1 DEF Snap
<1> QED BY <1>2, <1>3 DEF Covered, Snap, Says, Mentioned, Cutoff

(* Rows that move by the service's own clock are news that is fresh, and   *)
(* later than any snapshot that is on its way.                             *)
LEMMA MarginCoversClients ==
    ASSUME TypeOK, TopicTypeOK, NewsIsFresh, MarginCovers, MovedNow,
           UNCHANGED <<now, books, topic>>, offset' \in Nat, offset' >= offset
    PROVE  NewsIsFresh' /\ MarginCovers'
<1>1. NewsIsFresh'
  BY Clocks DEF NewsIsFresh, MovedNow
<1>2. ASSUME NEW k \in Pending', NEW snap, snap = Snap(k)
      PROVE  Covered(snap)'
  <2>1. k \in Pending /\ k \in Sent
    BY <1>2 DEF Pending, Sent, TopicTypeOK
  <2>2. Covered(snap) /\ snap \in TruthfulSnapshots
    BY <1>2, <2>1, SentIsTruthful DEF MarginCovers
  <2> QED BY <2>2, CoversClients
<1> QED BY <1>1, <1>2, MarginCoversByOne

(* Rows that a snapshot moves are no news to treasury, and in agreement    *)
(* with every snapshot that comes after it.                                *)
LEMMA MarginCoversSnapshots ==
    ASSUME TopicTypeOK, KnowledgeGrows, NewsIsFresh, MarginCovers,
           NEW j \in Sent, NEW applied, applied = Snap(j), MovedBy(applied),
           UNCHANGED <<now, books, topic>>, offset' = j, offset <= j
    PROVE  NewsIsFresh' /\ MarginCovers'
<1>1. \A i \in InvoiceIds :
         /\ i \in Mentioned(applied) => books[i].state # "UNKNOWN"
         /\ Says(applied, i, "REPAID") => books[i].state = "REPAID"
  BY DEF KnowledgeGrows
<1>2. NewsIsFresh'
  BY <1>1 DEF NewsIsFresh, MovedBy
<1>3. ASSUME NEW k \in Pending', NEW snap, snap = Snap(k)
      PROVE  Covered(snap)'
  <2>1. k \in Pending /\ j <= k /\ k \in Sent
    BY <1>3 DEF Pending, Sent, TopicTypeOK
  <2>2. Covered(snap)
    BY <1>3, <2>1 DEF MarginCovers
  <2>3. \A i \in InvoiceIds :
           /\ i \in Mentioned(applied) => i \in Mentioned(snap)
           /\ Says(applied, i, "REPAID") => Says(snap, i, "REPAID")
    BY <1>3, <2>1 DEF KnowledgeGrows
  <2> QED BY <2>2, <2>3, CoversSnapshots
<1> QED BY <1>2, <1>3, MarginCoversByOne

-----------------------------------------------------------------------------
(* No false alarm. *)

(* A truthful snapshot that the margin covers disputes nothing: a hold it  *)
(* does not mention is too young, so is a release it has not heard of, and *)
(* what it reports can always be held.                                     *)
LEMMA NothingDisputed ==
    ASSUME TypeOK, NEW snap \in TruthfulSnapshots, Covered(snap),
           NEW i \in InvoiceIds
    PROVE  Judgement(rows, snap, i) \notin DiscrepancyReasons
<1> DEFINE entry == snap.invoices[i]
<1>0. /\ holds[i].status \in {"NONE", "ACTIVE", "RELEASED"}
      /\ rows.holds = holds /\ rows.reservedAt = reservedAt
      /\ rows.releasedAt = releasedAt
      /\ reservedAt[i] \in Int /\ releasedAt[i] \in Int
      /\ snap.asOf \in Int /\ Cutoff(snap) \in Int
  BY TruthfulShape, MarginAssumption DEF TypeOK, Reservation, rows, Cutoff
<1>1. /\ i \in Held(rows) <=> holds[i].status = "ACTIVE"
      /\ i \in Released(rows) <=> holds[i].status = "RELEASED"
  BY <1>0 DEF Held, Released, With
<1>2. CASE i \notin Mentioned(snap)
  <2>1. Judgement(rows, snap, i) = JudgeSilence(rows, snap, i)
    BY <1>2 DEF Judgement, Reported
  <2>2. i \in Held(rows) => ~(rows.reservedAt[i] < Cutoff(snap))
    BY <1>0, <1>2 DEF Covered
  <2>3. Judgement(rows, snap, i) = "KEEP"
    BY <2>1, <2>2 DEF JudgeSilence
  <2> QED BY <2>3 DEF DiscrepancyReasons
<1>3. CASE i \in Mentioned(snap) /\ entry.status = "REPAID"
  <2>1. Judgement(rows, snap, i) \in {"RELEASE", "KEEP"}
    BY <1>3 DEF Judgement, Reported
  <2> QED BY <2>1 DEF DiscrepancyReasons
<1>4. CASE i \in Mentioned(snap) /\ entry.status = "OUTSTANDING"
  <2>1. /\ entry.amount \in Nat \ {0} /\ entry.rate = NoQuote
        /\ entry.original = [currency |-> "home", minor |-> entry.amount]
    BY <1>4, TruthfulShape
  <2>2. Reported(snap, i) = "EXPOSURE"
    BY <1>4, <2>1 DEF Reported
  <2>3. Judgement(rows, snap, i) = JudgeExposure(rows, snap, i)
    BY <2>2 DEF Judgement
  <2>4. Loaded(rows, snap, i) = holds[i]
    BY <1>0, <1>4 DEF Loaded
  <2>5. EvidenceFault(entry) = "NONE"
    BY <2>1 DEF EvidenceFault
  <2>6. holds[i].status = "RELEASED" => JudgeReleased(rows, snap, i) = "KEEP"
    BY <1>0, <1>1, <1>4 DEF JudgeReleased, Covered, Says
  <2>7. Judgement(rows, snap, i) \in {"KEEP", "CORRECT", "CREATE"}
    BY <1>0, <2>3, <2>4, <2>5, <2>6 DEF JudgeExposure
  <2> QED BY <2>7 DEF DiscrepancyReasons
<1> QED BY <1>2, <1>3, <1>4, TruthfulShape

LEMMA QuietSnapshot ==
    ASSUME TypeOK, NEW snap \in TruthfulSnapshots, Covered(snap),
           ApplySnapshot(snap), NoFalseAlarm
    PROVE  NoFalseAlarm'
<1>1. Discrepancies(rows, snap) = {}
  BY NothingDisputed DEF Discrepancies
<1>2. \A k \in Keys : discrepancies'[k] = discrepancies[k]
  <2>1. OpenKeys = {}
    BY DEF NoFalseAlarm, OpenKeys, NoDiscrepancy
  <2> QED BY <1>1, <2>1 DEF ApplySnapshot, SettledDiscrepancies
<1> QED BY <1>2 DEF NoFalseAlarm

(* The inductive invariant. *)
TruthfulInv ==
    /\ RowInv
    /\ TopicTypeOK
    /\ KnowledgeGrows
    /\ NewsIsFresh
    /\ MarginCovers
    /\ NoFalseAlarm

(* Handling a message, the next one or the last one again. *)
LEMMA HandledStep ==
    ASSUME TruthfulInv, NEW k \in 1..Len(topic), HandledRows(k), k >= offset,
           offset' = k, UNCHANGED <<books, topic>>
    PROVE  NewsIsFresh' /\ MarginCovers' /\ NoFalseAlarm'
<1>0. /\ TypeOK /\ TopicTypeOK /\ KnowledgeGrows /\ NewsIsFresh /\ MarginCovers
      /\ NoFalseAlarm /\ offset \in Nat /\ k \in Nat
  BY DEF TruthfulInv, RowInv, TopicTypeOK
<1>1. CASE k \in Sent /\ ApplySnapshot(Snap(k))
  <2>1. PICK snap \in TruthfulSnapshots : snap = Snap(k)
    BY <1>0, <1>1, SentIsTruthful
  <2>2. MovedBy(snap)
    BY <1>1, <2>1, SnapshotMoves DEF TruthfulInv
  <2>3. UNCHANGED now
    BY <1>1 DEF ApplySnapshot
  <2>4. NewsIsFresh' /\ MarginCovers'
    BY <1>0, <1>1, <2>1, <2>2, <2>3, MarginCoversSnapshots
  <2>5. Covered(snap)
    BY <1>0, <1>1, <2>1 DEF MarginCovers, Pending
  <2> QED BY <1>0, <1>1, <2>1, <2>4, <2>5, QuietSnapshot
<1>2. ASSUME NEW i \in InvoiceIds, ReleaseReservation(i, "REPAID")
      PROVE  NewsIsFresh' /\ MarginCovers' /\ NoFalseAlarm'
  <2>1. MovedNow
    BY <1>0, <1>2, ReleaseMovesNow
  <2>2. UNCHANGED <<now, discrepancies>>
    BY <1>2 DEF ReleaseReservation
  <2> QED BY <1>0, <2>1, <2>2, MarginCoversClients DEF NoFalseAlarm
<1>3. CASE UNCHANGED service
  <2>1. MovedNow /\ UNCHANGED <<now, discrepancies>>
    BY <1>3, StillRows DEF service, vars
  <2> QED BY <1>0, <2>1, MarginCoversClients DEF NoFalseAlarm
<1> QED BY <1>1, <1>2, <1>3 DEF HandledRows

LEMMA TruthfulStep ==
    ASSUME TruthfulInv, [TNext]_allVars
    PROVE  TruthfulInv'
<1>0. /\ RowInv /\ TypeOK /\ TopicTypeOK /\ KnowledgeGrows /\ NewsIsFresh
      /\ MarginCovers /\ NoFalseAlarm
      /\ Len(topic) \in Nat /\ offset \in Nat
  BY DEF TruthfulInv, RowInv, TopicTypeOK
<1>1. RowInv' /\ TopicTypeOK' /\ KnowledgeGrows'
  BY <1>0, TruthfulStepIsUseCase, RowStep, TopicTypeStep, GrowthStep
<1> SUFFICES NewsIsFresh' /\ MarginCovers' /\ NoFalseAlarm'
  BY <1>1 DEF TruthfulInv
<1>2. CASE Client
  <2>1. MovedNow /\ UNCHANGED <<now, discrepancies>>
    <3>1. ASSUME CreateProgram(CreditLimit)
          PROVE  MovedNow /\ UNCHANGED <<now, discrepancies>>
      BY <3>1, StillRows DEF CreateProgram
    <3>2. ASSUME NEW i \in InvoiceIds, NEW original \in Originals,
                 NEW quote \in Quotes, ReserveInvoice(i, original, quote)
          PROVE  MovedNow /\ UNCHANGED <<now, discrepancies>>
      BY <1>0, <3>2, ReserveMovesNow DEF ReserveInvoice
    <3>3. ASSUME NEW i \in InvoiceIds, NEW reason \in ApiReasons,
                 ReleaseReservation(i, reason)
          PROVE  MovedNow /\ UNCHANGED <<now, discrepancies>>
      BY <1>0, <3>3, ReleaseMovesNow DEF ReleaseReservation
    <3> QED BY <1>2, <3>1, <3>2, <3>3 DEF Client
  <2>2. UNCHANGED <<books, topic, offset>>
    BY <1>2 DEF Client
  <2> QED BY <1>0, <2>1, <2>2, MarginCoversClients DEF NoFalseAlarm
<1>3. CASE Clock
  <2>1. /\ now' = now + 1 /\ ~Overdue
        /\ UNCHANGED <<holds, reservedAt, releasedAt, discrepancies, books, topic,
                       offset>>
    BY <1>3 DEF Clock, Tick
  <2>2. NewsIsFresh'
    <3>1. \A i \in InvoiceIds :
             /\ i \in Held(rows) /\ books[i].state = "UNKNOWN" =>
                   ~(now - reservedAt[i] >= Delay)
             /\ i \in Released(rows) /\ books[i].state = "OUTSTANDING" =>
                   ~(now - releasedAt[i] >= Delay)
      BY <2>1 DEF Overdue, Known
    <3>2. rows' = rows
      BY <2>1 DEF rows
    <3> QED BY <1>0, <2>1, <3>1, <3>2, Clocks DEF NewsIsFresh
  <2>3. MarginCovers'
    <3>1. MovedNow
      BY <2>1, StillRows
    <3>2. ASSUME NEW k \in Pending', NEW snap, snap = Snap(k)
          PROVE  Covered(snap)'
      <4>1. k \in Pending /\ k \in Sent
        BY <2>1, <3>2 DEF Pending, Sent
      <4>2. Covered(snap) /\ snap.asOf \in Int
        BY <1>0, <3>2, <4>1, SentIsTruthful, TruthfulShape DEF MarginCovers
      <4>3. snap.asOf <= now' + Skew
        BY <1>0, <2>1, <4>2, Clocks DEF Covered
      <4>4. rows' = rows
        BY <2>1 DEF rows
      <4> QED BY <2>1, <4>2, <4>3, <4>4 DEF Covered
    <3> QED BY <1>0, <2>1, <3>2, MarginCoversByOne
  <2> QED BY <1>0, <2>1, <2>2, <2>3 DEF NoFalseAlarm
<1>4. ASSUME NEW i \in InvoiceIds, Learn(i) \/ Settle(i)
      PROVE  NewsIsFresh' /\ MarginCovers' /\ NoFalseAlarm'
  <2>1. /\ UNCHANGED <<holds, reservedAt, releasedAt, discrepancies, now, offset>>
        /\ \A j \in InvoiceIds :
              /\ books'[j].state = "UNKNOWN" => books[j].state = "UNKNOWN"
              /\ books'[j].state = "OUTSTANDING" =>
                    books[j].state = "OUTSTANDING" \/ j \notin Released(rows)
    BY <1>0, <1>4 DEF Learn, Settle, service, vars, Known, TopicTypeOK
  <2>2. rows' = rows
    BY <2>1 DEF rows
  <2>3. NewsIsFresh'
    BY <1>0, <2>1, <2>2 DEF NewsIsFresh
  <2>4. \A k \in Pending' : k \in Pending /\ topic'[k] = topic[k]
    <3>1. CASE UNCHANGED topic
      BY <2>1, <3>1 DEF Pending, Sent
    <3>2. CASE topic' = Append(topic, [kind |-> "INVOICE_REPAID", invoice |-> i])
      <4>1. /\ Len(topic') = Len(topic) + 1
            /\ \A k \in 1..Len(topic) : topic'[k] = topic[k]
            /\ topic'[Len(topic) + 1].kind = "INVOICE_REPAID"
        BY <1>0, <3>2 DEF TopicTypeOK
      <4> QED BY <1>0, <2>1, <4>1 DEF Pending, Sent
    <3> QED BY <1>4, <3>1, <3>2 DEF Learn, Settle
  <2>5. MarginCovers'
    BY <1>0, <2>1, <2>2, <2>4 DEF MarginCovers, Covered, Snap, Says, Mentioned, Cutoff
  <2> QED BY <1>0, <2>1, <2>3, <2>5 DEF NoFalseAlarm
<1>5. CASE Publish
  <2> DEFINE last == Len(topic) + 1
  <2>1. /\ UNCHANGED <<holds, reservedAt, releasedAt, discrepancies, now, offset, books>>
        /\ Len(topic') = last
        /\ topic'[last] = [kind |-> "SNAPSHOT", snap |-> Drawn(Len(topic))]
        /\ \A k \in 1..Len(topic) : topic'[k] = topic[k]
    BY <1>0, <1>5 DEF Publish, service, vars, TopicTypeOK
  <2>2. rows' = rows
    BY <2>1 DEF rows
  <2>3. NewsIsFresh'
    BY <1>0, <2>1, <2>2 DEF NewsIsFresh
  <2>4. PICK drawn : drawn = Drawn(Len(topic))
    OBVIOUS
  <2>5. \A k \in Pending' : \/ k \in Pending /\ topic'[k] = topic[k]
                            \/ topic'[k].snap = drawn
    BY <1>0, <2>1, <2>4 DEF Pending, Sent
  <2>6. Covered(drawn)'
    <3>1. /\ drawn.asOf = now + Skew
          /\ \A i \in InvoiceIds :
                /\ i \notin Mentioned(drawn) => books[i].state = "UNKNOWN"
                /\ Says(drawn, i, "OUTSTANDING") => books[i].state = "OUTSTANDING"
      BY <1>0, <2>4
         DEF Drawn, TreasuryTime, Mentioned, Says, Known, EntryFor, TopicTypeOK
    <3>2. Cutoff(drawn) = drawn.asOf - Margin
      BY DEF Cutoff
    <3>3. \A i \in InvoiceIds :
             /\ now - reservedAt[i] <= Delay => reservedAt[i] >= Cutoff(drawn)
             /\ now - releasedAt[i] <= Delay => releasedAt[i] >= Cutoff(drawn)
      <4>1. drawn.asOf = now + Skew
        BY <3>1
      <4> QED BY <1>0, <3>2, <4>1, Clocks
    <3>4. now' = now /\ drawn.asOf <= now + Skew
      BY <1>0, <2>1, <3>1, Clocks
    <3> QED BY <1>0, <2>1, <2>2, <3>1, <3>3, <3>4 DEF Covered, NewsIsFresh
  <2>7. MarginCovers'
    BY <1>0, <2>1, <2>2, <2>5, <2>6
       DEF MarginCovers, Covered, Snap, Says, Mentioned, Cutoff
  <2> QED BY <1>0, <2>1, <2>3, <2>7 DEF NoFalseAlarm
<1>6. CASE Deliver
  <2>1. /\ offset + 1 \in 1..Len(topic) /\ Handle(topic[offset + 1])
        /\ offset' = offset + 1 /\ UNCHANGED <<books, topic>>
    BY <1>0, <1>6 DEF Deliver
  <2>2. PICK k \in 1..Len(topic) : k = offset + 1
    BY <2>1
  <2>3. HandledRows(k) /\ k >= offset /\ offset' = k
    BY <1>0, <2>1, <2>2, HandleMeaning
  <2> QED BY <2>1, <2>3, HandledStep
<1>7. CASE Redeliver
  <2>1. /\ offset \in 1..Len(topic) /\ Handle(topic[offset])
        /\ offset' = offset /\ UNCHANGED <<books, topic>>
    BY <1>0, <1>7 DEF Redeliver, TopicTypeOK
  <2>2. PICK k \in 1..Len(topic) : k = offset
    BY <2>1
  <2>3. HandledRows(k) /\ k >= offset /\ offset' = k
    BY <1>0, <2>1, <2>2, HandleMeaning
  <2> QED BY <2>1, <2>3, HandledStep
<1>8. CASE UNCHANGED allVars
  <2>1. MovedNow /\ UNCHANGED <<now, discrepancies, books, topic, offset>>
    BY <1>8, StillRows DEF allVars
  <2> QED BY <1>0, <2>1, MarginCoversClients DEF NoFalseAlarm
<1> QED BY <1>2, <1>3, <1>4, <1>5, <1>6, <1>7, <1>8 DEF TNext

LEMMA TruthfulStart == TInit => TruthfulInv
<1> SUFFICES ASSUME TInit
             PROVE  TruthfulInv
  OBVIOUS
<1>1. Init /\ topic = <<>> /\ Len(topic) = 0 /\ offset = 0
  BY DEF TInit
<1>2. TopicTypeOK
  BY <1>1 DEF TInit, TopicTypeOK, Known
<1>3. Sent = {} /\ Pending = {}
  BY <1>1 DEF Sent, Pending
<1>4. Held(rows) = {} /\ Released(rows) = {}
  BY <1>1 DEF Init, Held, Released, With, rows, NoReservation
<1>5. NoFalseAlarm
  BY <1>1 DEF Init, NoFalseAlarm
<1> QED BY <1>1, <1>2, <1>3, <1>4, <1>5, RowInit
        DEF TruthfulInv, KnowledgeGrows, NewsIsFresh, MarginCovers

LEMMA TruthfulInvariant == TSpec => []TruthfulInv
BY TruthfulStart, TruthfulStep, PTL DEF TSpec

(* Between parties that tell the truth no discrepancy is ever recorded, as *)
(* long as the margin is no less than the clocks' skew and the delay of    *)
(* news together (reconcileProgram; PLAN 2.1).                             *)
THEOREM MarginIsEnough == TSpec => []NoFalseAlarm
<1>1. TruthfulInv => NoFalseAlarm
  BY DEF TruthfulInv
<1> QED BY <1>1, TruthfulInvariant, PTL

(* The service that treasury talks to is TreasurySync's. *)
THEOREM TruthfulIsUseCases == TSpec => Spec
<1>1. TInit => Init
  BY DEF TInit
<1>2. TruthfulInv /\ [TNext]_allVars => [Next]_vars
  BY TruthfulStepIsUseCase DEF TruthfulInv
<1> QED BY <1>1, <1>2, TruthfulInvariant, PTL DEF TSpec, Spec

(* What a truthful snapshot that the consumer leaves where it is, to be    *)
(* tried again, can have met: a hold taken after its instant, which it     *)
(* would free, or columns that are too narrow.  No check of the domain, no *)
(* key and no earlier discrepancy is in its way.                           *)
StallsForCause ==
    \A k \in Sent :
        LET snap == Snap(k)
        IN  k = offset + 1 /\ SnapshotVerdict(snap) \in Transient
                => Poisoned \/ Overflows(snap)

(* The consumer's onMessage promises that no message stalls the partition: *)
(* with figures that fit, a truthful snapshot does so in one way only.     *)
THEOREM OnlyLateHoldsAreRefused == TSpec => []StallsForCause
<1>1. ASSUME TruthfulInv, PlansAreApplicable, NEW k \in Sent, k = offset + 1,
             SnapshotVerdict(Snap(k)) \in Transient, ~Overflows(Snap(k))
      PROVE  Poisoned
  <2> DEFINE snap == Snap(k)
  <2>1. /\ TypeOK /\ TopicTypeOK /\ NoFalseAlarm
        /\ snap \in TruthfulSnapshots /\ snap \in Snapshots /\ IsSnapshot(snap)
        /\ snap.asOf \in Int
    BY <1>1, SentIsTruthful, TruthfulShape DEF TruthfulInv, RowInv
  <2>2. /\ offset < Len(topic) /\ topic[offset + 1].kind = "SNAPSHOT"
        /\ snap = topic[offset + 1].snap
    BY <1>1, <2>1 DEF Sent, Snap, TopicTypeOK
  <2> HIDE DEF snap
  <2>3. SnapshotVerdict(snap) = "CONSTRAINT"
    <3>1. Parses(snap)
      BY <2>1 DEF TruthfulSnapshots, Parses
    <3> QED BY <1>1, <2>1, <3>1 DEF PlansAreApplicable, Transient, snap
  <2>4. RowsViolateCheck(snap)
    BY <2>3, ScreenMeaning DEF SnapshotVerdict
  <2>5. \A i \in Judged(rows, snap, "CREATE") : holds[i].status = "NONE"
    BY <1>1, <2>1, <2>3 DEF PlansAreApplicable, Unheld, With, rows
  <2>6. \A d \in Discrepancies(rows, snap) : discrepancies[d].state = "NONE"
    <3>1. Discrepancies(rows, snap) \subseteq Keys
      BY DEF Discrepancies, Keys
    <3> QED BY <2>1, <3>1 DEF NoFalseAlarm, NoDiscrepancy
  <2>7. PICK i \in Judged(rows, snap, "RELEASE") : snap.asOf < reservedAt[i]
    BY <1>1, <2>4, <2>5, <2>6 DEF RowsViolateCheck, snap
  <2>8. i \in InvoiceIds /\ i \in Held(rows) /\ Reported(snap, i) = "REPAID"
    BY <2>1, <2>7, JudgementMeaning DEF Judged
  <2>9. reservedAt[i] > snap.asOf
    BY <2>1, <2>7, <2>8, Clocks
  <2> QED BY <2>2, <2>8, <2>9 DEF Poisoned
<1>2. TruthfulInv /\ PlansAreApplicable => StallsForCause
  BY <1>1 DEF StallsForCause
<1> QED BY <1>2, TruthfulInvariant, TruthfulIsUseCases, PlansCanBeCarriedOut, PTL

=============================================================================
