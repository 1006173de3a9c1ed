--------------------------- MODULE TruthfulTreasury ---------------------------
(***************************************************************************)
(* The service together with a treasury that tells the truth, and the      *)
(* partition between them.                                                 *)
(*                                                                         *)
(* Treasury keeps its own books.  It hears of a hold or a release made     *)
(* here within Delay, finances invoices of its own accord, sees repayments *)
(* and draws up snapshots of all it knows, stamped by its own clock, which *)
(* is Skew ahead of the service's (behind, if negative).  Its messages are *)
(* read in order, each at least once: after a crash between the commit of  *)
(* the rows and the commit of the offset the last one comes again.  An     *)
(* InvoiceRepaid may be lost before it gets to the topic.                  *)
(*                                                                         *)
(* The reading of messages is the consumer's; treasury itself is modelled  *)
(* from what its messages are documented to mean.                          *)
(***************************************************************************)
EXTENDS TreasurySync

CONSTANTS
    Amounts,        \* what treasury takes an invoice to be worth
    Skew,           \* how far treasury's clock is ahead of the service's
    Delay,          \* how long news of a hold takes to reach treasury
    CreditLimit,    \* the program's limit, which nobody changes here
    MaxMessages     \* bound: treasury sends no more than these

(* A hold that treasury has not heard of, or a release it has not heard    *)
(* of, is never older than the margin at the instant of a snapshot.        *)
ASSUME WithinMargin == Delay \in Nat /\ Skew \in Int /\ Delay + Skew <= Margin

(* What treasury says of an invoice: amounts as issued, in the program's   *)
(* currency.                                                               *)
TruthfulEntries ==
    {[status   |-> status,
      amount   |-> amount,
      original |-> [currency |-> "home", minor |-> amount],
      rate     |-> NoQuote] : status \in {"OUTSTANDING", "REPAID"},
                              amount \in Amounts}

(* The snapshots it may draw up. *)
TruthfulSnapshots ==
    [sequence : 0..(MaxMessages - 1),
     asOf     : Skew..(MaxTime + Skew),
     limit    : {CreditLimit},
     invoices : UNION {[listed -> TruthfulEntries] : listed \in SUBSET InvoiceIds},
     fault    : {"NONE"}]

(* An invoice is worth something, and what treasury sends is what          *)
(* TreasurySync's use cases are for.                                       *)
ASSUME TreasuryAssumption ==
    /\ Amounts \subseteq Nat \ {0}
    /\ CreditLimit \in Limits
    /\ TruthfulSnapshots \subseteq Snapshots
    /\ MaxMessages \in Nat

VARIABLES
    books,          \* what treasury knows of each invoice: [state, amount]
    topic,          \* the messages of the program's partition
    offset          \* the consumer's committed offset: how many are done

service  == vars
allVars  == <<program, holds, reservedAt, releasedAt, watermark, discrepancies,
              logged, now, books, topic, offset>>

TreasuryTime == now + Skew

Known(state) == {i \in InvoiceIds : books[i].state = state}

(* Treasury states amounts in the program's currency, as issued. *)
EntryFor(i) ==
    [status   |-> books[i].state,
     amount   |-> books[i].amount,
     original |-> [currency |-> "home", minor |-> books[i].amount],
     rate     |-> NoQuote]

Drawn(sequence) ==
    [sequence |-> sequence,
     asOf     |-> TreasuryTime,
     limit    |-> CreditLimit,
     invoices |-> [i \in Known("OUTSTANDING") \cup Known("REPAID") |-> EntryFor(i)],
     fault    |-> "NONE"]

TInit ==
    /\ Init
    /\ books  = [i \in InvoiceIds |-> [state |-> "UNKNOWN", amount |-> 0]]
    /\ topic  = <<>>
    /\ offset = 0

-----------------------------------------------------------------------------
(***************************************************************************)
(* Clients and the clock.                                                  *)
(***************************************************************************)

Client ==
    /\ \/ CreateProgram(CreditLimit)
       \/ \E i \in InvoiceIds, original \in Originals, quote \in Quotes :
             ReserveInvoice(i, original, quote)
       \/ \E i \in InvoiceIds, reason \in ApiReasons : ReleaseReservation(i, reason)
    /\ UNCHANGED <<books, topic, offset>>

(* News that must reach treasury before the clock moves on. *)
Overdue ==
    \/ \E i \in Held(rows) \cap Known("UNKNOWN") : now - reservedAt[i] >= Delay
    \/ \E i \in Released(rows) \cap Known("OUTSTANDING") :
          now - releasedAt[i] >= Delay

Clock ==
    /\ ~Overdue
    /\ Tick
    /\ UNCHANGED <<books, topic, offset>>

-----------------------------------------------------------------------------
(***************************************************************************)
(* Treasury.                                                               *)
(***************************************************************************)

(* It hears of a hold, or finances an invoice nobody reserved for. *)
Learn(i) ==
    /\ i \in Known("UNKNOWN") \ Released(rows)
    /\ \E amount \in Amounts :
          books' = [books EXCEPT ![i] = [state  |-> "OUTSTANDING",
                                         amount |-> amount]]
    /\ UNCHANGED <<service, topic, offset>>

(* An invoice is repaid, or treasury hears that it was released here.  The *)
(* message that says so may be lost, and a release needs none.             *)
Settle(i) ==
    /\ i \in Known("OUTSTANDING")
    /\ books' = [books EXCEPT ![i].state = "REPAID"]
    /\ \/ UNCHANGED topic
       \/ /\ Len(topic) < MaxMessages
          /\ topic' = Append(topic, [kind |-> "INVOICE_REPAID", invoice |-> i])
    /\ UNCHANGED <<service, offset>>

(* Sequences only have to grow: the position in the topic serves. *)
Publish ==
    /\ Len(topic) < MaxMessages
    /\ TreasuryTime <= MaxTime
    /\ topic' = Append(topic, [kind |-> "SNAPSHOT", snap |-> Drawn(Len(topic))])
    /\ UNCHANGED <<service, books, offset>>

-----------------------------------------------------------------------------
(***************************************************************************)
(* The consumer.  A message that is refused for good goes to the dead      *)
(* letters and counts as done; one that fails in any other way stays where *)
(* it is, and nothing has changed.                                         *)
(***************************************************************************)

Transient == {"THROWN", "CONSTRAINT"}

HandleSnapshot(snap) ==
    \/ ApplySnapshot(snap)
    \/ SnapshotVerdict(snap) \notin Transient \cup {"APPLY"} /\ UNCHANGED service

HandleRepaid(i) ==
    \/ ReleaseReservation(i, "REPAID")
    \/ i \notin Held(rows) /\ UNCHANGED service

Handle(message) ==
    IF message.kind = "SNAPSHOT" THEN HandleSnapshot(message.snap)
                                 ELSE HandleRepaid(message.invoice)

Deliver ==
    /\ offset < Len(topic)
    /\ Handle(topic[offset + 1])
    /\ offset' = offset + 1
    /\ UNCHANGED <<books, topic>>

(* The process died before the offset was committed. *)
Redeliver ==
    /\ offset > 0
    /\ Handle(topic[offset])
    /\ UNCHANGED <<books, topic, offset>>

-----------------------------------------------------------------------------

TNext ==
    \/ Client
    \/ Clock
    \/ \E i \in InvoiceIds : Learn(i) \/ Settle(i)
    \/ Publish
    \/ Deliver
    \/ Redeliver

TSpec == TInit /\ [][TNext]_allVars

(* Time passes, news gets through, invoices are settled in the end, and    *)
(* the consumer tries again what it left where it was.  Nothing is assumed *)
(* of clients, or of when treasury publishes.                              *)
TFairness ==
    /\ WF_allVars(Clock)
    /\ \A i \in InvoiceIds : WF_allVars(Learn(i)) /\ WF_allVars(Settle(i))
    /\ WF_allVars(Deliver)

FairTSpec == TSpec /\ TFairness

-----------------------------------------------------------------------------

(* Between parties that tell the truth no discrepancy is ever recorded, in *)
(* whatever state news, holds, releases and snapshots cross each other:    *)
(* the margin covers both directions of the race (PLAN 2.1).               *)
NoFalseAlarm == \A k \in Keys : discrepancies[k] = NoDiscrepancy

(* The next message wants to free, as of an instant that is past, a hold   *)
(* taken since.                                                            *)
Poisoned ==
    /\ offset < Len(topic)
    /\ topic[offset + 1].kind = "SNAPSHOT"
    /\ LET snap == topic[offset + 1].snap
       IN  \E i \in Held(rows) : /\ Reported(snap, i) = "REPAID"
                                 /\ reservedAt[i] > snap.asOf

(* No message stalls those behind it: each is dealt with in the end (the   *)
(* consumer's onMessage: "one poison message cannot stall the partition    *)
(* behind it").                                                            *)
PartitionMoves ==
    \A n \in 1..MaxMessages : Len(topic) >= n ~> offset >= n

(* The one thing that does: everything else a truthful treasury sends gets *)
(* through, whatever clients do meanwhile.                                 *)
OnlyLateHoldsStall ==
    \A n \in 1..MaxMessages : Len(topic) >= n ~> (offset >= n \/ Poisoned)

=============================================================================
