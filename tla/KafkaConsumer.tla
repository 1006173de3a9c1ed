---------------------------- MODULE KafkaConsumer ----------------------------
(***************************************************************************)
(* How treasury's messages get from the program's partition to its rows    *)
(* (TreasuryKafkaConsumer): read in order, applied in a transaction of     *)
(* their own, and only then is the offset committed; what can never        *)
(* succeed goes to the dead-letter topic first, anything else comes again. *)
(*                                                                         *)
(* The rows are those of TreasurySync, and a message does to them what its *)
(* use case does there.  The group may hand the partition to another       *)
(* member while the first is still at a message; the process may die, and  *)
(* an answer of the database, of the producer or of the group be lost,     *)
(* between any two steps.                                                  *)
(*                                                                         *)
(* Offsets count from 1.  Logs and metrics are left out.                   *)
(***************************************************************************)
EXTENDS TreasurySync

CONSTANTS
    Members,        \* the consumers that may be assigned the partition
    Nobody,         \* the partition is assigned to no member
    Messages,       \* what treasury may publish
    MaxMessages,    \* bound: how many messages it publishes
    MaxFaults       \* bound: crashes, rebalances and lost answers

ASSUME DeliveryAssumption ==
    /\ Nobody \notin Members
    /\ MaxFaults \in Nat

(* What treasury publishes is what TreasurySync's use cases are for.       *)
ASSUME MessageAssumption ==
    \A message \in Messages :
        /\ message.type = "ProgramSnapshot" => message.snapshot \in Snapshots
        /\ message.type = "ProgramLimitChanged" => message.newLimit \in Limits
        /\ message.type = "InvoiceRepaid" => message.invoice \in InvoiceIds

VARIABLES
    topic,          \* the messages of the program's partition
    committed,      \* the group's offset: the next message to be read
    assigned,       \* the member that has the partition
    position,       \* by member, the message it is at or reads next
    step,           \* by member, how far it has got with that message
    deadLetters,    \* offsets of the messages in the dead-letter topic
    applied,        \* history: offsets whose transaction was committed
    overlapped,     \* history: the partition changed hands mid-message
    faults          \* how many faults there were

serviceVars  == vars
groupVars    == <<topic, committed, assigned, position, overlapped>>
deliveryVars == <<topic, committed, assigned, position, step, deadLetters,
                  applied, overlapped, faults>>
allVars      == <<serviceVars, deliveryVars>>

Steps == {"idle", "delivered", "applied", "rejected", "lettered"}

DeliveryTypeOK ==
    /\ topic       \in Seq(Messages)
    /\ committed   \in 1..(Len(topic) + 1)
    /\ assigned    \in Members \cup {Nobody}
    /\ position    \in [Members -> 1..(Len(topic) + 1)]
    /\ step        \in [Members -> Steps]
    /\ deadLetters \subseteq 1..Len(topic)
    /\ applied     \subseteq 1..Len(topic)
    /\ overlapped  \in BOOLEAN
    /\ faults      \in 0..MaxFaults

DeliveryInit ==
    /\ Init
    /\ topic       = <<>>
    /\ committed   = 1
    /\ assigned    = Nobody
    /\ position    = [n \in Members |-> 1]
    /\ step        = [n \in Members |-> "idle"]
    /\ deadLetters = {}
    /\ applied     = {}
    /\ overlapped  = FALSE
    /\ faults      = 0

-----------------------------------------------------------------------------
(***************************************************************************)
(* What becomes of a message.                                              *)
(***************************************************************************)

(* A repayment whose hold is gone, or was never made, is handled as well.  *)
RepaymentOutcome(i) ==
    CASE i \notin Held(rows)                          -> "APPLY"
      [] program.reserved < Outstanding(holds[i])     -> "THROWN"
      [] now < reservedAt[i]                          -> "CONSTRAINT"
      [] OTHER                                        -> "APPLY"

(* MALFORMED stands for everything parseMessage refuses: text that is not  *)
(* JSON, a type it does not know, a body that fails its validation.  The   *)
(* validation asks of a new limit only that it is a string: a negative one *)
(* (which also stands for one that is no amount) is refused by the domain, *)
(* one that is too large by its column.                                    *)
Outcome(message) ==
    CASE message.type = "MALFORMED" -> "UNREADABLE"
      [] message.type # "MALFORMED" /\ ~program.exists -> "UNKNOWN_PROGRAM"
      [] message.type = "ProgramLimitChanged" /\ program.exists ->
            IF message.newLimit < 0 THEN "THROWN"
            ELSE IF ~Storable(message.newLimit) THEN "CONSTRAINT" ELSE "APPLY"
      [] message.type = "InvoiceRepaid" /\ program.exists ->
            RepaymentOutcome(message.invoice)
      [] message.type = "ProgramSnapshot" /\ program.exists ->
            SnapshotVerdict(message.snapshot)

(* Mutant: a message for a program that may yet be created is kept. *)
classifyFailureHopefully(outcome) ==
    IF outcome \in {"THROWN", "CONSTRAINT", "UNKNOWN_PROGRAM"}
    THEN "transient" ELSE "permanent"

(* What the domain or the database throws is outside the permanent set. *)
classifyFailure(outcome) ==
    IF outcome \in {"THROWN", "CONSTRAINT"} THEN "transient" ELSE "permanent"

(* What the use case of an applicable message does to the rows. *)
Effect(message) ==
    \/ /\ message.type = "ProgramSnapshot"
       /\ ApplySnapshot(message.snapshot)
    \/ /\ message.type = "ProgramLimitChanged"
       /\ ChangeCreditLimit(message.newLimit)
    \/ /\ message.type = "InvoiceRepaid"
       /\ message.invoice \in Held(rows)
       /\ ReleaseReservation(message.invoice, "REPAID")
    \/ /\ message.type = "InvoiceRepaid"
       /\ message.invoice \notin Held(rows)
       /\ UNCHANGED serviceVars

-----------------------------------------------------------------------------
(***************************************************************************)
(* The topic, the group, and the service's other clients.                  *)
(***************************************************************************)

Publish(message) ==
    /\ Len(topic) < MaxMessages
    /\ topic' = Append(topic, message)
    /\ UNCHANGED <<serviceVars, committed, assigned, position, step,
                   deadLetters, applied, overlapped, faults>>

Fault ==
    /\ faults < MaxFaults
    /\ faults' = faults + 1

(* The member joins, or takes the partition over from one whose session    *)
(* has timed out, and reads on from the committed offset.                  *)
Assign(n) ==
    /\ assigned # n
    /\ step[n] = "idle"
    /\ \/ assigned = Nobody /\ UNCHANGED faults
       \/ assigned # Nobody /\ Fault
    /\ assigned' = n
    /\ position' = [position EXCEPT ![n] = committed]
    /\ overlapped' = (overlapped \/ \E other \in Members : step[other] = "delivered")
    /\ UNCHANGED <<serviceVars, topic, committed, step, deadLetters, applied>>

(* The member's process dies; its transaction, if open, is rolled back. *)
Crash(n) ==
    /\ Fault
    /\ step' = [step EXCEPT ![n] = "idle"]
    /\ assigned' = IF assigned = n THEN Nobody ELSE assigned
    /\ UNCHANGED <<serviceVars, topic, committed, position, deadLetters,
                   applied, overlapped>>

Client ==
    /\ \/ \E limit \in Limits : CreateProgram(limit)
       \/ \E i \in InvoiceIds, original \in Originals, quote \in Quotes :
             ReserveInvoice(i, original, quote)
       \/ \E i \in InvoiceIds, reason \in ApiReasons : ReleaseReservation(i, reason)
       \/ Tick
    /\ UNCHANGED deliveryVars

-----------------------------------------------------------------------------
(***************************************************************************)
(* onMessage: one message at a time.                                       *)
(***************************************************************************)

At(n, s) == step[n] = s

Moves(n, s) == step' = [step EXCEPT ![n] = s]

Deliver(n) ==
    /\ assigned = n
    /\ At(n, "idle")
    /\ position[n] <= Len(topic)
    /\ Moves(n, "delivered")
    /\ UNCHANGED <<serviceVars, groupVars, deadLetters, applied, faults>>

(* The use case commits; the second disjunct loses the answer, which makes *)
(* an error that nobody has classed as permanent of it.                    *)
Apply(n) ==
    LET message == topic[position[n]]
    IN  /\ At(n, "delivered")
        /\ Outcome(message) = "APPLY"
        /\ Effect(message)
        /\ applied' = applied \cup {position[n]}
        /\ \/ Moves(n, "applied") /\ UNCHANGED faults
           \/ Moves(n, "idle") /\ Fault
        /\ UNCHANGED <<groupVars, deadLetters>>

Reject(n) ==
    /\ At(n, "delivered")
    /\ Outcome(topic[position[n]]) # "APPLY"
    /\ classifyFailure(Outcome(topic[position[n]])) = "permanent"
    /\ Moves(n, "rejected")
    /\ UNCHANGED <<serviceVars, groupVars, deadLetters, applied, faults>>

(* Mutant: the writes of a use case are transactions of their own. *)
FailTransientlyHalfWay(n) ==
    LET message == topic[position[n]]
    IN  /\ At(n, "delivered")
        /\ Fault
        /\ message.type = "InvoiceRepaid" /\ message.invoice \in Held(rows)
        /\ holds' = [holds EXCEPT ![message.invoice] = Release(@, "REPAID")]
        /\ Moves(n, "idle")
        /\ UNCHANGED <<program, reservedAt, releasedAt, watermark, discrepancies,
                       logged, now, groupVars, deadLetters, applied>>

(* The error is rethrown and the offset stays where it is.  The database   *)
(* being out of reach is a fault, a refusal of the domain is none.         *)
FailTransiently(n) ==
    /\ At(n, "delivered")
    /\ \/ /\ Outcome(topic[position[n]]) # "APPLY"
          /\ classifyFailure(Outcome(topic[position[n]])) = "transient"
          /\ UNCHANGED faults
       \/ Fault
    /\ Moves(n, "idle")
    /\ UNCHANGED <<serviceVars, groupVars, deadLetters, applied>>

(* A send that fails, or whose answer is lost, throws out of the handler.  *)
SendToDlq(n) ==
    /\ At(n, "rejected")
    /\ \/ /\ deadLetters' = deadLetters \cup {position[n]}
          /\ Moves(n, "lettered")
          /\ UNCHANGED faults
       \/ /\ deadLetters' \in {deadLetters, deadLetters \cup {position[n]}}
          /\ Moves(n, "idle")
          /\ Fault
    /\ UNCHANGED <<serviceVars, groupVars, applied>>

Finished(n) == step[n] \in {"applied", "lettered"}

(* Mutant: the offset is left to be committed some other time. *)
CommitOffsetLater(n) ==
    /\ Finished(n)
    /\ assigned = n
    /\ position' = [position EXCEPT ![n] = @ + 1]
    /\ Moves(n, "idle")
    /\ UNCHANGED <<serviceVars, topic, committed, assigned, deadLetters,
                   applied, overlapped, faults>>

(* Mutant: the offset is committed as soon as the message is delivered. *)
CommitOffsetAtOnce(n) ==
    /\ Finished(n) \/ At(n, "delivered")
    /\ assigned = n
    /\ committed' = position[n] + 1
    /\ position' = [position EXCEPT ![n] = @ + 1]
    /\ Moves(n, "idle")
    /\ UNCHANGED <<serviceVars, topic, assigned, deadLetters, applied,
                   overlapped, faults>>

(* Mutant: the offset after the next one is committed. *)
CommitOffsetTooFar(n) ==
    /\ Finished(n)
    /\ assigned = n
    /\ committed' = position[n] + 2
    /\ position' = [position EXCEPT ![n] = @ + 1]
    /\ Moves(n, "idle")
    /\ UNCHANGED <<serviceVars, topic, assigned, deadLetters, applied,
                   overlapped, faults>>

(* offset + 1: the next message to read. *)
CommitOffset(n) ==
    /\ Finished(n)
    /\ assigned = n
    /\ committed' = position[n] + 1
    /\ position' = [position EXCEPT ![n] = @ + 1]
    /\ Moves(n, "idle")
    /\ UNCHANGED <<serviceVars, topic, assigned, deadLetters, applied,
                   overlapped, faults>>

(* The commit fails, or only its answer is lost: the handler has thrown,   *)
(* and kafkajs delivers the same message again.                            *)
LoseCommit(n) ==
    /\ Finished(n)
    /\ assigned = n
    /\ committed' \in {committed, position[n] + 1}
    /\ Moves(n, "idle")
    /\ Fault
    /\ UNCHANGED <<serviceVars, topic, assigned, position, deadLetters,
                   applied, overlapped>>

(* The group refuses the commit of a member that lost the partition. *)
FenceCommit(n) ==
    /\ Finished(n)
    /\ assigned # n
    /\ Moves(n, "idle")
    /\ UNCHANGED <<serviceVars, groupVars, deadLetters, applied, faults>>

-----------------------------------------------------------------------------

onMessage(n) ==
    \/ Deliver(n) \/ Apply(n) \/ Reject(n) \/ FailTransiently(n)
    \/ SendToDlq(n) \/ CommitOffset(n) \/ LoseCommit(n) \/ FenceCommit(n)

DeliveryNext ==
    \/ \E message \in Messages : Publish(message)
    \/ Client
    \/ \E n \in Members : Assign(n) \/ Crash(n) \/ onMessage(n)

DeliverySpec == DeliveryInit /\ [][DeliveryNext]_allVars

(* A free partition is assigned, and a member that can go on does. *)
Rejoin == assigned = Nobody /\ \E n \in Members : Assign(n)

FairDeliverySpec ==
    /\ DeliverySpec
    /\ WF_allVars(Rejoin)
    /\ \A n \in Members : WF_allVars(onMessage(n))

-----------------------------------------------------------------------------
(***************************************************************************)
(* Safety.                                                                 *)
(***************************************************************************)

(* The offset moves only past messages whose transaction was committed or  *)
(* that are in the dead-letter topic, whoever died or lost the partition   *)
(* on the way (README, "Treasury"; PLAN 2.2): no message is dropped.       *)
NothingIsSkipped == \A o \in 1..(committed - 1) : o \in applied \cup deadLetters

SetsLimit(message) ==
    message.type \in {"ProgramLimitChanged", "ProgramSnapshot"}

LimitOf(message) ==
    IF message.type = "ProgramSnapshot" THEN message.snapshot.limit
    ELSE message.newLimit

(* A limit change carries no sequence: that the limit is the one stated    *)
(* last in the topic depends on no older message being applied after a     *)
(* newer one, although messages come again.  It holds while no member is   *)
(* left with an open message when the partition changes hands.             *)
TopicDecidesTheLimit ==
    LET stated == {o \in applied : SetsLimit(topic[o])}
    IN  ~overlapped /\ stated # {} => program.limit = LimitOf(topic[Max(stated)])

(* A message that was applied is found among the dead letters too only if  *)
(* it came again, which takes a fault each time: a growing dead-letter     *)
(* topic, on which the README alerts, is treasury's doing and not that of  *)
(* a consumer that falls back by more than the message it was at.          *)
FalseDeadLettersAreFew == Cardinality(deadLetters \cap applied) <= faults

(* With members left at open messages, an older limit may well come after  *)
(* a newer one.  But only such a member, one that has lost the partition   *)
(* since, puts it there: the member that has the partition never takes the *)
(* limit back to a message older than one that was applied, wherever       *)
(* crashes and lost commits have made it read on from.                     *)
OnlyTheOustedGoBack ==
    [][\A n \in Members :
          assigned = n /\ At(n, "delivered") /\ ~At(n, "delivered")'
                       /\ program'.limit # program.limit =>
              \A o \in applied : SetsLimit(topic[o]) => o <= position[n]]_allVars

(***************************************************************************)
(* Refinement.                                                             *)
(***************************************************************************)

(* Whatever dies, is lost, comes again or is done by two members at once,  *)
(* the rows go through whole use cases, one at a time: half of one is      *)
(* never seen, and what is proved of TreasurySync stays true.              *)
ImplementsTreasurySync == Spec

(***************************************************************************)
(* Liveness.                                                               *)
(***************************************************************************)

(* Once faults are over the consumer gets past every message, or stands at *)
(* one that the domain or the database refuses: nothing else, a permanent  *)
(* failure least of all, holds up the partition (treasury-kafka-consumer,  *)
(* onMessage; a message whose content can never be applied does).          *)
StandsAtRefusal ==
    /\ assigned # Nobody
    /\ position[assigned] <= Len(topic)
    /\ Outcome(topic[position[assigned]]) \in {"THROWN", "CONSTRAINT"}

OnlyRefusalsStall == <>[](committed = Len(topic) + 1 \/ StandsAtRefusal)

=============================================================================
