------------------------ MODULE KafkaConsumerProofs ------------------------
(***************************************************************************)
(* Theorems about KafkaConsumer, for any members, messages and bounds.     *)
(***************************************************************************)
EXTENDS KafkaConsumer, TreasurySyncProofs

(* What the type invariant needs to be inductive: a member that is at a    *)
(* message is at one that the topic has.                                   *)
AtMessages ==
    \A n \in Members : step[n] # "idle" => position[n] <= Len(topic)

LEMMA DeliveryTypeStep ==
    ASSUME DeliveryTypeOK, AtMessages, [DeliveryNext]_allVars
    PROVE  DeliveryTypeOK' /\ AtMessages'
<1> USE DeliveryAssumption
<1>0. Len(topic) \in Nat
  BY DEF DeliveryTypeOK
<1>1. ASSUME NEW message \in Messages, Publish(message)
      PROVE  DeliveryTypeOK' /\ AtMessages'
  <2>1. topic' \in Seq(Messages) /\ Len(topic') = Len(topic) + 1
    BY <1>1 DEF Publish, DeliveryTypeOK
  <2> QED BY <1>0, <1>1, <2>1, SMTT(30) DEF Publish, DeliveryTypeOK, AtMessages
<1>2. CASE Client
  BY <1>2 DEF Client, deliveryVars, DeliveryTypeOK, AtMessages
<1>3. ASSUME NEW n \in Members, Assign(n)
      PROVE  DeliveryTypeOK' /\ AtMessages'
  BY <1>0, <1>3, SMTT(30) DEF Assign, Fault, DeliveryTypeOK, AtMessages
<1>4. ASSUME NEW n \in Members, Crash(n)
      PROVE  DeliveryTypeOK' /\ AtMessages'
  BY <1>4 DEF Crash, Fault, Steps, DeliveryTypeOK, AtMessages
<1>5. ASSUME NEW n \in Members, onMessage(n)
      PROVE  DeliveryTypeOK' /\ AtMessages'
  <2> USE DEF At, Moves, Steps, groupVars, DeliveryTypeOK, AtMessages
  <2>1. CASE Deliver(n)
    BY <2>1 DEF Deliver
  <2>2. CASE Apply(n)
    <3>1. /\ step[n] = "delivered"
          /\ applied' = applied \cup {position[n]}
          /\ \/ Moves(n, "applied") /\ faults' = faults
             \/ Moves(n, "idle") /\ Fault
          /\ UNCHANGED groupVars /\ UNCHANGED deadLetters
      BY <2>2 DEF Apply
    <3>2. position[n] \in 1..Len(topic)
      BY <1>0, <3>1
    <3>3. faults' \in 0..MaxFaults
      BY <3>1 DEF Fault
    <3> QED BY <3>1, <3>2, <3>3
  <2>3. CASE Reject(n)
    BY <2>3 DEF Reject
  <2>4. CASE FailTransiently(n)
    BY <2>4 DEF FailTransiently, Fault
  <2>5. CASE SendToDlq(n)
    <3>1. /\ step[n] = "rejected"
          /\ deadLetters' \in {deadLetters, deadLetters \cup {position[n]}}
          /\ Moves(n, "lettered") \/ Moves(n, "idle")
          /\ faults' = faults \/ Fault
          /\ UNCHANGED groupVars /\ UNCHANGED applied
      BY <2>5 DEF SendToDlq
    <3>2. position[n] \in 1..Len(topic)
      BY <1>0, <3>1
    <3>3. faults' \in 0..MaxFaults
      BY <3>1 DEF Fault
    <3> QED BY <3>1, <3>2, <3>3
  <2>6. CASE CommitOffset(n)
    BY <1>0, <2>6 DEF CommitOffset, Finished
  <2>7. CASE LoseCommit(n)
    BY <1>0, <2>7 DEF LoseCommit, Finished, Fault
  <2>8. CASE FenceCommit(n)
    BY <2>8 DEF FenceCommit, Finished
  <2> QED BY <1>5, <2>1, <2>2, <2>3, <2>4, <2>5, <2>6, <2>7, <2>8 DEF onMessage
<1>6. CASE UNCHANGED allVars
  BY <1>6 DEF allVars, deliveryVars, DeliveryTypeOK, AtMessages
<1> QED BY <1>1, <1>2, <1>3, <1>4, <1>5, <1>6 DEF DeliveryNext

(* The bookkeeping of the topic, the group and the members has its types.  *)
THEOREM DeliveryTypeCorrect == DeliverySpec => []DeliveryTypeOK
<1>1. DeliveryInit => DeliveryTypeOK /\ AtMessages
  <2> SUFFICES ASSUME DeliveryInit
               PROVE  DeliveryTypeOK /\ AtMessages
    OBVIOUS
  <2>1. topic \in Seq(Messages) /\ Len(topic) = 0
    BY DEF DeliveryInit
  <2>2. position \in [Members -> 1..(Len(topic) + 1)]
    BY <2>1 DEF DeliveryInit
  <2>3. step \in [Members -> Steps] /\ AtMessages
    BY DEF DeliveryInit, Steps, AtMessages
  <2>4. committed \in 1..(Len(topic) + 1) /\ faults \in 0..MaxFaults
    BY <2>1, DeliveryAssumption DEF DeliveryInit
  <2> QED BY <2>1, <2>2, <2>3, <2>4 DEF DeliveryInit, DeliveryTypeOK
<1>2. DeliveryTypeOK /\ AtMessages /\ [DeliveryNext]_allVars
         => (DeliveryTypeOK /\ AtMessages)'
  BY DeliveryTypeStep
<1> QED BY <1>1, <1>2, PTL DEF DeliverySpec

-----------------------------------------------------------------------------

(* What NothingIsSkipped needs to be inductive: a member that is about to  *)
(* commit is done with the message it is at, and the member that has the   *)
(* partition is not past the committed offset: nobody else commits.        *)
DoneBeforeCommit ==
    \A n \in Members :
        /\ step[n] = "applied"  => position[n] \in applied
        /\ step[n] = "lettered" => position[n] \in deadLetters

ReadsFromCommitted ==
    \A n \in Members : assigned = n => position[n] <= committed

SkipInv == NothingIsSkipped /\ DoneBeforeCommit /\ ReadsFromCommitted

LEMMA SkipStep ==
    ASSUME DeliveryTypeOK, SkipInv, [DeliveryNext]_allVars
    PROVE  SkipInv'
<1> USE DEF SkipInv, NothingIsSkipped, DoneBeforeCommit, ReadsFromCommitted
<1>0. Len(topic) \in Nat
  BY DEF DeliveryTypeOK
<1>1. ASSUME NEW message \in Messages, Publish(message)
      PROVE  SkipInv'
  BY <1>1 DEF Publish
<1>2. CASE Client
  BY <1>2 DEF Client, deliveryVars
<1>3. ASSUME NEW n \in Members, Assign(n)
      PROVE  SkipInv'
  BY <1>0, <1>3 DEF Assign, DeliveryTypeOK
<1>4. ASSUME NEW n \in Members, Crash(n)
      PROVE  SkipInv'
  BY <1>4, DeliveryAssumption DEF Crash, DeliveryTypeOK
<1>5. ASSUME NEW n \in Members, onMessage(n)
      PROVE  SkipInv'
  <2> USE DEF At, Moves, groupVars, DeliveryTypeOK
  <2>1. CASE Deliver(n)
    BY <2>1 DEF Deliver
  <2>2. CASE Apply(n)
    BY <2>2 DEF Apply
  <2>3. CASE Reject(n)
    BY <2>3 DEF Reject
  <2>4. CASE FailTransiently(n)
    BY <2>4 DEF FailTransiently
  <2>5. CASE SendToDlq(n)
    BY <2>5 DEF SendToDlq
  <2>6. ASSUME Finished(n), assigned = n, committed' \in {committed, position[n] + 1},
               UNCHANGED <<deadLetters, applied>>
        PROVE  NothingIsSkipped'
    <3>1. position[n] \in applied \cup deadLetters
      BY <2>6 DEF Finished
    <3>2. position[n] <= committed /\ position[n] \in Nat /\ committed \in Nat
      BY <1>0, <2>6
    <3> SUFFICES ASSUME NEW o \in 1..(committed' - 1)
                 PROVE  o \in applied' \cup deadLetters'
      OBVIOUS
    <3>3. o \in 1..(committed - 1) \/ o = position[n]
      <4>1. committed' = committed \/ committed' = position[n] + 1
        BY <2>6
      <4> QED BY <3>2, <4>1
    <3> QED BY <2>6, <3>1, <3>3
  <2>7. CASE CommitOffset(n)
    <3>1. NothingIsSkipped'
      BY <2>6, <2>7 DEF CommitOffset
    <3>2. DoneBeforeCommit'
      BY <2>7 DEF CommitOffset
    <3>3. ReadsFromCommitted'
      BY <1>0, <2>7 DEF CommitOffset
    <3> QED BY <3>1, <3>2, <3>3
  <2>8. CASE LoseCommit(n)
    <3>1. NothingIsSkipped'
      BY <2>6, <2>8 DEF LoseCommit
    <3>2. DoneBeforeCommit'
      BY <2>8 DEF LoseCommit
    <3>3. ReadsFromCommitted'
      BY <1>0, <2>8 DEF LoseCommit
    <3> QED BY <3>1, <3>2, <3>3
  <2>9. CASE FenceCommit(n)
    BY <2>9 DEF FenceCommit
  <2> QED BY <1>5, <2>1, <2>2, <2>3, <2>4, <2>5, <2>7, <2>8, <2>9 DEF onMessage
<1>6. CASE UNCHANGED allVars
  BY <1>6 DEF allVars, deliveryVars
<1> QED BY <1>1, <1>2, <1>3, <1>4, <1>5, <1>6 DEF DeliveryNext

(* No message is dropped: the committed offset passes only messages whose  *)
(* transaction was committed or that are in the dead-letter topic,         *)
(* whatever crashes, rebalances and lost answers come between (onMessage). *)
THEOREM NoMessageIsSkipped == DeliverySpec => []NothingIsSkipped
<1>1. DeliveryInit => SkipInv
  BY DeliveryAssumption
     DEF DeliveryInit, SkipInv, NothingIsSkipped, DoneBeforeCommit, ReadsFromCommitted
<1>2. DeliveryTypeOK /\ SkipInv /\ [DeliveryNext]_allVars => SkipInv'
  BY SkipStep
<1>3. SkipInv => NothingIsSkipped
  BY DEF SkipInv
<1> QED BY <1>1, <1>2, <1>3, DeliveryTypeCorrect, PTL DEF DeliverySpec

-----------------------------------------------------------------------------

(* What the limit's properties need.  The member that has the partition is *)
(* ahead of everyone else, of what they have applied and of what they may  *)
(* yet apply: it began at the committed offset, and nobody else commits.   *)
(* And while the partition has not changed hands mid-message, nobody else  *)
(* is at a message.                                                        *)
HolderLeads ==
    /\ \A o \in applied : o <= committed
    /\ \A m \in Members : position[m] <= committed
    /\ \A n \in Members : assigned = n =>
          /\ committed <= position[n] + 1
          /\ \A m \in Members : position[m] <= position[n]
          /\ \A o \in applied : o <= position[n]

InTurn == ~overlapped => \A n \in Members : step[n] = "delivered" => assigned = n

TurnInv == HolderLeads /\ InTurn

LEMMA TurnStep ==
    ASSUME DeliveryTypeOK, TurnInv, [DeliveryNext]_allVars
    PROVE  TurnInv'
<1> USE DEF TurnInv, HolderLeads, InTurn
<1>0. Len(topic) \in Nat
  BY DEF DeliveryTypeOK
<1>1. ASSUME NEW message \in Messages, Publish(message)
      PROVE  TurnInv'
  BY <1>1 DEF Publish
<1>2. CASE Client
  BY <1>2 DEF Client, deliveryVars
<1>3. ASSUME NEW n \in Members, Assign(n)
      PROVE  TurnInv'
  <2>1. /\ assigned' = n /\ step' = step /\ applied' = applied
        /\ committed' = committed /\ committed \in Nat
        /\ position' = [position EXCEPT ![n] = committed]
        /\ position \in [Members -> Nat]
    BY <1>0, <1>3 DEF Assign, DeliveryTypeOK
  <2>2. overlapped' = (overlapped \/ \E m \in Members : step[m] = "delivered")
    BY <1>3 DEF Assign
  <2>3. HolderLeads'
    BY <2>1
  <2>4. InTurn'
    <3>1. ~overlapped' => \A m \in Members : step[m] # "delivered"
      BY <2>2, Zenon
    <3> QED BY <2>1, <3>1
  <2> QED BY <2>3, <2>4
<1>4. ASSUME NEW n \in Members, Crash(n)
      PROVE  TurnInv'
  BY <1>4, DeliveryAssumption DEF Crash, DeliveryTypeOK
<1>5. ASSUME NEW n \in Members, onMessage(n)
      PROVE  TurnInv'
  <2> USE DEF At, Moves, groupVars, DeliveryTypeOK
  <2>1. CASE Deliver(n)
    BY <2>1 DEF Deliver
  <2>2. CASE Apply(n)
    <3>1. /\ step[n] = "delivered"
          /\ applied' = applied \cup {position[n]}
          /\ Moves(n, "applied") \/ Moves(n, "idle")
          /\ UNCHANGED groupVars
      BY <2>2 DEF Apply
    <3> QED BY <1>0, <3>1
  <2>3. CASE Reject(n)
    BY <2>3 DEF Reject
  <2>4. CASE FailTransiently(n)
    BY <2>4 DEF FailTransiently
  <2>5. CASE SendToDlq(n)
    BY <2>5 DEF SendToDlq
  <2>6. CASE CommitOffset(n)
    BY <1>0, <2>6 DEF CommitOffset
  <2>7. CASE LoseCommit(n)
    BY <1>0, <2>7 DEF LoseCommit
  <2>8. CASE FenceCommit(n)
    BY <2>8 DEF FenceCommit
  <2> QED BY <1>5, <2>1, <2>2, <2>3, <2>4, <2>5, <2>6, <2>7, <2>8 DEF onMessage
<1>6. CASE UNCHANGED allVars
  BY <1>6 DEF allVars, deliveryVars
<1> QED BY <1>1, <1>2, <1>3, <1>4, <1>5, <1>6 DEF DeliveryNext

(* What a message does to the limit: it states it, or leaves it alone.     *)
IsRow(p) == DOMAIN p = {"exists", "limit", "reserved"}

LEMMA EffectOnLimit ==
    ASSUME IsRow(program), NEW message, Outcome(message) = "APPLY", Effect(message)
    PROVE  /\ IsRow(program')
           /\ SetsLimit(message) => program'.exists /\ program'.limit = LimitOf(message)
           /\ ~SetsLimit(message) => /\ program'.exists = program.exists
                                     /\ program'.limit = program.limit
<1> USE DEF IsRow, SetsLimit, LimitOf
<1>1. CASE message.type = "ProgramSnapshot" /\ ApplySnapshot(message.snapshot)
  <2>1. program.exists
    BY <1>1 DEF ApplySnapshot, SnapshotVerdict
  <2>2. PICK r : program' = [program EXCEPT !.limit = message.snapshot.limit,
                                            !.reserved = r]
    BY <1>1 DEF ApplySnapshot
  <2> QED BY <1>1, <2>1, <2>2
<1>2. CASE message.type = "ProgramLimitChanged" /\ ChangeCreditLimit(message.newLimit)
  BY <1>2 DEF ChangeCreditLimit
<1>3. CASE /\ message.type = "InvoiceRepaid"
           /\ ReleaseReservation(message.invoice, "REPAID")
  <2>1. PICK r : program' = [program EXCEPT !.reserved = r]
    BY <1>3 DEF ReleaseReservation
  <2> QED BY <1>3, <2>1
<1>4. CASE message.type = "InvoiceRepaid" /\ UNCHANGED serviceVars
  BY <1>4 DEF serviceVars, vars
<1> QED BY <1>1, <1>2, <1>3, <1>4 DEF Effect

(* A client creates the program, or leaves its limit alone.                *)
LEMMA ClientOnLimit ==
    ASSUME IsRow(program), Client
    PROVE  /\ IsRow(program')
           /\ program.exists => program'.exists /\ program'.limit = program.limit
<1> USE DEF IsRow
<1>1. ASSUME NEW limit, CreateProgram(limit)
      PROVE  IsRow(program') /\ ~program.exists
  BY <1>1 DEF CreateProgram, NewProgram
<1>2. ASSUME NEW i, NEW original, NEW quote, ReserveInvoice(i, original, quote)
      PROVE  \E r : program' = [program EXCEPT !.reserved = r]
  BY <1>2 DEF ReserveInvoice
<1>3. ASSUME NEW i, NEW reason, ReleaseReservation(i, reason)
      PROVE  \E r : program' = [program EXCEPT !.reserved = r]
  BY <1>3 DEF ReleaseReservation
<1>4. CASE \E r : program' = [program EXCEPT !.reserved = r]
  BY <1>4
<1>5. CASE Tick
  BY <1>5 DEF Tick
<1> QED BY <1>1, <1>2, <1>3, <1>4, <1>5 DEF Client

StatedOffsets == {o \in applied : SetsLimit(topic[o])}

LimitInv ==
    /\ IsRow(program)
    /\ ~overlapped /\ StatedOffsets # {} =>
          /\ program.exists
          /\ \E m \in StatedOffsets :
                /\ \A o \in StatedOffsets : m >= o
                /\ program.limit = LimitOf(topic[m])

LEMMA LimitStep ==
    ASSUME DeliveryTypeOK, TurnInv, LimitInv, [DeliveryNext]_allVars
    PROVE  LimitInv'
<1>0. Len(topic) \in Nat
  BY DEF DeliveryTypeOK
<1>1. ASSUME NEW message \in Messages, Publish(message)
      PROVE  LimitInv'
  <2>1. \A o \in applied : topic'[o] = topic[o]
    BY <1>0, <1>1 DEF Publish, DeliveryTypeOK
  <2>2. UNCHANGED <<program, applied, overlapped>>
    BY <1>1 DEF Publish, serviceVars, vars
  <2>3. StatedOffsets' = StatedOffsets
    BY <2>1, <2>2 DEF StatedOffsets, SetsLimit
  <2> QED BY <2>1, <2>2, <2>3 DEF LimitInv, StatedOffsets, LimitOf
<1>2. CASE Client
  <2>1. UNCHANGED <<topic, applied, overlapped>>
    BY <1>2 DEF Client, deliveryVars
  <2>2. StatedOffsets' = StatedOffsets
    BY <2>1 DEF StatedOffsets, SetsLimit
  <2> QED BY <1>2, <2>1, <2>2, ClientOnLimit DEF LimitInv, LimitOf
<1>3. ASSUME NEW n \in Members, Apply(n)
      PROVE  LimitInv'
  <2> DEFINE message == topic[position[n]]
  <2>1. /\ step[n] = "delivered"
        /\ Outcome(message) = "APPLY" /\ Effect(message)
        /\ applied' = applied \cup {position[n]}
        /\ UNCHANGED <<topic, overlapped>>
    BY <1>3 DEF Apply, At, groupVars
  <2>2. /\ IsRow(program')
        /\ SetsLimit(message) => program'.exists /\ program'.limit = LimitOf(message)
        /\ ~SetsLimit(message) => /\ program'.exists = program.exists
                                  /\ program'.limit = program.limit
    BY <2>1, EffectOnLimit DEF LimitInv
  <2>3. CASE SetsLimit(message)
    <3>1. StatedOffsets' = StatedOffsets \cup {position[n]}
      BY <2>1, <2>3 DEF StatedOffsets, SetsLimit
    <3>2. position[n] \in Nat
      BY <1>0 DEF DeliveryTypeOK
    <3>3. ~overlapped => \A o \in StatedOffsets : position[n] >= o
      BY <1>0, <2>1, <3>2
         DEF TurnInv, HolderLeads, InTurn, StatedOffsets, DeliveryTypeOK
    <3>4. ~overlapped => \A o \in StatedOffsets' : position[n] >= o
      BY <3>1, <3>2, <3>3
    <3> QED BY <2>1, <2>2, <2>3, <3>1, <3>4 DEF LimitInv, LimitOf
  <2>4. CASE ~SetsLimit(message)
    <3>1. StatedOffsets' = StatedOffsets
      BY <2>1, <2>4 DEF StatedOffsets, SetsLimit
    <3> QED BY <2>1, <2>2, <2>4, <3>1 DEF LimitInv, LimitOf
  <2> QED BY <2>3, <2>4
<1>4. ASSUME UNCHANGED <<program, topic, applied>>, overlapped => overlapped'
      PROVE  LimitInv'
  <2>1. StatedOffsets' = StatedOffsets
    BY <1>4 DEF StatedOffsets, SetsLimit
  <2> QED BY <1>4, <2>1 DEF LimitInv, LimitOf, IsRow
<1>5. ASSUME NEW n \in Members, Assign(n) \/ Crash(n)
      PROVE  LimitInv'
  BY <1>4, <1>5 DEF Assign, Crash, serviceVars, vars
<1>6. ASSUME NEW n \in Members, onMessage(n)
      PROVE  LimitInv'
  <2>1. CASE \/ Deliver(n) \/ Reject(n) \/ FailTransiently(n) \/ SendToDlq(n)
             \/ CommitOffset(n) \/ LoseCommit(n) \/ FenceCommit(n)
    <3>1. UNCHANGED <<program, topic, applied, overlapped>>
      BY <2>1
         DEF Deliver, Reject, FailTransiently, SendToDlq, CommitOffset,
             LoseCommit, FenceCommit, groupVars, serviceVars, vars
    <3> QED BY <1>4, <3>1
  <2> QED BY <1>3, <1>6, <2>1 DEF onMessage
<1>7. CASE UNCHANGED allVars
  BY <1>4, <1>7 DEF allVars, deliveryVars, serviceVars, vars
<1> QED BY <1>1, <1>2, <1>3, <1>5, <1>6, <1>7 DEF DeliveryNext

(* While the partition does not change hands mid-message, the limit is the *)
(* one stated by the newest message that was applied, although limit       *)
(* changes carry no sequence and messages are delivered again              *)
(* (ApplyLimitChangeUseCase).                                              *)
THEOREM NewestMessageDecides == DeliverySpec => []TopicDecidesTheLimit
<1>1. DeliveryInit => TurnInv /\ LimitInv
  <2> SUFFICES ASSUME DeliveryInit
               PROVE  TurnInv /\ LimitInv
    OBVIOUS
  <2>1. TurnInv
    BY DeliveryAssumption DEF DeliveryInit, TurnInv, HolderLeads, InTurn
  <2>2. IsRow(program)
    BY DEF DeliveryInit, Init, NoProgram, IsRow
  <2>3. StatedOffsets = {}
    BY DEF DeliveryInit, StatedOffsets
  <2> QED BY <2>1, <2>2, <2>3 DEF LimitInv
<1>2. DeliveryTypeOK /\ TurnInv /\ LimitInv /\ [DeliveryNext]_allVars
         => TurnInv' /\ LimitInv'
  BY TurnStep, LimitStep
<1>3. DeliveryTypeOK /\ LimitInv => TopicDecidesTheLimit
  <2> SUFFICES ASSUME DeliveryTypeOK, LimitInv, ~overlapped, StatedOffsets # {}
               PROVE  program.limit = LimitOf(topic[Max(StatedOffsets)])
    BY Zenon DEF TopicDecidesTheLimit, StatedOffsets
  <2>1. PICK m \in StatedOffsets : /\ \A o \in StatedOffsets : m >= o
                                  /\ program.limit = LimitOf(topic[m])
    BY DEF LimitInv
  <2>2. StatedOffsets \subseteq Int
    <3>1. applied \subseteq 1..Len(topic)
      BY DEF DeliveryTypeOK
    <3>2. StatedOffsets \subseteq applied
      BY DEF StatedOffsets
    <3> QED BY <3>1, <3>2
  <2>3. Max(StatedOffsets) \in StatedOffsets
        /\ \A o \in StatedOffsets : Max(StatedOffsets) >= o
    BY <2>1 DEF Max
  <2>4. Max(StatedOffsets) = m
    <3>1. Max(StatedOffsets) \in Int /\ m \in Int
      BY <2>2, <2>3
    <3>2. m >= Max(StatedOffsets) /\ Max(StatedOffsets) >= m
      BY <2>1, <2>3
    <3> QED BY <3>1, <3>2
  <2> QED BY <2>1, <2>4
<1> QED BY <1>1, <1>2, <1>3, DeliveryTypeCorrect, PTL DEF DeliverySpec

(* Overlap or not, the member that has the partition never takes the limit *)
(* back to a message older than one that was applied: a crash, a takeover  *)
(* or a lost commit makes it read again what is newest at the most         *)
(* (onMessage; ApplyLimitChangeUseCase compares nothing).                  *)
THEOREM HolderTakesNothingBack == DeliverySpec => OnlyTheOustedGoBack
<1>1. DeliveryInit => TurnInv
  BY DeliveryAssumption DEF DeliveryInit, TurnInv, HolderLeads, InTurn
<1>2. DeliveryTypeOK /\ TurnInv /\ [DeliveryNext]_allVars => TurnInv'
  BY TurnStep
<1>3. DeliverySpec => []TurnInv
  BY <1>1, <1>2, DeliveryTypeCorrect, PTL DEF DeliverySpec
<1> DEFINE TakesNothingBack ==
              \A n \in Members :
                 assigned = n /\ At(n, "delivered") /\ ~At(n, "delivered")'
                              /\ program'.limit # program.limit =>
                    \A o \in applied : SetsLimit(topic[o]) => o <= position[n]
<1>4. TurnInv => TakesNothingBack
  BY DEF TurnInv, HolderLeads
<1>5. TurnInv => [TakesNothingBack]_allVars
  BY <1>4
<1> QED BY <1>3, <1>5, PTL DEF OnlyTheOustedGoBack

-----------------------------------------------------------------------------

(* What FalseDeadLettersAreFew needs.  A message is handled at most once   *)
(* by each of those who are trying it: the members that may still get to   *)
(* its use case, and, while nobody has the partition, the member to come.  *)
Done == applied \cup deadLetters

Hands == Members \cup {Nobody}

Trying(a, o) ==
    \/ a = Nobody /\ assigned = Nobody /\ committed = o
    \/ /\ a \in Members /\ position[a] = o
       /\ \/ step[a] \in {"delivered", "rejected"}
          \/ step[a] = "idle" /\ assigned = a

(* The offsets that are, or may come to be, both applied and among the     *)
(* dead letters: they have been handled and are tried again, or two are    *)
(* trying them.  Each of them took a fault.                                *)
TriedAgain ==
    {o \in Nat : \/ o \in Done /\ \E a \in Hands : Trying(a, o)
                 \/ \E a, b \in Hands : a # b /\ Trying(a, o) /\ Trying(b, o)}

Suspects == (deadLetters \cap applied) \cup TriedAgain

SuspectsAreFew == IsFiniteSet(Suspects) /\ Cardinality(Suspects) <= faults

(* Nothing is handled, or open, beyond the message that is next: the one a *)
(* commit moves on to is fresh.                                            *)
NextIsFresh ==
    /\ \A o \in Done : o <= committed
    /\ \A m \in Members : step[m] # "idle" => position[m] <= committed
    /\ \A n \in Members : assigned = n =>
          /\ position[n] <= committed /\ committed <= position[n] + 1
          /\ \A o \in Done : o <= position[n]
          /\ \A m \in Members : step[m] # "idle" => position[m] <= position[n]

LEMMA FreshStep ==
    ASSUME DeliveryTypeOK, NextIsFresh, [DeliveryNext]_allVars
    PROVE  NextIsFresh'
<1> USE DEF NextIsFresh, Done
<1>0. /\ Len(topic) \in Nat /\ committed \in Nat
      /\ position \in [Members -> Nat] /\ step \in [Members -> Steps]
  BY DEF DeliveryTypeOK
<1>1. ASSUME NEW message \in Messages, Publish(message)
      PROVE  NextIsFresh'
  BY <1>1 DEF Publish
<1>2. CASE Client
  BY <1>2 DEF Client, deliveryVars
<1>3. ASSUME NEW n \in Members, Assign(n)
      PROVE  NextIsFresh'
  <2>1. /\ assigned' = n /\ position' = [position EXCEPT ![n] = committed]
        /\ step[n] = "idle"
        /\ UNCHANGED <<committed, step, deadLetters, applied>>
    BY <1>3 DEF Assign
  <2> QED BY <1>0, <2>1
<1>4. ASSUME NEW n \in Members, Crash(n)
      PROVE  NextIsFresh'
  BY <1>0, <1>4, DeliveryAssumption DEF Crash
<1>5. ASSUME NEW n \in Members, onMessage(n)
      PROVE  NextIsFresh'
  <2> USE DEF At, Moves, groupVars
  <2>1. CASE Deliver(n)
    BY <1>0, <2>1 DEF Deliver
  <2>2. CASE Apply(n)
    <3>1. /\ step[n] = "delivered" /\ applied' = applied \cup {position[n]}
          /\ Moves(n, "applied") \/ Moves(n, "idle")
          /\ UNCHANGED groupVars /\ UNCHANGED deadLetters
      BY <2>2 DEF Apply
    <3> QED BY <1>0, <3>1
  <2>3. CASE Reject(n)
    BY <1>0, <2>3 DEF Reject
  <2>4. CASE FailTransiently(n)
    BY <1>0, <2>4 DEF FailTransiently
  <2>5. CASE SendToDlq(n)
    <3>1. /\ step[n] = "rejected"
          /\ deadLetters' \in {deadLetters, deadLetters \cup {position[n]}}
          /\ Moves(n, "lettered") \/ Moves(n, "idle")
          /\ UNCHANGED groupVars /\ UNCHANGED applied
      BY <2>5 DEF SendToDlq
    <3> QED BY <1>0, <3>1
  <2>6. CASE CommitOffset(n) \/ LoseCommit(n)
    <3>1. /\ assigned = n /\ assigned' = n
          /\ \/ position' = [position EXCEPT ![n] = position[n] + 1]
                /\ committed' = position[n] + 1
             \/ position' = position /\ committed' \in {committed, position[n] + 1}
          /\ step' = [step EXCEPT ![n] = "idle"]
          /\ UNCHANGED <<deadLetters, applied>>
      BY <2>6 DEF CommitOffset, LoseCommit
    <3>2. /\ position[n] \in Nat /\ position[n] <= committed
          /\ committed <= position[n] + 1
          /\ \A o \in Done : o <= position[n]
          /\ \A m \in Members : step[m] # "idle" => position[m] <= position[n]
      BY <1>0, <3>1
    <3>3. /\ position'[n] \in {position[n], position[n] + 1}
          /\ committed' \in Nat
          /\ position[n] <= position'[n] /\ position'[n] <= committed'
          /\ committed' <= position'[n] + 1
          /\ \A m \in Members : m # n => position'[m] = position[m]
      BY <1>0, <3>1, <3>2
    <3>4. \A m \in Members : step'[m] # "idle" =>
             m # n /\ step[m] # "idle" /\ position[m] <= position[n]
      BY <1>0, <3>1, <3>2
    <3>5. \A m \in Members : step'[m] # "idle" =>
             position'[m] <= position'[n] /\ position'[m] <= committed'
      BY <1>0, <3>2, <3>3, <3>4
    <3>6. Done' = Done /\ \A o \in Done : o \in Nat
      BY <3>1 DEF DeliveryTypeOK
    <3>7. \A o \in Done' : o <= position'[n] /\ o <= committed'
      BY <3>2, <3>3, <3>6
    <3> QED BY <3>1, <3>3, <3>5, <3>7
  <2>8. CASE FenceCommit(n)
    BY <1>0, <2>8 DEF FenceCommit
  <2> QED BY <1>5, <2>1, <2>2, <2>3, <2>4, <2>5, <2>6, <2>8 DEF onMessage
<1>6. CASE UNCHANGED allVars
  BY <1>6 DEF allVars, deliveryVars
<1> QED BY <1>1, <1>2, <1>3, <1>4, <1>5, <1>6 DEF DeliveryNext

(* A step adds no suspect, or one and a fault. *)
LEMMA CountSuspects ==
    ASSUME SuspectsAreFew, faults \in Nat,
           \/ Suspects' \subseteq Suspects /\ faults' = faults
           \/ \E o : Suspects' \subseteq Suspects \cup {o} /\ faults' = faults + 1
    PROVE  SuspectsAreFew'
<1>1. IsFiniteSet(Suspects) /\ Cardinality(Suspects) \in Nat
      /\ Cardinality(Suspects) <= faults
  BY FS_CardinalityType DEF SuspectsAreFew
<1>2. CASE Suspects' \subseteq Suspects /\ faults' = faults
  <2>1. IsFiniteSet(Suspects') /\ Cardinality(Suspects') <= Cardinality(Suspects)
        /\ Cardinality(Suspects') \in Nat
    BY <1>1, <1>2, FS_Subset, FS_CardinalityType
  <2> QED BY <1>1, <1>2, <2>1 DEF SuspectsAreFew
<1>3. ASSUME NEW o, Suspects' \subseteq Suspects \cup {o}, faults' = faults + 1
      PROVE  SuspectsAreFew'
  <2>1. /\ IsFiniteSet(Suspects \cup {o})
        /\ Cardinality(Suspects \cup {o}) <= Cardinality(Suspects) + 1
        /\ Cardinality(Suspects \cup {o}) \in Nat
    <3>1. /\ IsFiniteSet(Suspects \cup {o})
          /\ Cardinality(Suspects \cup {o}) =
                IF o \in Suspects THEN Cardinality(Suspects)
                ELSE Cardinality(Suspects) + 1
      BY <1>1, FS_AddElement
    <3> QED BY <1>1, <3>1
  <2>2. /\ IsFiniteSet(Suspects')
        /\ Cardinality(Suspects') <= Cardinality(Suspects \cup {o})
        /\ Cardinality(Suspects') \in Nat
    BY <1>3, <2>1, FS_Subset, FS_CardinalityType
  <2> QED BY <1>1, <1>3, <2>1, <2>2 DEF SuspectsAreFew
<1> QED BY <1>2, <1>3

(* Who stops trying makes no suspect; who starts makes one at most. *)
LEMMA FewerTries ==
    ASSUME UNCHANGED <<deadLetters, applied>>,
           \A a \in Hands, o \in Nat : Trying(a, o)' => Trying(a, o)
    PROVE  Suspects' \subseteq Suspects
BY DEF Suspects, TriedAgain, Done

LEMMA OneMoreTry ==
    ASSUME UNCHANGED <<deadLetters, applied>>, NEW p,
           \A a \in Hands, o \in Nat : Trying(a, o)' => Trying(a, o) \/ o = p
    PROVE  Suspects' \subseteq Suspects \cup {p}
BY DEF Suspects, TriedAgain, Done

(* A message is handled by one who was trying it. *)
LEMMA HandledSuspects ==
    ASSUME NEW n \in Members, NEW p \in Nat, Trying(n, p),
           \/ /\ applied' = applied \cup {p}
              /\ UNCHANGED deadLetters
           \/ /\ deadLetters' \in {deadLetters, deadLetters \cup {p}}
              /\ UNCHANGED applied,
           \A a \in Hands, o \in Nat : Trying(a, o)' => Trying(a, o)
    PROVE  /\ Suspects' \subseteq Suspects \cup {p}
           /\ (\A o \in Nat : ~Trying(n, o)') => Suspects' \subseteq Suspects
<1>0. n \in Hands /\ Done' \subseteq Done \cup {p}
  BY DEF Hands, Done
<1>1. \A o \in (deadLetters \cap applied)' :
         o \in deadLetters \cap applied \/ (o = p /\ p \in Done)
  BY DEF Done
<1>2. p \in Done => p \in Suspects
  BY <1>0 DEF Suspects, TriedAgain
<1>3. \A o \in TriedAgain' : o \in TriedAgain \/ o = p
  BY <1>0 DEF TriedAgain
<1>4. ASSUME \A o \in Nat : ~Trying(n, o)', p \in TriedAgain'
      PROVE  p \in TriedAgain
  <2>1. PICK a \in Hands : Trying(a, p)'
    BY <1>4 DEF TriedAgain
  <2>2. a # n /\ Trying(a, p)
    BY <1>4, <2>1
  <2> QED BY <1>0, <2>2 DEF TriedAgain
<1>5. Suspects' = (deadLetters \cap applied)' \cup TriedAgain'
  BY DEF Suspects
<1> QED BY <1>1, <1>2, <1>3, <1>4, <1>5 DEF Suspects

LEMMA SuspectStep ==
    ASSUME DeliveryTypeOK, NextIsFresh, SuspectsAreFew, [DeliveryNext]_allVars
    PROVE  SuspectsAreFew'
<1>0. /\ Len(topic) \in Nat /\ committed \in Nat /\ faults \in Nat
      /\ position \in [Members -> Nat] /\ step \in [Members -> Steps]
      /\ Nobody \notin Members
  BY DeliveryAssumption DEF DeliveryTypeOK
<1>1. ASSUME UNCHANGED <<committed, assigned, position, step, deadLetters,
                         applied, faults>>
      PROVE  SuspectsAreFew'
  <2>1. \A a \in Hands, o \in Nat : Trying(a, o)' => Trying(a, o)
    BY <1>1 DEF Trying
  <2> QED BY <1>0, <1>1, <2>1, FewerTries, CountSuspects
<1>2. CASE Client \/ (\E message \in Messages : Publish(message)) \/ UNCHANGED allVars
  BY <1>1, <1>2 DEF Client, Publish, deliveryVars, allVars
<1>3. ASSUME NEW n \in Members, Assign(n)
      PROVE  SuspectsAreFew'
  <2>1. /\ assigned # n /\ assigned' = n
        /\ position' = [position EXCEPT ![n] = committed]
        /\ \/ assigned = Nobody /\ faults' = faults
           \/ faults' = faults + 1
        /\ UNCHANGED <<committed, step, deadLetters, applied>>
    BY <1>3 DEF Assign, Fault
  <2>2. \A a \in Hands, o \in Nat : Trying(a, o)' => Trying(a, o) \/ o = committed
    BY <1>0, <2>1 DEF Trying
  <2>3. CASE faults' = faults + 1
    BY <1>0, <2>1, <2>2, <2>3, OneMoreTry, CountSuspects
  <2>4. CASE assigned = Nobody /\ faults' = faults
    (* The member takes the place of the one that was to come. *)
    <3>1. \A a \in Hands, o \in Nat :
             Trying(a, o)' => \/ a \in Members /\ a # n /\ Trying(a, o)
                              \/ a = n /\ o = committed
      BY <1>0, <2>1, <2>4 DEF Trying, Hands
    <3>2. Trying(Nobody, committed) /\ Nobody \in Hands
      BY <2>4 DEF Trying, Hands
    <3>3. UNCHANGED <<Done, deadLetters, applied>>
      BY <2>1 DEF Done
    <3>4. TriedAgain' \subseteq TriedAgain
      <4> SUFFICES ASSUME NEW o \in Nat,
                          \/ o \in Done /\ \E a \in Hands : Trying(a, o)'
                          \/ \E a, b \in Hands :
                                a # b /\ Trying(a, o)' /\ Trying(b, o)'
                   PROVE  o \in TriedAgain
        BY <3>3 DEF TriedAgain
      <4>1. CASE o \in Done /\ \E a \in Hands : Trying(a, o)'
        BY <3>1, <3>2, <4>1 DEF TriedAgain
      <4>2. ASSUME NEW a \in Hands, NEW b \in Hands, a # b,
                   Trying(a, o)', Trying(b, o)'
            PROVE  o \in TriedAgain
        BY <1>0, <3>1, <3>2, <4>2 DEF TriedAgain
      <4> QED BY <4>1, <4>2
    <3>5. Suspects' \subseteq Suspects
      BY <3>3, <3>4 DEF Suspects
    <3> QED BY <1>0, <2>4, <3>5, CountSuspects
  <2> QED BY <2>1, <2>3, <2>4
<1>4. ASSUME NEW n \in Members, Crash(n)
      PROVE  SuspectsAreFew'
  <2>1. /\ step' = [step EXCEPT ![n] = "idle"]
        /\ assigned' = IF assigned = n THEN Nobody ELSE assigned
        /\ faults' = faults + 1
        /\ UNCHANGED <<committed, position, deadLetters, applied>>
    BY <1>4 DEF Crash, Fault
  <2>2. \A a \in Hands, o \in Nat : Trying(a, o)' => Trying(a, o) \/ o = committed
    BY <1>0, <2>1 DEF Trying
  <2> QED BY <1>0, <2>1, <2>2, OneMoreTry, CountSuspects
<1>5. ASSUME NEW n \in Members, onMessage(n)
      PROVE  SuspectsAreFew'
  <2> DEFINE p == position[n]
  <2>0. p \in Nat
    BY <1>0
  <2>1. CASE Deliver(n) \/ Reject(n)
    <3>1. /\ \/ step[n] = "idle" /\ assigned = n
                /\ step' = [step EXCEPT ![n] = "delivered"]
             \/ step[n] = "delivered" /\ step' = [step EXCEPT ![n] = "rejected"]
          /\ UNCHANGED <<committed, assigned, position, deadLetters, applied, faults>>
      BY <2>1 DEF Deliver, Reject, At, Moves, groupVars
    <3>2. \A a \in Hands, o \in Nat : Trying(a, o)' => Trying(a, o)
      BY <1>0, <3>1 DEF Trying
    <3> QED BY <1>0, <3>1, <3>2, FewerTries, CountSuspects
  <2>2. CASE FailTransiently(n)
    <3>1. /\ step[n] = "delivered" /\ step' = [step EXCEPT ![n] = "idle"]
          /\ UNCHANGED <<committed, assigned, position, deadLetters, applied>>
          /\ faults' = faults \/ faults' = faults + 1
      BY <2>2 DEF FailTransiently, At, Moves, Fault, groupVars
    <3>2. \A a \in Hands, o \in Nat : Trying(a, o)' => Trying(a, o)
      BY <1>0, <3>1 DEF Trying
    <3>3. Suspects' \subseteq Suspects
      BY <3>1, <3>2, FewerTries
    <3> QED BY <1>0, <3>1, <3>3, CountSuspects
  <2>3. ASSUME NEW s, step' = [step EXCEPT ![n] = s],
               step[n] \in {"delivered", "rejected"},
               UNCHANGED <<committed, assigned, position>>,
               \/ s \in {"applied", "lettered"} /\ faults' = faults
               \/ faults' = faults + 1,
               \/ applied' = applied \cup {p} /\ UNCHANGED deadLetters
               \/ /\ deadLetters' \in {deadLetters, deadLetters \cup {p}}
                  /\ UNCHANGED applied
        PROVE  SuspectsAreFew'
    <3>1. /\ Trying(n, p)
          /\ \A a \in Hands, o \in Nat : Trying(a, o)' => Trying(a, o)
          /\ s \in {"applied", "lettered"} => \A o \in Nat : ~Trying(n, o)'
      BY <1>0, <2>3 DEF Trying
    <3> HIDE DEF p
    <3>2. /\ Suspects' \subseteq Suspects \cup {p}
          /\ s \in {"applied", "lettered"} => Suspects' \subseteq Suspects
      BY <2>0, <2>3, <3>1, HandledSuspects
    <3> QED BY <1>0, <2>3, <3>2, CountSuspects
  <2>4. CASE Apply(n)
    <3>1. /\ step[n] = "delivered" /\ applied' = applied \cup {p}
          /\ UNCHANGED <<committed, assigned, position, deadLetters>>
          /\ \/ step' = [step EXCEPT ![n] = "applied"] /\ faults' = faults
             \/ step' = [step EXCEPT ![n] = "idle"] /\ faults' = faults + 1
      BY <2>4 DEF Apply, At, Moves, Fault, groupVars
    <3> QED BY <2>3, <3>1
  <2>5. CASE SendToDlq(n)
    <3>1. /\ step[n] = "rejected"
          /\ deadLetters' \in {deadLetters, deadLetters \cup {p}}
          /\ UNCHANGED <<committed, assigned, position, applied>>
          /\ \/ step' = [step EXCEPT ![n] = "lettered"] /\ faults' = faults
             \/ step' = [step EXCEPT ![n] = "idle"] /\ faults' = faults + 1
      BY <2>5 DEF SendToDlq, At, Moves, Fault, groupVars
    <3> QED BY <2>3, <3>1
  <2>6. CASE CommitOffset(n)
    (* The next message is fresh: nobody has handled it or tries it.       *)
    <3>1. /\ step[n] \in {"applied", "lettered"} /\ assigned = n /\ assigned' = n
          /\ position' = [position EXCEPT ![n] = p + 1]
          /\ step' = [step EXCEPT ![n] = "idle"]
          /\ committed' = p + 1
          /\ UNCHANGED <<deadLetters, applied, faults>>
      BY <2>6 DEF CommitOffset, Finished, Moves
    <3>2. \A a \in Hands, o \in Nat :
             Trying(a, o)' => \/ a # n /\ Trying(a, o)
                              \/ a = n /\ o = p + 1
      BY <1>0, <3>1 DEF Trying, Hands
    <3>3. p + 1 \notin Done
      BY <1>0, <2>0, <3>1 DEF NextIsFresh
    <3>4. \A a \in Hands : a # n => ~Trying(a, p + 1)
      BY <1>0, <2>0, <3>1 DEF NextIsFresh, Trying
    <3>5. Done' = Done
      BY <3>1 DEF Done
    <3> HIDE DEF p
    <3>6. TriedAgain' \subseteq TriedAgain
      <4> SUFFICES ASSUME NEW o \in Nat,
                          \/ o \in Done /\ \E a \in Hands : Trying(a, o)'
                          \/ \E a, b \in Hands :
                                a # b /\ Trying(a, o)' /\ Trying(b, o)'
                   PROVE  o \in TriedAgain
        BY <3>5 DEF TriedAgain
      <4>1. CASE o \in Done /\ \E a \in Hands : Trying(a, o)'
        BY <3>2, <3>3, <4>1 DEF TriedAgain
      <4>2. ASSUME NEW a \in Hands, NEW b \in Hands, a # b,
                   Trying(a, o)', Trying(b, o)'
            PROVE  o \in TriedAgain
        <5>1. a # n /\ b # n
          BY <3>2, <3>4, <4>2
        <5> QED BY <3>2, <4>2, <5>1 DEF TriedAgain
      <4> QED BY <4>1, <4>2
    <3>7. Suspects' \subseteq Suspects
      BY <3>1, <3>6 DEF Suspects
    <3> QED BY <1>0, <3>1, <3>7, CountSuspects
  <2>7. CASE LoseCommit(n)
    <3>1. /\ assigned = n
          /\ step' = [step EXCEPT ![n] = "idle"]
          /\ faults' = faults + 1
          /\ UNCHANGED <<assigned, position, deadLetters, applied>>
      BY <2>7 DEF LoseCommit, Moves, Fault
    <3>2. \A a \in Hands, o \in Nat : Trying(a, o)' => Trying(a, o) \/ o = p
      BY <1>0, <3>1 DEF Trying
    <3> HIDE DEF p
    <3> QED BY <1>0, <3>1, <3>2, OneMoreTry, CountSuspects
  <2>8. CASE FenceCommit(n)
    <3>1. /\ assigned # n /\ step' = [step EXCEPT ![n] = "idle"]
          /\ UNCHANGED <<committed, assigned, position, deadLetters, applied, faults>>
      BY <2>8 DEF FenceCommit, Moves, groupVars
    <3>2. \A a \in Hands, o \in Nat : Trying(a, o)' => Trying(a, o)
      BY <1>0, <3>1 DEF Trying
    <3> QED BY <1>0, <3>1, <3>2, FewerTries, CountSuspects
  <2> QED BY <1>5, <2>1, <2>2, <2>4, <2>5, <2>6, <2>7, <2>8 DEF onMessage
<1> QED BY <1>2, <1>3, <1>4, <1>5 DEF DeliveryNext

(* Every message that was applied and is among the dead letters as well    *)
(* has cost a fault of its own, with any number of members and messages:   *)
(* the consumer never falls back by more than the message it was at.       *)
THEOREM FalseDeadLettersTakeFaults == DeliverySpec => []FalseDeadLettersAreFew
<1>1. DeliveryInit => NextIsFresh /\ SuspectsAreFew
  <2> SUFFICES ASSUME DeliveryInit
               PROVE  NextIsFresh /\ SuspectsAreFew
    OBVIOUS
  <2>1. NextIsFresh
    BY DeliveryAssumption DEF DeliveryInit, NextIsFresh, Done
  <2>2. Suspects = {}
    <3>1. \A a \in Hands, o \in Nat : Trying(a, o) => a = Nobody
      BY DeliveryAssumption DEF DeliveryInit, Trying, Hands
    <3> QED BY <3>1 DEF DeliveryInit, Suspects, TriedAgain, Done
  <2>3. faults = 0
    BY DEF DeliveryInit
  <2> QED BY <2>1, <2>2, <2>3, FS_EmptySet DEF SuspectsAreFew
<1>2. DeliveryTypeOK /\ NextIsFresh /\ SuspectsAreFew /\ [DeliveryNext]_allVars
         => NextIsFresh' /\ SuspectsAreFew'
  BY FreshStep, SuspectStep
<1>3. DeliveryTypeOK /\ SuspectsAreFew => FalseDeadLettersAreFew
  <2> SUFFICES ASSUME DeliveryTypeOK, SuspectsAreFew
               PROVE  FalseDeadLettersAreFew
    OBVIOUS
  <2>1. deadLetters \cap applied \in SUBSET Suspects /\ IsFiniteSet(Suspects)
    BY DEF SuspectsAreFew, Suspects
  <2>2. /\ Cardinality(deadLetters \cap applied) <= Cardinality(Suspects)
        /\ Cardinality(deadLetters \cap applied) \in Nat
        /\ Cardinality(Suspects) \in Nat
    BY <2>1, FS_Subset, FS_CardinalityType
  <2>3. Cardinality(Suspects) <= faults /\ faults \in Nat
    BY DeliveryAssumption DEF SuspectsAreFew, DeliveryTypeOK
  <2> QED BY <2>2, <2>3 DEF FalseDeadLettersAreFew
<1> QED BY <1>1, <1>2, <1>3, DeliveryTypeCorrect, PTL DEF DeliverySpec

-----------------------------------------------------------------------------
(* The rows under delivery. *)

(* An applied message is one use case. *)
LEMMA EffectIsUseCase ==
    ASSUME NEW message \in Messages, Effect(message)
    PROVE  [Next]_vars
<1> USE MessageAssumption
<1>1. CASE message.type = "ProgramSnapshot" /\ ApplySnapshot(message.snapshot)
  BY <1>1 DEF Next
<1>2. CASE message.type = "ProgramLimitChanged" /\ ChangeCreditLimit(message.newLimit)
  BY <1>2 DEF Next
<1>3. CASE /\ message.type = "InvoiceRepaid"
           /\ ReleaseReservation(message.invoice, "REPAID")
  BY <1>3 DEF Next
<1>4. CASE UNCHANGED serviceVars
  BY <1>4 DEF serviceVars
<1> QED BY <1>1, <1>2, <1>3, <1>4 DEF Effect

(* A step of the delivery is one use case, or leaves the rows alone. *)
LEMMA DeliveryStepIsUseCase ==
    ASSUME DeliveryTypeOK, AtMessages, [DeliveryNext]_allVars
    PROVE  [Next]_vars
<1>1. ASSUME NEW n \in Members, Apply(n)
      PROVE  [Next]_vars
  <2>1. topic[position[n]] \in Messages
    <3>1. /\ topic \in Seq(Messages) /\ Len(topic) \in Nat
          /\ position[n] \in 1..(Len(topic) + 1) /\ position[n] <= Len(topic)
      BY <1>1 DEF Apply, At, AtMessages, DeliveryTypeOK
    <3> QED BY <3>1
  <2>2. Effect(topic[position[n]])
    BY <1>1 DEF Apply
  <2> QED BY <2>1, <2>2, EffectIsUseCase
<1>2. CASE Client
  BY <1>2 DEF Client, Next
<1>3. ASSUME NEW n \in Members,
             \/ Assign(n) \/ Crash(n) \/ Deliver(n) \/ Reject(n)
             \/ FailTransiently(n) \/ SendToDlq(n) \/ CommitOffset(n)
             \/ LoseCommit(n) \/ FenceCommit(n)
      PROVE  UNCHANGED vars
  BY <1>3 DEF Assign, Crash, Deliver, Reject, FailTransiently, SendToDlq,
              CommitOffset, LoseCommit, FenceCommit, serviceVars
<1>4. ASSUME NEW message \in Messages, Publish(message)
      PROVE  UNCHANGED vars
  BY <1>4 DEF Publish, serviceVars
<1>5. CASE UNCHANGED allVars
  BY <1>5 DEF allVars, serviceVars
<1> QED BY <1>1, <1>2, <1>3, <1>4, <1>5 DEF DeliveryNext, onMessage

(* What the type invariant carries along. *)
LEMMA AtMessagesInvariant == DeliverySpec => [](DeliveryTypeOK /\ AtMessages)
<1>1. DeliveryInit => AtMessages
  BY DEF DeliveryInit, AtMessages
<1>2. DeliveryTypeOK /\ AtMessages /\ [DeliveryNext]_allVars => AtMessages'
  BY DeliveryTypeStep
<1> QED BY <1>1, <1>2, DeliveryTypeCorrect, PTL DEF DeliverySpec

(* The consumer implements the use cases taken one at a time: no crash,    *)
(* rebalance, lost answer or redelivery shows in the rows as anything but  *)
(* one of them (TreasuryKafkaConsumer and its transaction runner).         *)
THEOREM DeliveryIsUseCases == DeliverySpec => ImplementsTreasurySync
<1>1. DeliveryInit => Init
  BY DEF DeliveryInit
<1>2. (DeliveryTypeOK /\ AtMessages) /\ [DeliveryNext]_allVars => [Next]_vars
  BY DeliveryStepIsUseCase
<1> QED BY <1>1, <1>2, AtMessagesInvariant, PTL
        DEF DeliverySpec, ImplementsTreasurySync, Spec

(* So the books stay true however messages are delivered: the counter is   *)
(* the sum of the holds, the log adds up to them, every row can be loaded, *)
(* no plan that passed the gates is thrown back; snapshots settle what     *)
(* they say, silence frees nothing and no evidence is restated.            *)
THEOREM BooksSurviveDelivery ==
    DeliverySpec => /\ [](/\ CounterIsSumOfHolds
                          /\ LogAccountsForHolds
                          /\ RowsAreLoadable
                          /\ PlansAreApplicable)
                    /\ SnapshotsSettle
                    /\ SilenceFreesNothing
                    /\ EvidenceIsKept
BY DeliveryIsUseCases, CounterNeverDrifts, LogExplainsRows, RowsStayLoadable,
   PlansCanBeCarriedOut, SnapshotsAreSettled, SilenceIsNoEvidence, EvidenceStays,
   PTL DEF ImplementsTreasurySync

=============================================================================
