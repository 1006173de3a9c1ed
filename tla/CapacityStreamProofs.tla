------------------------ MODULE CapacityStreamProofs ------------------------
(***************************************************************************)
(* Theorems about CapacityStream, for any requests, watchers, limits and   *)
(* bounds.                                                                 *)
(***************************************************************************)
EXTENDS CapacityStream, TLAPS

LEMMA TypeStep ==
    ASSUME StreamTypeOK, [Next]_vars
    PROVE  StreamTypeOK'
<1> USE StreamAssumption
        DEF StreamTypeOK, Figures, Handlers, At, Moves, Reads, NotRead, NothingShown, Closed
<1>1. ASSUME NEW h \in Handlers, NEW figures \in Figures, NEW snapshot \in BOOLEAN,
             Commit(h, figures, snapshot)
      PROVE  StreamTypeOK'
  <2>1. version' \in Nat /\ reconciled' \in Nat /\ commits' \in 0..MaxCommits
    BY <1>1 DEF Commit
  <2>2. step' \in [Handlers -> {"idle", "committed", "announced", "measured"}]
    BY <1>1 DEF Commit
  <2>3. untold' \in BOOLEAN
    BY <1>1, Zenon DEF Commit
  <2> QED BY <1>1, <2>1, <2>2, <2>3 DEF Commit, watchVars
<1>2. CASE Transaction
  <2>1. ASSUME NEW r \in Requests, ReserveInvoice(r)
        PROVE  StreamTypeOK'
    <3>1. [program EXCEPT !.reserved = @ + 1] \in Figures
      OBVIOUS
    <3> QED BY <1>1, <2>1, <3>1, Zenon DEF ReserveInvoice
  <2>2. ASSUME NEW h \in Handlers, ReleaseReservation(h)
        PROVE  StreamTypeOK'
    <3>1. program.reserved > 0 => [program EXCEPT !.reserved = @ - 1] \in Figures
      OBVIOUS
    <3> QED BY <1>1, <2>2, <3>1, Zenon DEF ReleaseReservation
  <2>3. ASSUME NEW limit \in Limits, ChangeCreditLimit(limit)
        PROVE  StreamTypeOK'
    <3>1. [program EXCEPT !.limit = limit] \in Figures
      OBVIOUS
    <3> QED BY <1>1, <2>3, <3>1, Zenon DEF ChangeCreditLimit
  <2>4. ASSUME NEW reserved \in 0..MaxReserved, NEW limit \in Limits,
               ApplySnapshot([reserved |-> reserved, limit |-> limit])
        PROVE  StreamTypeOK'
    <3>1. [reserved |-> reserved, limit |-> limit] \in Figures
      OBVIOUS
    <3> QED BY <1>1, <2>4, <3>1, Zenon DEF ApplySnapshot
  <2> QED BY <1>2, <2>1, <2>2, <2>3, <2>4 DEF Transaction
<1>3. CASE Aftermath
  <2>1. ASSUME NEW h \in Handlers, Announce(h)
        PROVE  StreamTypeOK'
    <3>1. \A w \in Watchers : Notified(w) \in [open : BOOLEAN, pending : Nat]
      BY DEF Notified
    <3>2. stream' \in [Watchers -> [open : BOOLEAN, pending : Nat]]
      BY <2>1, <3>1 DEF Announce
    <3> QED BY <2>1, <3>2 DEF Announce, rowVars
  <2>2. ASSUME NEW r \in Requests, ReadUtilization(r)
        PROVE  StreamTypeOK'
    BY <2>2 DEF ReadUtilization, rowVars, watchVars
  <2>3. ASSUME NEW r \in Requests, observeUtilization(r)
        PROVE  StreamTypeOK'
    BY <2>3 DEF observeUtilization, NoFigures, rowVars, watchVars
  <2> QED BY <1>3, <2>1, <2>2, <2>3 DEF Aftermath
<1>4. ASSUME NEW w \in Watchers, OpenStream(w) \/ CloseStream(w) \/ Reading(w)
      PROVE  StreamTypeOK'
  <2> USE DEF rowVars, handlerVars
  <2>1. CASE OpenStream(w)
    BY <2>1 DEF OpenStream
  <2>2. CASE CloseStream(w)
    BY <2>2 DEF CloseStream
  <2>3. CASE FindProgram(w)
    BY <2>3 DEF FindProgram
  <2>4. CASE FindWatermark(w)
    BY <2>4 DEF FindWatermark
  <2>5. CASE Send(w)
    BY <2>5 DEF Send
  <2> QED BY <1>4, <2>1, <2>2, <2>3, <2>4, <2>5 DEF Reading
<1>5. CASE UNCHANGED vars
  BY <1>5 DEF vars, rowVars, handlerVars, watchVars
<1> QED BY <1>2, <1>3, <1>4, <1>5 DEF Next

(* Rows, handlers and streams have their types: no figure goes below zero, *)
(* and no stream reads without a notification.                             *)
THEOREM StreamTypeCorrect == Spec => []StreamTypeOK
<1>1. Init => StreamTypeOK
  <2> SUFFICES ASSUME Init
               PROVE  StreamTypeOK
    OBVIOUS
  <2>1. program \in Figures
    <3>1. PICK limit \in Limits : program = [reserved |-> 0, limit |-> limit]
      BY DEF Init
    <3> QED BY <3>1, StreamAssumption DEF Figures
  <2>2. sample \in [Requests -> Figures] /\ gauge \in Figures
    BY DEF Init, Figures, NoFigures
  <2>3. /\ stream \in [Watchers -> [open : BOOLEAN, pending : Nat]]
        /\ reads  \in [Watchers -> SUBSET Reads]
        /\ shown  \in [Watchers -> Reads]
    BY DEF Init, Reads, NotRead, NothingShown, Closed
  <2>4. step \in [Handlers -> {"idle", "committed", "announced", "measured"}]
    BY DEF Init
  <2>5. version \in Nat /\ reconciled \in Nat /\ commits \in 0..MaxCommits
    BY StreamAssumption DEF Init
  <2>6. untold \in BOOLEAN
    BY DEF Init
  <2> QED BY <2>1, <2>2, <2>3, <2>4, <2>5, <2>6 DEF StreamTypeOK
<1> QED BY <1>1, TypeStep, PTL DEF Spec

-----------------------------------------------------------------------------

(* Why StaleOnlyWhileOwed holds: once nothing is owed and no notification  *)
(* is left, also the reads under way are of the row as it is.              *)
FreshReads(w) ==
    /\ \A read \in reads[w] :
          read.figures = version /\ read.reconciled \in {NotRead, reconciled}
    /\ reads[w] = {} => Current(w)

FreshInv ==
    \A w \in Watchers :
        stream[w].open /\ stream[w].pending = 0 /\ ~Owed => FreshReads(w)

(* A commit either changes nothing a watcher sees or leaves a change owed. *)
LEMMA CommitIsOwed ==
    ASSUME StreamTypeOK, NEW h \in Handlers, NEW figures, NEW snapshot \in BOOLEAN,
           Commit(h, figures, snapshot)
    PROVE  /\ UNCHANGED watchVars
           /\ Owed' \/ UNCHANGED <<version, reconciled, step, untold>>
           /\ version' \in {version, version + 1}
<1>1. UNCHANGED watchVars /\ version' \in {version, version + 1}
  BY DEF Commit
<1>2. CASE step' = [step EXCEPT ![h] = "committed"]
  BY <1>1, <1>2 DEF Owed, At, StreamTypeOK
<1>3. CASE /\ step' = step
           /\ untold' = (untold \/ figures # program \/ snapshot)
  <2>1. CASE figures # program \/ snapshot
    BY <1>1, <1>3, <2>1, Zenon DEF Owed
  <2>2. CASE ~(figures # program \/ snapshot)
    <3>1. untold' = untold
      BY <1>3, <2>2, Zenon DEF StreamTypeOK
    <3> QED BY <1>1, <1>3, <2>2, <3>1 DEF Commit
  <2> QED BY <2>1, <2>2
<1> QED BY <1>2, <1>3 DEF Commit, Moves

(* The only steps of Transaction are commits. *)
LEMMA TransactionCommits ==
    ASSUME Transaction
    PROVE  \E h \in Handlers : \E figures, snapshot :
              snapshot \in BOOLEAN /\ Commit(h, figures, snapshot)
<1> DEFINE Commits(h) == \E figures, snapshot :
                            snapshot \in BOOLEAN /\ Commit(h, figures, snapshot)
<1>1. ASSUME NEW r \in Requests, ReserveInvoice(r)
      PROVE  Commits(r)
  BY <1>1 DEF ReserveInvoice
<1>2. ASSUME NEW h \in Handlers, ReleaseReservation(h)
      PROVE  Commits(h)
  BY <1>2 DEF ReleaseReservation
<1>3. ASSUME NEW limit, ChangeCreditLimit(limit)
      PROVE  Commits(Consumer)
  BY <1>3 DEF ChangeCreditLimit
<1>4. ASSUME NEW figures, ApplySnapshot(figures)
      PROVE  Commits(Consumer)
  BY <1>4 DEF ApplySnapshot
<1>5. Consumer \in Handlers /\ Requests \subseteq Handlers
  BY DEF Handlers
<1> HIDE DEF Commits
<1>6. \E h \in Handlers : Commits(h)
  BY <1>1, <1>2, <1>3, <1>4, <1>5, Zenon DEF Transaction
<1> QED BY <1>6 DEF Commits

LEMMA FreshStep ==
    ASSUME StreamTypeOK, FreshInv, [Next]_vars
    PROVE  FreshInv'
<1>1. ASSUME UNCHANGED <<version, reconciled, watchVars>>, Owed => Owed'
      PROVE  FreshInv'
  BY <1>1 DEF FreshInv, FreshReads, Current, watchVars
<1>2. CASE Transaction
  <2>0. PICK h \in Handlers :
            \E figures, snapshot : snapshot \in BOOLEAN /\ Commit(h, figures, snapshot)
    BY <1>2, TransactionCommits
  <2>1. PICK figures, snapshot : snapshot \in BOOLEAN /\ Commit(h, figures, snapshot)
    BY <2>0
  <2>2. UNCHANGED watchVars /\ (Owed' \/ UNCHANGED <<version, reconciled, step, untold>>)
    BY <2>1, CommitIsOwed
  <2>3. CASE Owed'
    BY <2>3 DEF FreshInv
  <2>4. CASE UNCHANGED <<version, reconciled, step, untold>>
    BY <1>1, <2>2, <2>4 DEF Owed, At
  <2> QED BY <2>2, <2>3, <2>4
<1>3. ASSUME NEW h \in Handlers, Announce(h)
      PROVE  FreshInv'
  <2>1. \A w \in Watchers : stream'[w].open => stream'[w].pending # 0
    BY <1>3 DEF Announce, Notified, StreamTypeOK
  <2> QED BY <2>1 DEF FreshInv
<1>4. ASSUME NEW r \in Requests, ReadUtilization(r) \/ observeUtilization(r)
      PROVE  FreshInv'
  <2>1. \A h \in Handlers : At(h, "committed") <=> At(h, "committed")'
    BY <1>4 DEF ReadUtilization, observeUtilization, At, Moves, StreamTypeOK
  <2>2. UNCHANGED <<version, reconciled, watchVars, untold>>
    BY <1>4 DEF ReadUtilization, observeUtilization, rowVars
  <2> QED BY <1>1, <2>1, <2>2 DEF Owed
<1>5. ASSUME NEW w \in Watchers, OpenStream(w) \/ CloseStream(w) \/ Reading(w)
      PROVE  FreshInv'
  <2>0. UNCHANGED <<rowVars, handlerVars>>
    BY <1>5 DEF OpenStream, CloseStream, Reading, FindProgram, FindWatermark, Send
  <2>1. UNCHANGED <<version, reconciled>> /\ Owed' = Owed
    BY <2>0 DEF rowVars, handlerVars, Owed, At
  <2>2. \A v \in Watchers \ {w} : /\ stream'[v] = stream[v]
                                  /\ reads'[v] = reads[v]
                                  /\ shown'[v] = shown[v]
    BY <1>5 DEF OpenStream, CloseStream, Reading, FindProgram, FindWatermark, Send,
                StreamTypeOK
  <2>3. ASSUME stream'[w].open, stream'[w].pending = 0, ~Owed
        PROVE  FreshReads(w)'
    <3>1. CASE OpenStream(w)
      BY <2>3, <3>1 DEF OpenStream, StreamTypeOK
    <3>2. CASE CloseStream(w)
      BY <2>3, <3>2 DEF CloseStream, Closed, StreamTypeOK
    <3>3. CASE FindProgram(w)
      <4>1. reads'[w] = {[figures |-> version, reconciled |-> NotRead]}
        BY <3>3 DEF FindProgram, StreamTypeOK
      <4>2. reads'[w] # {} /\ \A read \in reads'[w] :
               read.figures = version /\ read.reconciled = NotRead
        BY <4>1
      <4> QED BY <2>1, <4>2 DEF FreshReads
    <3>4. CASE FindWatermark(w)
      <4>1. FreshReads(w)
        BY <2>3, <3>4 DEF FindWatermark, FreshInv
      <4>2. PICK read \in reads[w] :
                reads' = [reads EXCEPT ![w] =
                    (@ \ {read}) \cup {[read EXCEPT !.reconciled = reconciled]}]
        BY <3>4 DEF FindWatermark
      <4>3. read \in Reads
        BY DEF StreamTypeOK
      <4>4. [read EXCEPT !.reconciled = reconciled]
                = [figures |-> version, reconciled |-> reconciled]
        <5>1. read.figures = version
          BY <4>1 DEF FreshReads
        <5>2. read = [figures |-> version, reconciled |-> read.reconciled]
          BY <4>3, <5>1 DEF Reads
        <5> QED BY <5>2
      <4>5. reads'[w] = (reads[w] \ {read})
                           \cup {[figures |-> version, reconciled |-> reconciled]}
        BY <4>2, <4>4 DEF StreamTypeOK
      <4>6. reads'[w] # {} /\ \A r \in reads'[w] :
               r \in reads[w] \/ (r.figures = version /\ r.reconciled = reconciled)
        <5> DEFINE answer == [figures |-> version, reconciled |-> reconciled]
        <5>1. answer.figures = version /\ answer.reconciled = reconciled
          OBVIOUS
        <5>2. answer \in reads'[w] /\ \A r \in reads'[w] : r \in reads[w] \/ r = answer
          BY <4>5
        <5> HIDE DEF answer
        <5> QED BY <5>1, <5>2
      <4> QED BY <2>1, <4>1, <4>6 DEF FreshReads
    <3>5. CASE Send(w)
      <4>1. FreshReads(w)
        BY <2>3, <3>5 DEF Send, FreshInv
      <4>2. PICK read \in reads[w] : /\ read.reconciled # NotRead
                                     /\ shown' = [shown EXCEPT ![w] = read]
                                     /\ reads' = [reads EXCEPT ![w] = @ \ {read}]
        BY <3>5 DEF Send
      <4>3. read \in Reads
        BY DEF StreamTypeOK
      <4>4. read = [figures |-> version, reconciled |-> reconciled]
        <5>1. read.figures = version /\ read.reconciled = reconciled
          BY <4>1, <4>2 DEF FreshReads
        <5> QED BY <4>3, <5>1 DEF Reads
      <4>5. reads'[w] \subseteq reads[w] /\ shown'[w] = read
        BY <4>2 DEF StreamTypeOK
      <4> QED BY <2>1, <4>1, <4>4, <4>5 DEF FreshReads, Current
    <3> QED BY <1>5, <3>1, <3>2, <3>3, <3>4, <3>5 DEF Reading
  <2> QED BY <2>1, <2>2, <2>3 DEF FreshInv, FreshReads, Current
<1>6. CASE UNCHANGED vars
  BY <1>1, <1>6 DEF vars, rowVars, handlerVars, watchVars, Owed, At
<1> QED BY <1>2, <1>3, <1>4, <1>5, <1>6 DEF Next, Aftermath

(* A stream at rest shows the row as it is, unless a publication is still  *)
(* to come or was lost with the answer of a commit (streamCapacity).       *)
THEOREM RestingStreamsAreCurrent == Spec => []StaleOnlyWhileOwed
<1>1. Init => FreshInv
  BY DEF Init, FreshInv, Closed
<1>2. StreamTypeOK /\ FreshInv /\ [Next]_vars => FreshInv'
  BY FreshStep
<1>3. FreshInv => StaleOnlyWhileOwed
  BY DEF FreshInv, FreshReads, StaleOnlyWhileOwed
<1> QED BY <1>1, <1>2, <1>3, StreamTypeCorrect, PTL DEF Spec

-----------------------------------------------------------------------------

(* Why the stream implements its feed: a read under way is of figures the  *)
(* program had, none older than what is shown, and there is one at a time. *)
InOrder(w) ==
    /\ shown[w].figures <= version
    /\ \A read \in reads[w] : shown[w].figures <= read.figures /\ read.figures <= version
    /\ \A one, other \in reads[w] : one = other

OrderInv == \A w \in Watchers : InOrder(w)

ShownFigures == [w \in Watchers |-> shown[w].figures]

LEMMA OrderStep ==
    ASSUME StreamTypeOK, OrderInv, [Next]_vars
    PROVE  OrderInv' /\ [Feed!Next]_(Feed!vars)
<1> USE DEF OrderInv, InOrder
<1>0. \A w \in Watchers : shown[w] \in Reads /\ reads[w] \subseteq Reads
  BY DEF StreamTypeOK
<1>1. ASSUME UNCHANGED <<version, reads, shown>>
      PROVE  OrderInv' /\ [Feed!Next]_(Feed!vars)
  BY <1>1 DEF Feed!vars
<1>2. CASE Transaction
  <2>0. PICK h \in Handlers :
            \E figures, snapshot : snapshot \in BOOLEAN /\ Commit(h, figures, snapshot)
    BY <1>2, TransactionCommits
  <2>1. PICK figures, snapshot : snapshot \in BOOLEAN /\ Commit(h, figures, snapshot)
    BY <2>0
  <2>2. UNCHANGED watchVars /\ version' \in {version, version + 1}
    BY <2>1, CommitIsOwed
  <2>3. OrderInv'
    BY <1>0, <2>2 DEF watchVars, StreamTypeOK, Reads
  <2>4. [Feed!Next]_(Feed!vars)
    BY <2>2 DEF watchVars, Feed!Next, Feed!Change, Feed!vars
  <2> QED BY <2>3, <2>4
<1>3. CASE Aftermath
  BY <1>1, <1>3
     DEF Aftermath, Announce, ReadUtilization, observeUtilization, rowVars, watchVars
<1>4. ASSUME NEW w \in Watchers, OpenStream(w) \/ FindProgram(w) \/ FindWatermark(w)
      PROVE  OrderInv' /\ [Feed!Next]_(Feed!vars)
  <2>1. UNCHANGED <<version, shown>>
    BY <1>4 DEF OpenStream, FindProgram, FindWatermark, rowVars
  <2>2. \A v \in Watchers \ {w} : reads'[v] = reads[v]
    BY <1>4 DEF OpenStream, FindProgram, FindWatermark, StreamTypeOK
  <2>3. CASE OpenStream(w)
    BY <1>1, <2>1, <2>3 DEF OpenStream
  <2>4. CASE FindProgram(w)
    <3> DEFINE new == [figures |-> version, reconciled |-> NotRead]
    <3>1. reads'[w] = {new} /\ new.figures = version
      BY <2>4 DEF FindProgram, StreamTypeOK
    <3> HIDE DEF new
    <3> QED BY <1>0, <2>1, <2>2, <3>1 DEF Feed!vars, StreamTypeOK, Reads
  <2>5. CASE FindWatermark(w)
    <3>1. PICK read \in reads[w] :
              reads' = [reads EXCEPT ![w] =
                  (@ \ {read}) \cup {[read EXCEPT !.reconciled = reconciled]}]
      BY <2>5 DEF FindWatermark
    <3> DEFINE new == [read EXCEPT !.reconciled = reconciled]
    <3>2. new.figures = read.figures
      BY <1>0 DEF Reads
    <3>3. reads'[w] = {new}
      BY <3>1 DEF StreamTypeOK
    <3> HIDE DEF new
    <3> QED BY <2>1, <2>2, <3>2, <3>3 DEF Feed!vars
  <2> QED BY <1>4, <2>3, <2>4, <2>5
<1>5. ASSUME NEW w \in Watchers, CloseStream(w)
      PROVE  OrderInv' /\ [Feed!Next]_(Feed!vars)
  <2>1. /\ version' = version /\ version \in Nat
        /\ shown' = [shown EXCEPT ![w] = NothingShown]
        /\ reads' = [reads EXCEPT ![w] = {}]
        /\ NothingShown.figures = 0
    BY <1>5 DEF CloseStream, rowVars, NothingShown, StreamTypeOK
  <2>2. OrderInv'
    BY <2>1 DEF StreamTypeOK
  <2>3. ShownFigures' = [ShownFigures EXCEPT ![w] = 0]
    BY <2>1 DEF ShownFigures, StreamTypeOK
  <2> QED BY <2>1, <2>2, <2>3 DEF ShownFigures, Feed!Next, Feed!Forget
<1>6. ASSUME NEW w \in Watchers, Send(w)
      PROVE  OrderInv' /\ [Feed!Next]_(Feed!vars)
  <2>1. PICK read \in reads[w] : /\ shown' = [shown EXCEPT ![w] = read]
                                 /\ reads' = [reads EXCEPT ![w] = @ \ {read}]
    BY <1>6 DEF Send
  <2>2. version' = version /\ read.figures \in shown[w].figures..version
    BY <1>0, <1>6 DEF Send, rowVars, Reads, StreamTypeOK
  <2>3. reads'[w] = {} /\ shown'[w] = read
    BY <2>1 DEF StreamTypeOK
  <2>4. OrderInv'
    BY <1>0, <2>1, <2>2, <2>3 DEF StreamTypeOK, Reads
  <2>5. ShownFigures' = [ShownFigures EXCEPT ![w] = read.figures]
    BY <2>1 DEF ShownFigures, StreamTypeOK
  <2>6. read.figures \in ShownFigures[w]..version
    BY <2>2 DEF ShownFigures
  <2> QED BY <2>2, <2>4, <2>5, <2>6 DEF ShownFigures, Feed!Next, Feed!Show
<1>7. CASE UNCHANGED vars
  BY <1>1, <1>7 DEF vars, rowVars, watchVars
<1> QED BY <1>2, <1>3, <1>4, <1>5, <1>6, <1>7 DEF Next, Reading

(* Whatever reads and notifications a stream takes, its watcher is shown   *)
(* figures the program had, and never older ones after newer ones          *)
(* (streamCapacity's concatMap).                                           *)
THEOREM StreamImplementsFeed == Spec => ImplementsFeed
<1>1. Init => OrderInv /\ Feed!Init
  <2> SUFFICES ASSUME Init
               PROVE  OrderInv /\ Feed!Init
    OBVIOUS
  <2>1. \A w \in Watchers : shown[w].figures = 0 /\ reads[w] = {}
    BY DEF Init, NothingShown
  <2> QED BY <2>1 DEF Init, OrderInv, InOrder, Feed!Init
<1>2. StreamTypeOK /\ OrderInv /\ [Next]_vars => OrderInv' /\ [Feed!Next]_(Feed!vars)
  BY OrderStep
<1> QED BY <1>1, <1>2, StreamTypeCorrect, PTL DEF Spec, ImplementsFeed, Feed!Spec

=============================================================================
