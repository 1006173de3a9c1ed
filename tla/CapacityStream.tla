--------------------------- MODULE CapacityStream ---------------------------
(***************************************************************************)
(* How a change of a program's capacity gets from the transaction that     *)
(* makes it to those who watch: the streams of GET /capacity/stream and    *)
(* the gauge capacity_utilization_ratio.                                   *)
(*                                                                         *)
(* Whoever made the change, a request or the consumer, publishes a         *)
(* notification once its transaction has been committed; a stream answers  *)
(* each notification by reading the program again, in two statements and   *)
(* without a lock, one notification at a time.  A request also reads the   *)
(* program back and sets the gauge.                                        *)
(*                                                                         *)
(* What a transaction does to the figures is TreasurySync's and            *)
(* CapacityService's business: here a hold is one unit, and a snapshot may *)
(* leave any figures behind.                                               *)
(***************************************************************************)
EXTENDS Integers

CONSTANTS
    Requests,       \* API requests that reserve and release
    Consumer,       \* the consumer of treasury's messages
    Watchers,       \* clients of GET /capacity/stream
    Limits,         \* the limits treasury may state
    MaxReserved,    \* bound: no figure that treasury states is greater
    MaxCommits      \* bound: how many transactions are committed

ASSUME StreamAssumption ==
    /\ Consumer \notin Requests
    /\ Limits \subseteq Nat
    /\ MaxReserved \in Nat
    /\ MaxCommits \in Nat

VARIABLES
    program,        \* the committed figures: [reserved, limit]
    version,        \* how many transactions have changed the row
    reconciled,     \* the version the last snapshot made (last_reconciled_at)
    step,           \* by handler, how far it has got
    sample,         \* by request, the figures it has read for the gauge
    gauge,          \* the figures the gauge was set from
    stream,         \* by watcher, [open, pending]: notifications to answer
    reads,          \* by watcher, the reads in flight
    shown,          \* by watcher, what it was sent last
    untold,         \* history: a change that nobody will publish
    commits         \* how many transactions were committed

rowVars     == <<program, version, reconciled>>
handlerVars == <<step, sample, gauge, untold, commits>>
watchVars   == <<stream, reads, shown>>
vars        == <<rowVars, handlerVars, watchVars>>

Handlers == Requests \cup {Consumer}

Figures   == [reserved : Nat, limit : Nat]
NoFigures == [reserved |-> 0, limit |-> 0]

(* The watermark before it is read, or before anything was sent. *)
NotRead == -1

Reads == [figures : Nat, reconciled : Nat \cup {NotRead}]

NothingShown == [figures |-> 0, reconciled |-> NotRead]

Closed == [open |-> FALSE, pending |-> 0]

StreamTypeOK ==
    /\ program    \in Figures
    /\ version    \in Nat
    /\ reconciled \in Nat
    /\ step       \in [Handlers -> {"idle", "committed", "announced", "measured"}]
    /\ sample     \in [Requests -> Figures]
    /\ gauge      \in Figures
    /\ stream     \in [Watchers -> [open : BOOLEAN, pending : Nat]]
    /\ reads      \in [Watchers -> SUBSET Reads]
    /\ shown      \in [Watchers -> Reads]
    /\ untold     \in BOOLEAN
    /\ commits    \in 0..MaxCommits

(* A program's stream is opened by a guard that has found the program. *)
Init ==
    /\ program    \in [reserved : {0}, limit : Limits]
    /\ version    = 0
    /\ reconciled = 0
    /\ step       = [h \in Handlers |-> "idle"]
    /\ sample     = [r \in Requests |-> NoFigures]
    /\ gauge      = NoFigures
    /\ stream     = [w \in Watchers |-> Closed]
    /\ reads      = [w \in Watchers |-> {}]
    /\ shown      = [w \in Watchers |-> NothingShown]
    /\ untold     = FALSE
    /\ commits    = 0

-----------------------------------------------------------------------------
(***************************************************************************)
(* The transactions.                                                       *)
(***************************************************************************)

At(h, s) == step[h] = s

Moves(h, s) == step' = [step EXCEPT ![h] = s]

(* The commit of one transaction, which has made "figures" of the row.     *)
(* The answer may be lost: the handler ends in an error then and publishes *)
(* nothing; a retry may find the change made and publish nothing either    *)
(* (a replayed reserve, a stale snapshot).                                 *)
Commit(h, figures, snapshot) ==
    LET changed == figures # program \/ snapshot
    IN  /\ At(h, "idle")
        /\ commits < MaxCommits
        /\ commits' = commits + 1
        /\ program' = figures
        /\ version' = IF changed THEN version + 1 ELSE version
        /\ reconciled' = IF snapshot THEN version + 1 ELSE reconciled
        /\ \/ Moves(h, "committed") /\ UNCHANGED untold
           \/ UNCHANGED step /\ untold' = (untold \/ changed)
        /\ UNCHANGED <<sample, gauge, watchVars>>

(* CREATED; a replay changes nothing, publishes nothing and is no step. *)
ReserveInvoice(r) ==
    /\ program.reserved < program.limit
    /\ Commit(r, [program EXCEPT !.reserved = @ + 1], FALSE)

(* By a request, or by an InvoiceRepaid message: both publish also when    *)
(* the hold had been released before.                                      *)
ReleaseReservation(h) ==
    \/ /\ program.reserved > 0
       /\ Commit(h, [program EXCEPT !.reserved = @ - 1], FALSE)
    \/ Commit(h, program, FALSE)

ChangeCreditLimit(limit) == Commit(Consumer, [program EXCEPT !.limit = limit], FALSE)

ApplySnapshot(figures) == Commit(Consumer, figures, TRUE)

-----------------------------------------------------------------------------
(***************************************************************************)
(* After the commit.                                                       *)
(***************************************************************************)

Notified(w) ==
    IF stream[w].open THEN [stream[w] EXCEPT !.pending = @ + 1] ELSE stream[w]

(* Mutant: a notification that finds a read in flight is dropped. *)
AnnounceUnlessReading(h) ==
    /\ At(h, "committed")
    /\ Moves(h, IF h \in Requests THEN "announced" ELSE "idle")
    /\ stream' = [w \in Watchers |->
                    IF reads[w] = {} THEN Notified(w) ELSE stream[w]]
    /\ untold' = FALSE
    /\ UNCHANGED <<rowVars, sample, gauge, reads, shown, commits>>

(* Mutant: only requests publish. *)
AnnounceRequests(h) ==
    /\ At(h, "committed")
    /\ Moves(h, IF h \in Requests THEN "announced" ELSE "idle")
    /\ stream' = [w \in Watchers |->
                    IF h \in Requests THEN Notified(w) ELSE stream[w]]
    /\ untold' = IF h \in Requests THEN FALSE ELSE untold
    /\ UNCHANGED <<rowVars, sample, gauge, reads, shown, commits>>

(* broadcaster.publish reaches every open stream at once.  The consumer is *)
(* done with it.                                                           *)
Announce(h) ==
    /\ At(h, "committed")
    /\ Moves(h, IF h \in Requests THEN "announced" ELSE "idle")
    /\ stream' = [w \in Watchers |-> Notified(w)]
    /\ untold' = FALSE
    /\ UNCHANGED <<rowVars, sample, gauge, reads, shown, commits>>

(* recordUtilization: read the program back; a read that fails is the      *)
(* request's error.                                                        *)
ReadUtilization(r) ==
    /\ At(r, "announced")
    /\ \/ /\ sample' = [sample EXCEPT ![r] = program]
          /\ Moves(r, "measured")
       \/ /\ UNCHANGED sample
          /\ Moves(r, "idle")
    /\ UNCHANGED <<rowVars, gauge, watchVars, untold, commits>>

observeUtilization(r) ==
    /\ At(r, "measured")
    /\ gauge' = sample[r]
    /\ sample' = [sample EXCEPT ![r] = NoFigures]
    /\ Moves(r, "idle")
    /\ UNCHANGED <<rowVars, watchVars, untold, commits>>

-----------------------------------------------------------------------------
(***************************************************************************)
(* A stream: concatMap starts the read of a notification when the read     *)
(* before it is done, and the first read needs no notification.            *)
(***************************************************************************)

OpenStream(w) ==
    /\ ~stream[w].open
    /\ stream' = [stream EXCEPT ![w] = [open |-> TRUE, pending |-> 1]]
    /\ UNCHANGED <<rowVars, handlerVars, reads, shown>>

(* The client leaves, or a read fails: the error ends the stream.  (A read *)
(* that a notification of the consumer starts runs outside any request's   *)
(* context, where the ORM refuses its global entity manager.)              *)
CloseStream(w) ==
    /\ stream[w].open
    /\ stream' = [stream EXCEPT ![w] = Closed]
    /\ reads' = [reads EXCEPT ![w] = {}]
    /\ shown' = [shown EXCEPT ![w] = NothingShown]
    /\ UNCHANGED <<rowVars, handlerVars>>

(* Mutant: the read does not wait for the one before it. *)
FindProgramAtOnce(w) ==
    /\ stream[w].pending > 0
    /\ stream' = [stream EXCEPT ![w].pending = @ - 1]
    /\ reads' = [reads EXCEPT ![w] =
                    @ \cup {[figures |-> version, reconciled |-> NotRead]}]
    /\ UNCHANGED <<rowVars, handlerVars, shown>>

(* Mutant: the stream reads again whether or not it was notified. *)
FindProgramUnasked(w) ==
    /\ stream[w].open
    /\ reads[w] = {}
    /\ stream' = [stream EXCEPT ![w].pending = @ - 1]
    /\ reads' = [reads EXCEPT ![w] =
                    @ \cup {[figures |-> version, reconciled |-> NotRead]}]
    /\ UNCHANGED <<rowVars, handlerVars, shown>>

(* getCapacity's first statement: the figures, refreshed from the row. *)
FindProgram(w) ==
    /\ stream[w].pending > 0
    /\ reads[w] = {}
    /\ stream' = [stream EXCEPT ![w].pending = @ - 1]
    /\ reads' = [reads EXCEPT ![w] =
                    @ \cup {[figures |-> version, reconciled |-> NotRead]}]
    /\ UNCHANGED <<rowVars, handlerVars, shown>>

(* Its second statement: the watermark, which may be a newer one. *)
FindWatermark(w) ==
    \E read \in reads[w] :
        /\ read.reconciled = NotRead
        /\ reads' = [reads EXCEPT ![w] =
                        (@ \ {read}) \cup {[read EXCEPT !.reconciled = reconciled]}]
        /\ UNCHANGED <<rowVars, handlerVars, stream, shown>>

Send(w) ==
    \E read \in reads[w] :
        /\ read.reconciled # NotRead
        /\ shown' = [shown EXCEPT ![w] = read]
        /\ reads' = [reads EXCEPT ![w] = @ \ {read}]
        /\ UNCHANGED <<rowVars, handlerVars, stream>>

-----------------------------------------------------------------------------

Transaction ==
    \/ \E r \in Requests : ReserveInvoice(r)
    \/ \E h \in Handlers : ReleaseReservation(h)
    \/ \E limit \in Limits : ChangeCreditLimit(limit)
    \/ \E reserved \in 0..MaxReserved, limit \in Limits :
          ApplySnapshot([reserved |-> reserved, limit |-> limit])

Aftermath ==
    \/ \E h \in Handlers : Announce(h)
    \/ \E r \in Requests : ReadUtilization(r) \/ observeUtilization(r)

Reading(w) == FindProgram(w) \/ FindWatermark(w) \/ Send(w)

Next ==
    \/ Transaction
    \/ Aftermath
    \/ \E w \in Watchers : OpenStream(w) \/ CloseStream(w) \/ Reading(w)

Spec == Init /\ [][Next]_vars

(* A handler that has committed goes on, and a read is answered. *)
FairSpec ==
    /\ Spec
    /\ \A h \in Handlers : WF_vars(Announce(h))
    /\ \A w \in Watchers : WF_vars(Reading(w))

-----------------------------------------------------------------------------
(***************************************************************************)
(* Properties.                                                             *)
(***************************************************************************)

(* A change is committed that has still to be published, or never will be. *)
Owed == untold \/ \E h \in Handlers : At(h, "committed")

Current(w) == shown[w] = [figures |-> version, reconciled |-> reconciled]

(* A stream with nothing left to do shows the row as it is, figures and    *)
(* watermark of one moment, unless a publication is still to come or the   *)
(* answer of the commit was lost: no notification is swallowed by a read   *)
(* that was under way, and a figure torn between two commits does not stay *)
(* (PLAN 2.8: "nothing can publish a figure that disagrees with the read").*)
StaleOnlyWhileOwed ==
    \A w \in Watchers :
        stream[w].open /\ stream[w].pending = 0 /\ reads[w] = {} /\ ~Owed
            => Current(w)

(* A watcher whose figure is out of date gets the present one, unless its  *)
(* stream ends or the change is one that nobody publishes.                 *)
WatchersCatchUp ==
    \A w \in Watchers :
        stream[w].open /\ ~Current(w) ~> ~stream[w].open \/ Current(w) \/ untold

(* Figures on a stream are figures the program had, in their order. *)
Feed == INSTANCE CapacityFeed WITH shown <- [w \in Watchers |-> shown[w].figures]

ImplementsFeed == Feed!Spec

(* reserved / limit; zero for a limit of zero. *)
SameRatio(f, g) ==
    IF f.limit = 0 \/ g.limit = 0
    THEN (f.limit = 0 \/ f.reserved = 0) /\ (g.limit = 0 \/ g.reserved = 0)
    ELSE f.reserved * g.limit = g.reserved * f.limit

(* With nothing under way, and every change published, the gauge shows     *)
(* "reserved over credit limit" (metrics.service.ts, its help text).       *)
GaugeIsCurrent ==
    gauge # NoFigures /\ ~untold /\ (\A h \in Handlers : At(h, "idle"))
        => SameRatio(gauge, program)

=============================================================================
