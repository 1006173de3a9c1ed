------------------------------ MODULE Listings ------------------------------
(***************************************************************************)
(* Reading a program's audit log and its reservations page by page while   *)
(* they are written (CapacityEventLog.findByProgram and                    *)
(* ReservationRepository.listByProgram).                                   *)
(*                                                                         *)
(* A transaction takes the program's lock, inserts and releases rows,      *)
(* appends an event for each, and commits or is rolled back.  The ids of   *)
(* its events come from a sequence of the database, which no rollback      *)
(* resets.  A request stamps its hold with the clock, read under the lock; *)
(* a snapshot with its own, earlier or later, asOf.                        *)
(*                                                                         *)
(* One client tails the log by id, another walks the reservations by       *)
(* (reservedAt, invoiceId), each with limits as it likes.  An invoice id   *)
(* is a number, for its order.  Other programs have rows, and ids of the   *)
(* sequence, of their own.                                                 *)
(***************************************************************************)
EXTENDS Integers, FiniteSets

CONSTANTS
    Invoices,       \* the program's invoice ids
    Writers,        \* requests and the consumer
    Nobody,         \* no writer has the lock
    Limits,         \* the page sizes clients ask for
    MaxTime,        \* bound: the clock stops here
    MaxId           \* bound: the sequence stops before an id above this

ASSUME ListingAssumption ==
    /\ Invoices \subseteq Nat
    /\ IsFiniteSet(Invoices)
    /\ Nobody \notin Writers
    /\ Limits \subseteq Nat \ {0}
    /\ MaxTime \in Nat

VARIABLES
    rows,           \* committed reservations: [status, at] by invoice
    events,         \* ids of the committed events
    nextId,         \* the sequence behind capacity_events.id
    lock,           \* the writer that has the program's row
    staged,         \* by writer, what it has flushed: [inserted, released,
                    \* at, ids]
    now,            \* the clock
    tail,           \* the log's client: [after, listed]
    walk,           \* the reservations' client: [open, filter, after,
                    \* listed], listed counting by invoice
    behind          \* history: invoices that began to match behind an open walk

logVars == <<events, nextId>>
vars    == <<rows, logVars, lock, staged, now, tail, walk, behind>>

Nothing == [inserted |-> {}, released |-> {}, at |-> 0, ids |-> {}]

Filters == {"ALL", "ACTIVE", "RELEASED"}

Unlisted == [i \in Invoices |-> 0]

(* The cursor before the first page. *)
Start == [at |-> -1, invoice |-> -1]

ListingTypeOK ==
    /\ rows   \in [Invoices -> [status : {"NONE", "ACTIVE", "RELEASED"}, at : Nat]]
    /\ events \subseteq 1..(nextId - 1)
    /\ nextId \in Nat \ {0}
    /\ lock   \in Writers \cup {Nobody}
    /\ staged \in [Writers -> [inserted : SUBSET Invoices, released : SUBSET Invoices,
                               at : Nat, ids : SUBSET (1..(nextId - 1))]]
    /\ now    \in Nat
    /\ tail   \in [after : {0} \cup events, listed : SUBSET events]
    /\ walk   \in [open : BOOLEAN, filter : Filters,
                   after : [at : Int, invoice : Int], listed : [Invoices -> Nat]]
    /\ behind \subseteq Invoices
    /\ walk.open <=> walk.after # Start

Init ==
    /\ rows   = [i \in Invoices |-> [status |-> "NONE", at |-> 0]]
    /\ events = {}
    /\ nextId = 1
    /\ lock   = Nobody
    /\ staged = [w \in Writers |-> Nothing]
    /\ now    = 0
    /\ tail   = [after |-> 0, listed |-> {}]
    /\ walk   = [open |-> FALSE, filter |-> "ALL", after |-> Start, listed |-> Unlisted]
    /\ behind = {}

-----------------------------------------------------------------------------
(***************************************************************************)
(* Writing.                                                                *)
(***************************************************************************)

With(status) == {i \in Invoices : rows[i].status = status}

Statuses(filter) == IF filter = "ALL" THEN {"ACTIVE", "RELEASED"} ELSE {filter}

(* The rows a listing with this filter is about. *)
Matching(filter) == {i \in Invoices : rows[i].status \in Statuses(filter)}

Tick ==
    /\ now < MaxTime
    /\ now' = now + 1
    /\ UNCHANGED <<rows, logVars, lock, staged, tail, walk, behind>>

(* Mutant: the program is read without its lock. *)
FlushUnlocked(w, inserted, released, at, n) ==
    /\ staged[w] = Nothing
    /\ nextId + n <= MaxId + 1
    /\ lock' = w
    /\ staged' = [staged EXCEPT ![w] =
            [inserted |-> inserted, released |-> released, at |-> at,
             ids |-> nextId..(nextId + n - 1)]]
    /\ nextId' = nextId + n
    /\ UNCHANGED <<rows, events, now, tail, walk, behind>>

(* Lock, decide, flush: the n events get their ids, nobody else sees them. *)
Flush(w, inserted, released, at, n) ==
    /\ lock = Nobody
    /\ nextId + n <= MaxId + 1
    /\ lock' = w
    /\ staged' = [staged EXCEPT ![w] =
            [inserted |-> inserted, released |-> released, at |-> at,
             ids |-> nextId..(nextId + n - 1)]]
    /\ nextId' = nextId + n
    /\ UNCHANGED <<rows, events, now, tail, walk, behind>>

ReserveInvoice(w) ==
    \E i \in With("NONE") : Flush(w, {i}, {}, now, 1)

ReleaseReservation(w) ==
    \E i \in With("ACTIVE") : Flush(w, {}, {i}, now, 1)

(* Each hold it creates or releases has an event, and                      *)
(* RECONCILIATION_APPLIED comes last.  Its asOf may be ahead of the clock. *)
ApplySnapshot(w) ==
    \E inserted \in SUBSET With("NONE"), released \in SUBSET With("ACTIVE"),
       asOf \in 0..MaxTime :
        Flush(w, inserted, released, asOf,
              Cardinality(inserted) + Cardinality(released) + 1)

(* In the order of the listing. *)
Before(p, q) == p.at < q.at \/ (p.at = q.at /\ p.invoice < q.invoice)

Position(i) == [at |-> rows[i].at, invoice |-> i]

Commit(w) ==
    LET done == staged[w]
    IN  /\ done # Nothing
        /\ rows' = [i \in Invoices |->
                CASE i \in done.inserted -> [status |-> "ACTIVE", at |-> done.at]
                  [] i \in done.released -> [rows[i] EXCEPT !.status = "RELEASED"]
                  [] OTHER               -> rows[i]]
        /\ events' = events \cup done.ids
        /\ staged' = [staged EXCEPT ![w] = Nothing]
        /\ lock' = Nobody
        /\ UNCHANGED <<nextId, now, tail, walk>>
        /\ behind' = IF walk.open
                     THEN behind \cup {i \in Matching(walk.filter)' \ Matching(walk.filter) :
                            ~Before(walk.after, Position(i)')}
                     ELSE behind

Rollback(w) ==
    /\ staged[w] # Nothing
    /\ staged' = [staged EXCEPT ![w] = Nothing]
    /\ lock' = Nobody
    /\ UNCHANGED <<rows, logVars, now, tail, walk, behind>>

-----------------------------------------------------------------------------
(***************************************************************************)
(* Reading, one statement a page.                                          *)
(***************************************************************************)

(* The first n of a set of ids. *)
FirstIds(ids, n) == {e \in ids : Cardinality({d \in ids : d < e}) < n}

(* A page of the log, in the order of the ids.  nextCursor is the page's   *)
(* last id where there is more; a client that tails the log goes on from   *)
(* the last id it has got in any case.                                     *)
findByProgram(limit) ==
    LET found == {e \in events : e > tail.after}
        page  == FirstIds(found, limit)
    IN  /\ found # {}
        /\ tail' = [after  |-> CHOOSE e \in page : \A d \in page : d <= e,
                    listed |-> tail.listed \cup page]
        /\ UNCHANGED <<rows, logVars, lock, staged, now, walk, behind>>

(* Mutant: the instant alone is the cursor. *)
FoundAfterInstant(filter, cursor) ==
    {i \in Matching(filter) : cursor = Start \/ rows[i].at > cursor.at}

(* Mutant: the cursor's own row is found again. *)
FoundFrom(filter, cursor) ==
    {i \in Matching(filter) : ~Before(Position(i), cursor)}

(* The rows after the cursor. *)
Found(filter, cursor) ==
    {i \in Matching(filter) : Before(cursor, Position(i))}

FirstRows(found, n) ==
    {i \in found : Cardinality({j \in found : Before(Position(j), Position(i))}) < n}

LastRow(page) == CHOOSE i \in page : \A j \in page : ~Before(Position(i), Position(j))

(* Mutant: the last page has a cursor too. *)
ListPageWithCursor(filter, cursor, listed, limit) ==
    LET found == Found(filter, cursor)
        page  == FirstRows(found, limit)
    IN  walk' = [open   |-> Cardinality(found) > limit,
                 filter |-> filter,
                 after  |-> IF page # {} THEN Position(LastRow(page)) ELSE Start,
                 listed |-> [i \in Invoices |->
                                IF i \in page THEN listed[i] + 1 ELSE listed[i]]]

(* A page from the cursor: nextCursor is the page's last row where limit   *)
(* + 1 rows were found, and null, the end of the walk, where they were not.*)
ListPage(filter, cursor, listed, limit) ==
    LET found == Found(filter, cursor)
        page  == FirstRows(found, limit)
        more  == Cardinality(found) > limit
    IN  walk' = [open   |-> more,
                 filter |-> filter,
                 after  |-> IF more THEN Position(LastRow(page)) ELSE Start,
                 listed |-> [i \in Invoices |->
                                IF i \in page THEN listed[i] + 1 ELSE listed[i]]]

listByProgram(filter, limit) ==
    /\ ~walk.open
    /\ ListPage(filter, Start, Unlisted, limit)
    /\ behind' = {}
    /\ UNCHANGED <<rows, logVars, lock, staged, now, tail>>

listByProgramAfter(limit) ==
    /\ walk.open
    /\ ListPage(walk.filter, walk.after, walk.listed, limit)
    /\ UNCHANGED <<rows, logVars, lock, staged, now, tail, behind>>

-----------------------------------------------------------------------------

Write(w) == ReserveInvoice(w) \/ ReleaseReservation(w) \/ ApplySnapshot(w)

Next ==
    \/ \E w \in Writers : Write(w) \/ Commit(w) \/ Rollback(w)
    \/ Tick
    \/ \E limit \in Limits :
          \/ findByProgram(limit)
          \/ \E filter \in Filters : listByProgram(filter, limit)
          \/ listByProgramAfter(limit)

Spec == Init /\ [][Next]_vars

-----------------------------------------------------------------------------
(***************************************************************************)
(* Properties.                                                             *)
(***************************************************************************)

(* A client that tails the audit log misses nothing: no event comes to be  *)
(* visible with an id behind its cursor.  The ids of a sequence are handed *)
(* out in one order and would be committed in any; the program's lock is   *)
(* what keeps the two alike.                                               *)
EventsAreNeverSkipped == \A e \in events : e <= tail.after => e \in tail.listed

(* A walk over the reservations lists no row twice, whatever is written    *)
(* meanwhile and however many rows have the same instant.                  *)
WalksListRowsOnce == \A i \in Invoices : walk.listed[i] <= 1

WalkEnds == ~walk.open' /\ walk.listed' # walk.listed

(* When a walk ends, the rows it was about and has not listed came to      *)
(* match during the walk and behind its cursor: a snapshot's hold that     *)
(* bears its asOf, a hold released meanwhile where the released are asked  *)
(* for.  Rows with the cursor's own instant, or under a page's end, are    *)
(* not lost.                                                               *)
WalksMissOnlyLateRows ==
    [][WalkEnds => \A i \in Matching(walk'.filter) :
                      walk'.listed[i] > 0 \/ i \in behind']_vars

=============================================================================
