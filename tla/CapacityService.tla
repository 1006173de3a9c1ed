--------------------------- MODULE CapacityService ---------------------------
(***************************************************************************)
(* The capacity changes of one program, as concurrent transactions over    *)
(* one Postgres database.                                                  *)
(*                                                                         *)
(* A session is one HTTP request being served, or the treasury consumer    *)
(* handling one message.  It begins a transaction, takes the program's row *)
(* lock (SELECT ... FOR UPDATE) and reads the row, reads the invoice's     *)
(* reservation, decides in memory, and flushes everything at commit: the   *)
(* program row, the reservation row and the audit entry become visible in  *)
(* one step.  Until then nothing is written, so a transaction that fails   *)
(* or whose process dies leaves no trace.                                  *)
(*                                                                         *)
(* A client that got no answer may send the same request again, and the    *)
(* broker may deliver the same message again: any session may submit any   *)
(* request at any time, so retries and duplicates need no action of their  *)
(* own.  Snapshots are a module of their own.                              *)
(***************************************************************************)
EXTENDS CapacityDomain, Sequences, FiniteSets, Functions

CONSTANTS
    InvoiceIds,     \* invoices, named by their trimmed id
    ApiSessions,    \* requests the HTTP side serves at the same time
    Consumers,      \* treasury consumers (one, in a single replica)
    Originals,      \* the amounts clients ask to reserve
    ApiReasons,     \* why clients release
    Limits,         \* the limits programs are created with or moved to
    Quotes,         \* what the rate provider may answer, NoQuote included
    Paddings,       \* does a client write an id with blanks around it?
    NoInvoice,      \* the invoice of an event that is about none
    MaxEvents       \* bound: no limit change is delivered past this log length

ASSUME ServiceAssumption ==
    /\ IsFiniteSet(InvoiceIds)
    /\ Originals \subseteq Money
    /\ ApiReasons \subseteq ReleaseReasons
    /\ Limits \subseteq Int
    /\ Quotes \subseteq Nat
    /\ Paddings \subseteq BOOLEAN
    /\ NoInvoice \notin InvoiceIds
    /\ ApiSessions \cap Consumers = {}
    /\ MaxEvents \in Nat

VARIABLES
    program,        \* the row of programs
    holds,          \* the rows of reservations, by invoice
    events,         \* the rows of capacity_events, in id order
    phase,          \* how far each session's transaction has got
    request,        \* what each session was asked to do
    aggregate,      \* the Program each session loaded under the lock
    existing,       \* the Reservation each session found, or none
    answer          \* what each session is about to answer

database == <<program, holds, events>>
session  == <<phase, request, aggregate, existing, answer>>
vars     == <<program, holds, events,
              phase, request, aggregate, existing, answer>>

Sessions == ApiSessions \cup Consumers

(***************************************************************************)
(* What sessions are asked.                                                *)
(***************************************************************************)

CreateRequests  == [kind : {"CREATE"}, limit : Limits]
ReserveRequests == [kind : {"RESERVE"}, invoice : InvoiceIds,
                    padded : Paddings, original : Originals]
ReleaseRequests == [kind : {"RELEASE"}, invoice : InvoiceIds,
                    padded : Paddings, reason : ApiReasons]
ApiRequests     == CreateRequests \cup ReserveRequests \cup ReleaseRequests

LimitMessages  == [kind : {"LIMIT_CHANGED"}, limit : Limits]
RepaidMessages == [kind : {"INVOICE_REPAID"}, invoice : InvoiceIds,
                   padded : Paddings, reason : {"REPAID"}]
TreasuryMessages == LimitMessages \cup RepaidMessages

NoRequest == [kind |-> "NONE"]
Requests  == ApiRequests \cup TreasuryMessages

NoAnswer == [code |-> "NONE", held |-> 0]
Codes == {"NONE", "PROGRAM_CREATED", "DUPLICATE_PROGRAM",
          "INVALID_CREDIT_LIMIT", "PROGRAM_NOT_FOUND",
          "CREATED", "REPLAYED", "DUPLICATE_INVOICE", "INVALID_AMOUNT",
          "FX_RATE_NOT_FOUND", "INVALID_RESERVATION",
          "INSUFFICIENT_CAPACITY", "RELEASED", "NOTHING_HELD", "LIMIT_SET"}

Phases == {"idle", "waiting", "locked", "loaded", "answering"}

(* Mutant: in autocommit the lock is gone as its statement ends. *)
InTransactionForOneStatement(s) == phase[s] = "locked"

(* Holding the row lock: from SELECT ... FOR UPDATE to commit or rollback. *)
InTransaction(s) == phase[s] \in {"locked", "loaded"}

Asked(s, kinds) == request[s].kind \in kinds

-----------------------------------------------------------------------------

Entries == [type      : EventTypes,
            invoice   : InvoiceIds \cup {NoInvoice},
            delta     : Int,
            resulting : Int]

TypeOK ==
    /\ program   \in Program
    /\ holds     \in [InvoiceIds -> Reservation]
    /\ events    \in Seq(Entries)
    /\ phase     \in [Sessions -> Phases]
    /\ request   \in [Sessions -> Requests \cup {NoRequest}]
    /\ aggregate \in [Sessions -> Program]
    /\ existing  \in [Sessions -> Reservation]
    /\ answer    \in [Sessions -> [code : Codes, held : Int]]

Init ==
    /\ program   = NoProgram
    /\ holds     = [i \in InvoiceIds |-> NoReservation]
    /\ events    = <<>>
    /\ phase     = [s \in Sessions |-> "idle"]
    /\ request   = [s \in Sessions |-> NoRequest]
    /\ aggregate = [s \in Sessions |-> NoProgram]
    /\ existing  = [s \in Sessions |-> NoReservation]
    /\ answer    = [s \in Sessions |-> NoAnswer]

(***************************************************************************)
(* Requests arrive.                                                        *)
(***************************************************************************)

Submit(s, req) ==
    /\ phase[s] = "idle"
    /\ phase'   = [phase EXCEPT ![s] = "waiting"]
    /\ request' = [request EXCEPT ![s] = req]
    /\ UNCHANGED <<program, holds, events, aggregate, existing, answer>>

Serve(s) == \E req \in ApiRequests : Submit(s, req)

Deliver(s) ==
    \/ \E msg \in RepaidMessages : Submit(s, msg)
    \/ \E msg \in LimitMessages : Len(events) < MaxEvents /\ Submit(s, msg)

(***************************************************************************)
(* The transaction: the lock, the reads, and how it ends.                  *)
(***************************************************************************)

(* Mutant: the row is read without FOR UPDATE. *)
LockProgramUnlocked(s) ==
    /\ phase[s] = "waiting"
    /\ ~Asked(s, {"CREATE"})
    /\ program.exists
    /\ phase'     = [phase EXCEPT ![s] = "locked"]
    /\ aggregate' = [aggregate EXCEPT ![s] = program]
    /\ UNCHANGED <<program, holds, events, request, existing, answer>>

(* findForCapacityChange: waits for the row lock, then reads the row.      *)
LockProgram(s) ==
    /\ phase[s] = "waiting"
    /\ ~Asked(s, {"CREATE"})
    /\ program.exists
    /\ \A t \in Sessions : ~InTransaction(t)
    /\ phase'     = [phase EXCEPT ![s] = "locked"]
    /\ aggregate' = [aggregate EXCEPT ![s] = program]
    /\ UNCHANGED <<program, holds, events, request, existing, answer>>

(* findForInvoice looks the id up exactly as it was written; the stored    *)
(* ids are trimmed, so a padded one is never found.                        *)
FindInvoice(s) ==
    /\ phase[s] = "locked"
    /\ Asked(s, {"RESERVE", "RELEASE", "INVOICE_REPAID"})
    /\ phase'    = [phase EXCEPT ![s] = "loaded"]
    /\ existing' = [existing EXCEPT ![s] =
                        IF request[s].padded THEN NoReservation
                                             ELSE holds[request[s].invoice]]
    /\ UNCHANGED <<program, holds, events, request, aggregate, answer>>

(* The transaction is over: the lock is free and the answer on its way.    *)
Finish(s, code, held) ==
    /\ phase'     = [phase EXCEPT ![s] = "answering"]
    /\ answer'    = [answer EXCEPT ![s] = [code |-> code, held |-> held]]
    /\ aggregate' = [aggregate EXCEPT ![s] = NoProgram]
    /\ existing'  = [existing EXCEPT ![s] = NoReservation]
    /\ UNCHANGED request

(* Mutant: a refused transaction is left open, with the lock it holds. *)
EndLeavingLock(s, code, held) ==
    /\ answer' = [answer EXCEPT ![s] = [code |-> code, held |-> held]]
    /\ UNCHANGED <<program, holds, events, phase, request, aggregate, existing>>

(* A refusal, or an outcome with nothing to write. *)
EndWithoutChange(s, code, held) ==
    /\ Finish(s, code, held)
    /\ UNCHANGED database

(* Mutant: the delta is applied with the wrong sign. *)
CommitHoldNegated(s, invoice, reservation, type, delta) ==
    LET total == aggregate[s].reserved - delta
    IN  /\ program' = [program EXCEPT !.reserved = total]
        /\ holds'   = [holds EXCEPT ![invoice] = reservation]
        /\ events'  = Append(events, Event(type, invoice, delta, total))

(* Mutant: the audit entry states the total before the change. *)
CommitHoldLoggingBefore(s, invoice, reservation, type, delta) ==
    /\ program' = [program EXCEPT !.reserved = aggregate[s].reserved + delta]
    /\ holds'   = [holds EXCEPT ![invoice] = reservation]
    /\ events'  = Append(events, Event(type, invoice, delta,
                                      aggregate[s].reserved))

(* The flush writes the column the aggregate moved, from the value loaded. *)
CommitHold(s, invoice, reservation, type, delta) ==
    LET total == aggregate[s].reserved + delta
    IN  /\ program' = [program EXCEPT !.reserved = total]
        /\ holds'   = [holds EXCEPT ![invoice] = reservation]
        /\ events'  = Append(events, Event(type, invoice, delta, total))

(* The client has its answer, or will never get it. *)
Respond(s) ==
    /\ phase[s] = "answering"
    /\ phase'   = [phase EXCEPT ![s] = "idle"]
    /\ request' = [request EXCEPT ![s] = NoRequest]
    /\ answer'  = [answer EXCEPT ![s] = NoAnswer]
    /\ UNCHANGED <<program, holds, events, aggregate, existing>>

(* The process or its connection dies before commit: Postgres rolls back.  *)
Abort(s) ==
    /\ phase[s] \in {"waiting", "locked", "loaded"}
    /\ phase'     = [phase EXCEPT ![s] = "idle"]
    /\ request'   = [request EXCEPT ![s] = NoRequest]
    /\ aggregate' = [aggregate EXCEPT ![s] = NoProgram]
    /\ existing'  = [existing EXCEPT ![s] = NoReservation]
    /\ UNCHANGED <<program, holds, events, answer>>

(***************************************************************************)
(* The use cases.                                                          *)
(***************************************************************************)

(* Mutant: creating a program again overwrites its row. *)
CreateProgramAgain(s) ==
    /\ phase[s] = "waiting"
    /\ Asked(s, {"CREATE"})
    /\ request[s].limit >= 0
    /\ program' = NewProgram(request[s].limit)
    /\ Finish(s, "PROGRAM_CREATED", 0)
    /\ UNCHANGED <<holds, events>>

(* CreateProgramUseCase: no lock to take, the primary key decides.         *)
CreateProgram(s) ==
    /\ phase[s] = "waiting"
    /\ Asked(s, {"CREATE"})
    /\ \/ /\ request[s].limit < 0
          /\ EndWithoutChange(s, "INVALID_CREDIT_LIMIT", 0)
       \/ /\ request[s].limit >= 0
          /\ program.exists
          /\ EndWithoutChange(s, "DUPLICATE_PROGRAM", 0)
       \/ /\ request[s].limit >= 0
          /\ ~program.exists
          /\ program' = NewProgram(request[s].limit)
          /\ Finish(s, "PROGRAM_CREATED", 0)
          /\ UNCHANGED <<holds, events>>

(* SELECT ... FOR UPDATE found no row, so there was nothing to lock.       *)
ProgramMissing(s) ==
    /\ phase[s] = "waiting"
    /\ ~Asked(s, {"CREATE"})
    /\ ~program.exists
    /\ EndWithoutChange(s, "PROGRAM_NOT_FOUND", 0)

Verdict(s, quote) ==
    ReserveVerdict(aggregate[s], existing[s], request[s].original, quote)

(* ReserveInvoiceUseCase, accepted: the insert can still meet the key.     *)
ReserveInvoice(s) ==
    /\ phase[s] = "loaded"
    /\ Asked(s, {"RESERVE"})
    /\ \E quote \in Quotes :
          LET invoice == request[s].invoice
              held    == Converted(request[s].original, quote)
          IN  /\ Verdict(s, quote) = "CREATED"
              /\ \/ /\ holds[invoice].status = "NONE"
                    /\ CommitHold(s, invoice,
                                  OpenHold(Conversion(request[s].original, quote)),
                                  "RESERVED", held)
                    /\ Finish(s, "CREATED", held)
                 \/ /\ holds[invoice].status # "NONE"
                    /\ EndWithoutChange(s, "DUPLICATE_INVOICE", 0)

(* ReserveInvoiceUseCase, refused or replayed: nothing to write.           *)
ReserveWithoutChange(s) ==
    /\ phase[s] = "loaded"
    /\ Asked(s, {"RESERVE"})
    /\ \E quote \in Quotes :
          /\ Verdict(s, quote) # "CREATED"
          /\ EndWithoutChange(s, Verdict(s, quote),
                              IF Verdict(s, quote) = "REPLAYED"
                              THEN existing[s].held ELSE 0)

(* ReleaseReservationUseCase, and ApplyInvoiceRepaid after it: frees what  *)
(* is outstanding, once.  A counter too low for it would be refused with   *)
(* CapacityInvariantError; ReleaseIsNeverRefused says it never is.         *)
ReleaseReservation(s) ==
    /\ phase[s] = "loaded"
    /\ Asked(s, {"RELEASE", "INVOICE_REPAID"})
    /\ LET r     == existing[s]
           freed == Outstanding(r)
       IN  \/ /\ r.status = "NONE"
              /\ EndWithoutChange(s, "NOTHING_HELD", 0)
           \/ /\ r.status # "NONE"
              /\ IsReleased(r)
              /\ EndWithoutChange(s, "RELEASED", r.held)
           \/ /\ r.status # "NONE"
              /\ ~IsReleased(r)
              /\ aggregate[s].reserved - freed >= 0
              /\ CommitHold(s, request[s].invoice,
                            Release(r, request[s].reason),
                            "RELEASED", -freed)
              /\ Finish(s, "RELEASED", r.held)

(* ApplyLimitChangeUseCase: sets the limit and leaves reserved alone.      *)
ChangeCreditLimit(s) ==
    /\ phase[s] = "locked"
    /\ Asked(s, {"LIMIT_CHANGED"})
    /\ LET limit == request[s].limit
       IN  \/ /\ limit < 0
              /\ EndWithoutChange(s, "INVALID_CREDIT_LIMIT", 0)
           \/ /\ limit = aggregate[s].limit
              /\ EndWithoutChange(s, "LIMIT_SET", 0)
           \/ /\ limit >= 0
              /\ limit # aggregate[s].limit
              /\ program' = [program EXCEPT !.limit = limit]
              /\ events'  = Append(events, Event("LIMIT_CHANGED", NoInvoice, 0,
                                                 aggregate[s].reserved))
              /\ Finish(s, "LIMIT_SET", 0)
              /\ UNCHANGED holds

-----------------------------------------------------------------------------

Transact(s) ==
    \/ LockProgram(s)
    \/ FindInvoice(s)
    \/ CreateProgram(s)
    \/ ProgramMissing(s)
    \/ ReserveInvoice(s)
    \/ ReserveWithoutChange(s)
    \/ ReleaseReservation(s)
    \/ ChangeCreditLimit(s)
    \/ Respond(s)

Next ==
    \/ \E s \in ApiSessions : Serve(s)
    \/ \E s \in Consumers   : Deliver(s)
    \/ \E s \in Sessions    : Transact(s) \/ Abort(s)

Spec == Init /\ [][Next]_vars

(* A transaction that holds the lock runs on, and Postgres grants the row  *)
(* lock to its waiters in turn, so a waiter that is offered it again and   *)
(* again gets it.                                                          *)
Fairness ==
    /\ \A s \in Sessions : WF_vars(Transact(s))
    /\ \A s \in Sessions : SF_vars(LockProgram(s))

FairSpec == Spec /\ Fairness

-----------------------------------------------------------------------------
(***************************************************************************)
(* Properties.                                                             *)
(***************************************************************************)

(* The stored counter is never anything but the sum of what the rows hold: *)
(* concurrent transactions lose no update and count none twice.            *)
CounterIsSumOfHolds ==
    program.reserved =
        SumFunctionOnSet([i \in InvoiceIds |-> Outstanding(holds[i])],
                         InvoiceIds)

(* Each entry of the audit log starts from the total the one before left,  *)
(* and the last one leaves the stored counter.  By telescoping, the        *)
(* counter is the sum of all deltas: sumDeltas over capacity_events.       *)
TotalBefore(n) == IF n = 1 THEN 0 ELSE events[n - 1].resulting

LogAccountsForCounter ==
    /\ \A n \in 1..Len(events) :
          events[n].resulting = TotalBefore(n) + events[n].delta
    /\ program.reserved = TotalBefore(Len(events) + 1)

(* The log tells each invoice's whole story, once: nothing for an invoice  *)
(* never held, one RESERVED for an active hold, and after it one RELEASED  *)
(* of exactly the same amount for a released one.                          *)
EntriesOf(i) == {n \in DOMAIN events : events[n].invoice = i}

Records(n, type, delta) == events[n].type = type /\ events[n].delta = delta

LogExplainsHolds ==
    \A i \in InvoiceIds :
        LET r   == holds[i]
            log == EntriesOf(i)
        IN  CASE r.status = "NONE"     -> log = {}
              [] r.status = "ACTIVE"   ->
                    \E n \in log : log = {n} /\ Records(n, "RESERVED", r.held)
              [] r.status = "RELEASED" ->
                    \E m, n \in log : /\ log = {m, n} /\ m < n
                                      /\ Records(m, "RESERVED", r.held)
                                      /\ Records(n, "RELEASED", -r.held)

(* A transaction between its lock and its commit decides on the committed  *)
(* row, never on a copy that another transaction has since made stale.     *)
LockKeepsReadsFresh ==
    \A s \in Sessions :
        InTransaction(s) =>
            /\ aggregate[s] = program
            /\ phase[s] = "loaded" =>
                  existing[s] = IF request[s].padded THEN NoReservation
                                ELSE holds[request[s].invoice]

(* Every stored reservation can be loaded again, or no later request on it *)
(* could ever be decided; an invoice without a row carries nothing.        *)
RowsAreLoadable ==
    \A i \in InvoiceIds :
        IF holds[i].status = "NONE" THEN holds[i] = NoReservation
                                    ELSE Loadable(holds[i])

(* CapacityInvariantError is unreachable: a release that is about to be    *)
(* decided never asks for more than the counter has.                       *)
ReleaseIsNeverRefused ==
    \A s \in Sessions :
        phase[s] = "loaded" /\ Asked(s, {"RELEASE", "INVOICE_REPAID"}) =>
            aggregate[s].reserved >= Outstanding(existing[s])

(* The hold covers its invoice at the rate that is stored with it, and by  *)
(* less than one unit more, whatever rates were quoted between a request   *)
(* and its retry: the evidence explains the hold (PLAN 2.3), and a client  *)
(* cannot finance an invoice for less than it comes to.                    *)
HoldsCoverInvoices ==
    \A i \in InvoiceIds :
        LET r    == holds[i]
            cost == Numerator(r.original.minor, r.rate)
        IN  r.status # "NONE" =>
                IF r.original.currency = "home" THEN r.held = r.original.minor
                ELSE /\ cost <= r.held * Denominator
                     /\ r.held * Denominator < cost + Denominator

(* A positive answer stays true: the hold it names exists for the amount   *)
(* the client asked for, and holds what the answer said, whatever rates    *)
(* are quoted later and whoever else asks.                                 *)
AnswersAreKept ==
    \A s \in Sessions :
        answer[s].code \in {"CREATED", "REPLAYED"} =>
            /\ holds[request[s].invoice].status # "NONE"
            /\ holds[request[s].invoice].original = request[s].original
            /\ holds[request[s].invoice].held = answer[s].held

(* "identical replay -> 200": a reserve for the amount that an active hold *)
(* was opened with is answered with that hold, whatever has happened to    *)
(* the limit and the rates since: never with a conflict or a refusal.      *)
IdenticalRetryIsReplayed ==
    [][\A s \in Sessions :
          LET r == holds[request[s].invoice]
          IN  /\ phase[s] # "answering" /\ phase'[s] = "answering"
              /\ Asked(s, {"RESERVE"})
              /\ r.status = "ACTIVE"
              /\ r.original = request[s].original
              => answer'[s] = [code |-> "REPLAYED", held |-> r.held]]_vars

(* No interleaving oversells: a step that takes capacity leaves the total  *)
(* within the limit that stands at that moment.                            *)
NeverOversold ==
    [][program'.reserved > program.reserved =>
          program'.reserved <= program'.limit]_vars

(* A hold's amounts are frozen once it is taken, its release keeps them,   *)
(* and a released hold never changes again: the first reason stays.        *)
HoldsOnlyEnd ==
    [][\A i \in InvoiceIds :
          holds[i].status # "NONE" /\ holds'[i] # holds[i] =>
              /\ holds[i].status = "ACTIVE"
              /\ \E reason \in ReleaseReasons :
                    holds'[i] = Release(holds[i], reason)]_vars

(* Whatever else is going on, a session that waits for the lock is served, *)
(* unless its own process or connection dies first.                        *)
WaitersAreServed ==
    \A s \in Sessions :
        phase[s] = "waiting" ~> phase[s] \in {"answering", "idle"}

(* The service implements the ledger it promises.                          *)
LedgerState(r) ==
    [state  |-> CASE r.status = "NONE"     -> "free"
                  [] r.status = "ACTIVE"   -> "held"
                  [] r.status = "RELEASED" -> "spent",
     amount |-> r.held]

Ledger == INSTANCE CapacityLedger
            WITH opened <- program.exists,
                 limit  <- program.limit,
                 hold   <- [i \in InvoiceIds |-> LedgerState(holds[i])]

ImplementsLedger == Ledger!Spec

=============================================================================
