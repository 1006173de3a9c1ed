# program-capacity-service in TLA+

The service keeps, for each supplier-financing program, how much of a credit
limit is taken: clients reserve capacity for an invoice and release it, and a
treasury system corrects the picture through Kafka.  This project models what
makes that hard - several transactions on one counter, retries, lost answers,
messages that come late or twice - checks it with TLC on small instances and
proves the core of it with TLAPS for every size.

Paths are relative to the repository's root; `tla/` is this directory.

## The system

| component | state it keeps | operations | talks to | hard part |
|---|---|---|---|---|
| capacity domain (`src/capacity/domain`) | none of its own: `Program` (limit, reserved) and `Reservation` (status, original, held, released, rate) in memory | create, reserve, recordTreasuryHold, release, correctReservation, changeCreditLimit, each returning its audit event | called by the use cases | order of the checks, replay against conflict, the counter against the holds |
| capacity use cases (`src/capacity/application`) | none | reserve, release, create program: lock, read, decide, persist | repositories, FX, domain | interleaving at every `await`; a lost answer |
| persistence (`src/capacity/infrastructure/persistence`) | Postgres: `programs` (with the watermark), `reservations`, `capacity_events`, checks and unique keys | row lock, reads, one flush at commit, paging | the use cases | lost updates, rollback, keys and checks that fail only at the flush |
| treasury messages (`src/treasury-sync/application`) | `treasury_discrepancies`, the watermark | apply a limit change, a repayment, a snapshot | domain, the same tables and lock | late, repeated and reordered messages |
| reconciliation (`src/treasury-sync/domain/reconcile-program.ts`) | none, a pure plan | screen a snapshot, diff it against the holds, order the steps | apply-snapshot | holds in flight while the snapshot was drawn up |
| Kafka consumer (`src/treasury-sync/infrastructure/kafka`) | the committed offset, the dead-letter topic | handle, classify a failure, dead-letter, commit the offset | treasury use cases, broadcaster | crash between two commits, poison messages, a second consumer |
| FX (`src/fx`) | `fx_rates` | look a rate up, convert and round up | reserve, reconciliation | rounding, rates that move or vanish between retries |
| queries, stream, metrics | an in-process subject, gauges | GET capacity and lists, SSE stream, `/metrics` | reads without a lock | torn and reordered reads |
| HTTP edge, auth, configuration | none | validate, authenticate, map errors | everything | none that is stateful |

What makes each component correct:

- **domain and use cases** - the stored counter is the sum of what the
  reservations hold and of what the audit log says; nothing is reserved past
  the limit; an invoice is financed once; a release gives back exactly what was
  held; an answer that promised a hold stays true; an identical retry is a
  replay and not a conflict;
- **persistence** - decisions are made on rows that are still current at
  commit, a failure leaves no trace, whoever waits for the row is served;
- **treasury messages** - sequences only go forward, a hold in flight is never
  flagged or undone by a snapshot that could not have seen it, a discrepancy is
  open exactly while it persists;
- **consumer** - no message is skipped, each is applied or dead-lettered before
  the offset passes it, and a repeated delivery never puts an older limit over a
  newer one;
- **FX** - a hold covers its invoice at the stored rate, by less than one unit
  too much, and that evidence is never restated;
- **stream and listings** - the last figure a watcher is sent is the last one
  committed; a client that pages through the log or the reservations is given
  everything that was there.

`PROJECT.json` lists every component with its files and, under `hazards`, each
place where this code is hard to test.

## Modules

| module | what it is |
|---|---|
| `CapacityDomain` | pure operators: the program, a reservation, the conversion, the verdict on a reserve, an audit entry |
| `CapacityService` | the state machine: sessions that run transactions against the rows of one program |
| `CapacityLedger` | the abstract specification: a limit and what each invoice holds, no counter and no session |
| `Reconciliation` | pure operators: the gates a snapshot has to pass, the diff with what is held, the plan |
| `TreasurySync` | the state machine: one program with its watermark and discrepancies, clients, treasury's messages in any order |
| `TruthfulTreasury` | `TreasurySync` composed with a treasury that tells the truth and the partition between them |
| `KafkaConsumer` | `TreasurySync` composed with the partition, the consumer group and the dead-letter topic, a message at a time and step by step |
| `CapacityStream` | the state machine: commits, notifications, unlocked reads, the streams and the gauge |
| `CapacityFeed` | the abstract specification: what a watcher of a stream is promised |
| `Listings` | the state machine: the audit log and the reservations read page by page while they are written |
| `SumProofs` | lemmas on sums over finite sets |
| `CapacityDomainProofs`, `CapacityServiceProofs`, `TreasurySyncProofs`, `TruthfulTreasuryProofs`, `KafkaConsumerProofs`, `CapacityStreamProofs`, `ListingsProofs` | the theorems |
| `MCCapacityService`, `MCTreasurySync`, `MCTruthfulTreasury`, `MCKafkaConsumer`, `MCCapacityStream`, `MCListings` | the instances TLC checks |

`CapacityService` and `TreasurySync` share `CapacityDomain`, which is
`src/capacity/domain`.  They look at the same tables with different lenses:
the first at the interleaving of transactions, the second at what sequences of
whole transactions do.  `TruthfulTreasury` and `KafkaConsumer` put two different
environments around `TreasurySync`: a treasury that is right, and a delivery
that fails in every way it can.  `CapacityStream` and `Listings` look at the
readers, who take no lock; each keeps of the writers only what a reader can
tell apart.

### CapacityDomain

A program is `[exists, limit, reserved]`, a reservation
`[status, original, held, released, rate, reason]`, both in minor units.
"home" stands for the program's currency and "foreign" for any other.
`ApplyRate` is `applyRate` of `src/fx/convert.ts`: multiply by the scaled rate
and by the difference of the currencies' decimals, divide once, round up.  The
scale (10^12 in the code) and the two exponents are the constants `RateScale`,
`Upscale` and `Downscale`; `ExchangeAssumption` says that they are positive and
that at most one of the exponents differs from 1.  `Conversion` is what a
conversion returns and `OpenHold` what is stored of it, rate included;
`FxEvidence` and `Explains` are the checks of `Reservation.open` and
`rehydrate`.  `NoQuote` is both a pair that the provider does not price and the
missing rate of a hold that needed none.

### CapacityService

One program is enough: every lock, key and total in the code is per program
(and an invoice is unique within its program), so programs do not interact.

| state | in the code |
|---|---|
| `program` | the row of `programs`: exists, limit, reserved |
| `holds` | the rows of `reservations`, at most one per invoice (the unique key) |
| `events` | the rows of `capacity_events`, in id order |
| `phase`, `request` | how far each session has got, and what it was asked |
| `aggregate`, `existing` | the `Program` and `Reservation` objects a session has loaded: copies, which may be stale |
| `answer` | what the session is about to answer |

A session is an HTTP request or the consumer with one message.  Its actions are
the code between two awaits:

| action | code |
|---|---|
| `Serve`, `Deliver` | the controller, the consumer |
| `LockProgram`, `ProgramMissing` | `findForCapacityChange`: `SELECT ... FOR UPDATE`, then the row or `null` |
| `FindInvoice` | `findForInvoice` |
| `ReserveInvoice`, `ReserveWithoutChange` | `ReserveInvoiceUseCase` from there to its commit or rollback |
| `ReleaseReservation` | `ReleaseReservationUseCase`, `ApplyInvoiceRepaidUseCase` |
| `ChangeCreditLimit` | `ApplyLimitChangeUseCase` |
| `CreateProgram` | `CreateProgramUseCase` |
| `Respond` | the answer is sent, or lost |
| `Abort` | the process or connection dies before commit; Postgres rolls back |

The ORM flushes at commit, so deciding and committing are one step: what other
sessions can see changes in that step and in no other.  A client that got no
answer may send its request again, and the broker its message; any session may
submit any request at any time, so retries and duplicates need no action.

`padded` says whether the client wrote blanks around
the invoice id, which the lookup keeps and the domain trims.

### CapacityLedger

What a supplier is promised: `Reserve` only while the sum of what is held
leaves room, each invoice at most once, `Release` gives back all of it.  The
refinement (`ImplementsLedger`) maps `program.exists`, `program.limit` and each
row to the abstract state; the counter, the log and the sessions disappear.
That the *stored counter* is enough to decide what the ledger decides from the
*sum of the holds* is what the refinement shows; the theorem
`ServiceImplementsLedger` shows it for every size.

### Reconciliation

A snapshot is `[sequence, asOf, limit, invoices, fault]`.  `Judgement` says of
one invoice what `reconcileProgram` decides: a step (`RELEASE`, `CORRECT`,
`CREATE`), one of the five discrepancy reasons, or `KEEP`.  It depends on what
the snapshot says of that invoice (`Reported`), on the row as far as
`findForReconciliation` loads it (`Loaded`: active holds, and whatever the
snapshot names) and on `Cutoff`, `asOf` less the clock-skew margin.  The steps
are taken in the order of the code, frees before takings, so the lowest point
of the counter on the way is what the decreases alone leave
(`LowestReserved`).  `Inapplicable` repeats the checks the domain makes when a
step is carried out.

`fault` stands for the gates that only look at the message as text (another
program's name, an unreadable instant, a foreign currency, an invoice without
a name or listed twice, totals that do not add up), and for a message that does
not get as far as the gates because an amount, a currency or a rate in it does
not parse (`UNPARSABLE`; `Parses`); the gates that that compare with
the state (`STALE_SEQUENCE`, `COUNTER_DRIFT`) or with a number are computed.

### TreasurySync

| state | in the code |
|---|---|
| `program`, `holds` | as in `CapacityService` |
| `reservedAt`, `releasedAt` | the instants of `reservations` that the cutoff and a check compare |
| `watermark` | `last_reconciled_at` and the applied sequence in `programs` |
| `discrepancies` | `treasury_discrepancies`: open or resolved, and `first_seen`, by invoice and reason |
| `logged` | the sum of an invoice's deltas in `capacity_events` |
| `now` | what `Clock.now()` returns |

Each use case is one step: every one of them begins with the program's row
lock and commits once, and the theorem `Serialized` says that such
transactions behave like whole steps.  `ApplySnapshot` is
`ApplySnapshotUseCase.execute`; `SnapshotVerdict` says what becomes of a
message: refused by a gate (dead letters), applied, or rolled back because a
field does not parse or the domain refuses (`THROWN`), or the database does
(`CONSTRAINT`), which the consumer takes for transient.  `MaxAmount` is the width of the amount columns: a use
case whose figures do not fit fails at the flush, so a client's call is a
stuttering step then and a snapshot ends in `CONSTRAINT` (`Overflows` lists
what a plan writes, the reported amounts of discrepancies included).

Snapshots are not bound to any order: any of them may come at any time, again
or late, and say anything.

### TruthfulTreasury

What the margin is for only shows against a treasury that is right.  This
module adds treasury's `books`, a `topic` and the consumer's `offset`.
Treasury hears of every hold and release within `Delay` of the service's
clock, may finance invoices nobody reserved for, repays them, and publishes
snapshots of everything it knows; a repaid invoice stays listed as repaid.  Its
clock is `Skew` ahead.  `WithinMargin` (`Delay + Skew <= Margin`) is the
assumption under which a margin can work at all; the code's is a minute.
`Learn`, `Settle` and `Publish` are the environment, modelled from what
`docs/PLAN.md` says the messages mean.  `Deliver` is `onMessage` with its
offset commit; `Redeliver` is the same message after a crash between the
commit of the rows and the commit of the offset; a failure that counts as
transient changes nothing and leaves the offset.

### KafkaConsumer

| state | in the code |
|---|---|
| the variables of `TreasurySync` | the rows |
| `topic`, `committed` | the program's partition and the group's offset in the broker |
| `assigned`, `position` | which member has the partition, and where each member reads |
| `step` | how far each member's `onMessage` has got: `delivered`, `applied`, `rejected`, `lettered` |
| `deadLetters` | the offsets that are in the dead-letter topic |
| `applied`, `overlapped`, `faults` | history: what was committed, whether the partition changed hands in the middle of a message, and how many faults there were |

`Outcome` is what a message meets (`parseMessage`, the dispatch, the domain,
the flush) and `classifyFailure` sorts it; `Effect` is its use case, the action
of `TreasurySync`.  The actions are the code between two awaits of `onMessage`:

| action | code |
|---|---|
| `Publish`, `Assign`, `Crash` | treasury; the group; the process |
| `Deliver` | kafkajs calls `eachMessage` with the message at the member's position |
| `Apply` | the use case commits; the answer may be lost |
| `Reject` | a permanent failure: to be dead-lettered |
| `FailTransiently` | anything else is rethrown and the message comes again |
| `SendToDlq` | the dead letter is sent; the send may fail, or only its answer be lost |
| `CommitOffset`, `LoseCommit`, `FenceCommit` | `commitOffsets`: done, lost with or without effect, refused because the partition has moved |
| `Client` | the API's use cases and the clock, between any two of these |

A member that has lost the partition goes on with the message it is at, which
is what makes `overlapped` interesting.  With all of this around it, the module
still implements `TreasurySync` (`ImplementsTreasurySync`; the mapping is the
identity): two members at one message, or one that dies, never make half a use
case visible.  An envelope that cannot be read, of
whatever kind, is the message `MALFORMED`.

### CapacityStream and CapacityFeed

| state | in the code |
|---|---|
| `program`, `version`, `reconciled` | the row: its figures, how often they changed, and which change made `last_reconciled_at` |
| `step`, `sample` | by handler, how far a request or the consumer is after its commit, and the figures a request has read for the gauge |
| `gauge` | what `capacity_utilization_ratio` was set from |
| `stream` | by watcher, whether its stream is open and how many notifications `concatMap` has queued |
| `reads`, `shown` | by watcher, the read in flight and what it was sent last |
| `untold`, `commits` | history: a change nobody will publish; a bound |

`ReserveInvoice`, `ReleaseReservation`, `ChangeCreditLimit` and `ApplySnapshot`
are commits, with what each does to the figures; their answer may be lost, and
then nothing is published.  `Announce` is `broadcaster.publish`;
`ReadUtilization` and `observeUtilization` are `recordUtilization`;
`FindProgram`, `FindWatermark` and `Send` are one read of
`CapacityQueryService.getCapacity` with its two statements.  A read that a
notification of the consumer starts runs outside a request's context, where the
ORM refuses its global entity manager; it fails then, and the error ends the
stream.  `CloseStream` has that case, and the client that leaves.

`CapacityFeed` promises the watcher figures that the program really had, none
older after a newer.  The refinement (`ImplementsFeed`) maps `shown` to the
version of its figures; the notifications, the reads and the handlers
disappear.

### Listings

| state | in the code |
|---|---|
| `rows`, `events`, `nextId` | committed `reservations` (status, instant), committed `capacity_events` (ids), and the sequence behind those ids, which no rollback resets |
| `lock`, `staged` | who has the program's row, and what each writer has flushed and not committed |
| `tail` | a client that reads the log from the last id it was given |
| `walk` | a client that reads the reservations by `(reservedAt, invoiceId)`, with a status filter or none |
| `behind` | history: rows that came to match behind the cursor of an open walk |

`Flush` takes the lock, draws the ids and stages the rows; `Commit` shows them,
`Rollback` does not.  `findByProgram`, `listByProgram` and `listByProgramAfter`
are one statement each, with the limit + 1 rows that decide whether there is a
next page.  Page sizes vary from page to page.

## Runs

| run | bounds | what it shows |
|---|---|---|
| `contention` | 2 API sessions, the consumer, 2 invoices of 2, limits 3 and 4 | with concurrent reserves, releases, limit changes, repayments, creation and aborts: the counter is the sum of the holds, the log accounts for it, reads under the lock are fresh, a release is never refused, nothing is oversold, and the service implements the ledger |
| `races` | 2 API sessions, the consumer, 1 invoice, amounts -1, 0, 2 and a foreign 10, 4 rates, limits -1, 1, 2, padded ids | the log tells each invoice's story once, rows can be loaded again, holds cover their invoices and only end, answers are kept |
| `retries` | as `races`, one amount of each currency, one rate or none, limits 1 and 2, ids as stored, fair | an identical retry of an active hold is answered with that hold, never with a conflict or a refusal; a waiting session is served |
| `padded_retry` | 1 session, padded ids | a violation: see Findings |
| `snapshots` | 2 invoices, amounts 1, 2 (foreign) and one past the column, sequences 0 and 1, as of 0 and 2, clock 0 to 1, margin 1, limits -1, 1 and 2, columns to 3 | whatever snapshots say and in whatever order they come: counter, rows and log stay in step, an accepted plan can be carried out, after it rows and snapshot agree or the difference is in flight or disputed (and nothing else is), an invoice that is not mentioned keeps its hold, and a correction leaves the invoice's own amount and rate alone |
| `reopened` | 1 invoice, sequences 0 to 2 | a violation: see Findings |
| `truthful` | 1 invoice, 3 messages, clock 0 to 3, delay 1, skew 1, margin 2 | no discrepancy is ever recorded against a truthful treasury; every message gets through, except one that would free a hold taken after its `asOf` |
| `stalled` | 1 invoice, 1 message, no delay, no skew | a violation: see Findings |
| `delivery` | 2 members, 2 messages out of 8, 2 faults, 1 invoice | the offset passes nothing that was neither applied nor dead-lettered; while the partition does not change hands in the middle of a message, the newest applied limit wins although limit changes carry no sequence, and when it does, only a member that has lost the partition can bring an older one back (`OnlyTheOustedGoBack`); an applied message joins the dead letters at most once per fault; the rows go through whole use cases only (`ImplementsTreasurySync`); once faults are over, only a refusal of the domain or of the database holds the partition up |
| `stream` | 2 requests, the consumer, 1 watcher, 3 commits, limits 1 and 2 | figures on a stream are ones the program had, in their order; a stream with nothing to do shows the committed row unless somebody has yet to publish, or never will; a watcher catches up |
| `gauge` | as `stream`, without watchers | a violation: see Findings |
| `paging` | 2 writers, 3 invoices, pages of 1 and 2, clock 0 to 1, ids to 4 | a client that tails the log is given every event; a walk lists no row twice, and what it does not list came to match behind its cursor |

Why these bounds are enough.  The interactions are pairwise: a transaction
holds the only lock, and what it can meet is one other transaction before its
lock and one after.  Three sessions give every order of two plus a third that
changes the limit or dies.  Two invoices are the least with which capacity can
run out between two reserves; the limits are chosen so that both fit (4) and
only one fits (3), so a limit change moves the program across the line in both
directions and leaves it over-utilised.  One invoice is enough for the life of
a hold, and leaves room for every kind of amount and rate.  `MaxEvents` stops
the consumer from delivering limit changes once the log has that many entries;
reserves and releases are bounded by the invoices, because each is financed
once.  `Interchangeable` permutes invoices and API sessions, which no
definition tells apart; the fair run uses no symmetry.  The scale of a rate is
2, the foreign currency has one decimal more (`Downscale` 10), and 10 of its
units at rates 1, 3 and 4 come to a half, one and a half and two of ours: a
conversion that rounds, one that is exact, and one that rounds up to the limit.
The treasury runs have it the other way round (`Upscale` 10).

For snapshots, one invoice is judged by itself, and two are the least for which
the counter is a sum, an invoice is left out while another is named, and one
step frees while another takes.  The service's clock stops at 1 and snapshots
are as of 0 or 2, so with a margin of 1 a hold can be after `asOf`, within the
margin and before the cutoff; a snapshot of a later sequence may carry an
earlier instant.  A faulty entry (nothing outstanding, more than the columns
hold, no rate, a rate that does not reproduce the amount) comes alone in its
snapshot and as of 0, which the sound ones before and after it combine with.  One empty snapshot does
not parse; otherwise `fault` is `NONE`, since a snapshot refused for its text
changes nothing.  In `truthful`, three messages are enough
for a repayment between two snapshots; time 3 lets a hold age past the margin.
The amount treasury lists (2) is not the one reserved (1), so corrections occur.

For the delivery, two messages are the least with which one can be skipped or
overtake the other, and two faults let a message come again while the partition
changes hands.  The messages are two snapshots and a third that does not parse,
a limit, two limits that cannot be applied (negative, too large for the
column), a repayment and one that cannot be read; the program may be created before, between or after them.

For the stream, three commits are enough for a publication while a read is
between its two statements and one more behind it; two requests and the
consumer give two publishers that overlap.  A watcher does not see the others,
so one is enough.  For the listings, three rows give pages with a next page and
without, a tie in the instant at a page's end, and a row behind the cursor; the
sequence stops at 4, after which only reading and what has been flushed go on.

Each property has a mutant of the code (a dropped lock, a wrong sign, a missing
early return ...) under which the same run finds it violated.

### Fairness

`WaitersAreServed` needs two assumptions, both stated in `Fairness`.  A session
that can take its next step takes it: a request's promise chain runs on, or its
connection dies and Postgres rolls it back (`Abort`, which is never required).
And a waiter for the row lock is not passed over for ever: Postgres queues row
lock waiters, so `LockProgram` has strong fairness.  No fairness is assumed of
clients or of treasury.

`OnlyLateHoldsStall` and `PartitionMoves` assume (`TFairness`) that the clock
runs, news reaches treasury, invoices are settled in the end and the consumer
tries again what it left (kafkajs restarts a consumer whose handler threw, and
the broker has the offset).  Each is weak fairness.  Nothing is assumed of
clients, of crashes (`Redeliver`) or of when treasury publishes.

`OnlyRefusalsStall` assumes (`FairDeliverySpec`) that the group gives a free
partition to a member (`Rejoin`) and that a member whose handler can go on does
(`onMessage`), both weak.  Faults need no fairness: there are `MaxFaults` of
them, which is what "once faults are over" means.

`WatchersCatchUp` assumes (`FairSpec` of `CapacityStream`) that a handler that
has committed publishes, which no await separates from the answer, and that a
read of a stream is answered.  Nothing is assumed of the gauge, of transactions
or of watchers.

## Proofs

Every theorem holds for any sets of sessions, members, watchers, writers,
amounts, limits, rates, snapshots and messages, any finite set of invoices, and
any page sizes, margins and column widths.  What is assumed of the constants is
named where they are declared: `ExchangeAssumption` (scale and exponents are
positive, one exponent at most differs from 1), `ServiceAssumption` and
`MarginAssumption` (invoices are finitely many, which a table is),
`ColumnAssumption`, `InputAssumption` (requests and snapshots are of their
types), `DeliveryAssumption`, `MessageAssumption` and `TreasuryAssumption` (what
a topic carries are messages that `TreasurySync` has a use case for),
`WithinMargin`, `StreamAssumption` and `ListingAssumption`.

### SumProofs

The counter is compared with a sum over the invoices, which the community
modules define as a fold that takes a chosen element away at each step.  The
induction theorems of the library take an operator, which the provers cannot
instantiate, so `SubsetsByRemoval` states induction over a finite set with a
*set* of subsets in its place; it comes from the well-foundedness of the subset
order, of which a smallest counterexample would be an instance.  From it:
`SumWithout` (whichever element is taken first), `SumOfSame`, `SumAfterUpdate`
(one index changes), `SumOfPlus`, `SumIsMonotone` and `SumOfPart` (what adds
nothing may be left out).

### CapacityDomainProofs

Lemmas on the operators: what a conversion, a hold and a verdict are.
`Ceiling` says that rounding up as `applyRate` does never comes short of the
quotient and never exceeds it by a whole unit; `OpeningCovers` carries that to
the hold that a reserve opens.

### CapacityServiceProofs

1. `TypeCorrect`: the types, by one step per action.
2. `ReadsStayFresh`: `LockKeepsReadsFresh` is not inductive as it stands;
   `LockHeldOnce` adds that at most one session is between lock and commit,
   that the program exists then, and what a session that has read a reservation
   was asked.  `EndKeepsLock` covers every way a transaction ends.
3. `Serialized`: with fresh reads each step is `DatabaseStep`, one whole use
   case on the committed rows.  What follows is proved of `DatabaseStep` and
   never looks at a session again.
4. `RowsStayLoadable`, `NoOversell`, `HoldsEndOnce`, `LogIsComplete`
   (strengthened with: a program that does not exist has nothing reserved), and
   `InvoicesAreCovered`: a hold is opened by a conversion, so `Ceiling` bounds
   it, and nothing changes it afterwards but its release.
5. `PromisesAreKept`: `AnswerInv` adds that nothing is answered before the
   transaction ends and that only a reserve is promised a hold.
6. `NoUpdateIsLost`: a committed use case changes one row and moves the counter
   by what that row's outstanding amount moves (`BooksKeepCounter`, with
   `SumAfterUpdate`).  Needs loadable rows (what a release frees is what the row
   holds) and that a program without a row has nothing reserved.
   `ReleasesAreAccepted` is its consequence: one hold is at most the sum of all.
7. `ServiceImplementsLedger`: `CommittedIsCounter` turns the sum in the ledger's
   guards into the stored counter that `HasCapacityFor` compares; `LedgerStep`
   maps each `DatabaseStep` to one action of the ledger or a stutter.
8. `LogTellsTheStory`: `LogExplainsHolds` is inductive with loadable rows.
   `Story` says it of one invoice, and an entry leaves the others' stories alone
   (`LogGrows`).
9. `RetriesAreReplayed`: under `Paddings \subseteq {FALSE}` the lookup finds the
   row a request means, so a retry gets to `RetryVerdict` with the fresh row.
   Without that hypothesis the statement is false (`padded_retry`).

### TreasurySyncProofs

1. `JudgementMeaning` and `PlannedRow` read off the diff what each judgement
   rests on and what the plan makes of the row; `ApplyMeaning` does the same of
   the gates and checks that an applied snapshot has passed.
2. `RowInv` is the types, `EmptySlots` (an invoice without a row has nothing
   held or logged), `RowsAreLoadable` and `LogAccountsForHolds`.  None of the
   last three is inductive alone: a release frees what the row holds, which is
   positive only where the row can be loaded, and the log of a hold that is
   created starts from nothing only where the slot was empty.  `RowOK` says
   the same of one row, so that a step is looked at row by row (`RowStep`).
   `TypeCorrect`, `RowsStayLoadable` and `LogExplainsRows` follow.
3. `EvidenceStays` and `SilenceIsNoEvidence`, from `PlannedRow`.
4. `SnapshotsAreSettled`: `OpenAreDisputed` says that exactly the disputed keys
   are open after the upserts, and `AgreeStep` goes through what a snapshot may
   report against what the row may be.
5. `CounterNeverDrifts`: `BooksInv` is `RowInv`, `CounterIsSumOfHolds` and that
   nothing is reserved before the program exists.  A
   plan changes any number of rows at once: the sum after it is the sum before
   plus the sum of the `Deltas` (`SumOfPlus`), which is how `projectReserved`
   arrives at the counter that the plan will leave.
6. `PlansCanBeCarriedOut`: the lowest point of the counter is what the
   decreases leave, each at most what its row holds, so never below zero
   (`CounterStaysAboveZero`, from 5, `SumOfPlus` and `SumOfAmounts`); and the
   checks that the domain repeats were made by the gates and the diff
   (`ScreenMeaning`, `CreatedIsExplained`, `PlannedIsAmount`).

### TruthfulTreasuryProofs

1. `TruthfulIsUseCases`: whatever treasury sends is a snapshot `TreasurySync`
   takes (`SentIsTruthful`, `DrawnIsTruthful`), so every step is one of its use
   cases or a stutter, and its theorems hold here.
2. `MarginIsEnough`.  That no discrepancy is recorded says nothing of the
   messages under way, so `TruthfulInv` has three more parts.  `KnowledgeGrows`:
   what a sent snapshot mentions treasury still knows, and so does each later
   one.  `NewsIsFresh`: a hold or release treasury has not heard of is at most
   `Delay` old, because the clock waits for what is overdue.  `MarginCovers`:
   of every snapshot that may still be handled, also a second time, a hold it
   leaves out, or a release it does not know of, is not before its cutoff.  The
   last is established when the snapshot is drawn up, from `NewsIsFresh` and
   `WithinMargin`, and it stays: a later hold has a later instant, and an
   earlier snapshot that creates or frees a hold with its own, older `asOf`
   does so only for an invoice that the later one mentions as well.  With it
   the diff disputes nothing (`NothingDisputed`).
3. `OnlyLateHoldsAreRefused`: a truthful snapshot whose verdict is transient has
   met a hold taken after its `asOf`, or columns too narrow for its figures.
   `PlansCanBeCarriedOut` rules the domain's checks out, and `NoFalseAlarm` the
   one on an earlier discrepancy.  It is the safety half of `OnlyLateHoldsStall`.

### KafkaConsumerProofs

1. `DeliveryTypeCorrect`, for any rows: the proof never looks into them.
2. `NoMessageIsSkipped`: `SkipInv` adds that a member about to commit an offset
   has had its message applied or dead-lettered (`DoneBeforeCommit`) and that
   whoever has the partition reads at most at the committed offset
   (`ReadsFromCommitted`), so that a commit moves it by one at most.
3. `NewestMessageDecides`: everything applied, and every other member, lies at
   or below the member that has the partition (`HolderLeads`), and while nothing
   has overlapped only that member is at a message (`InTurn`); `LimitInv` then
   has the newest applied message that states a limit agree with the row,
   through redeliveries of that same message.
4. `HolderTakesNothingBack`: `HolderLeads` does not need `InTurn`, so with
   overlaps too the member that has the partition never takes the limit back.
5. `FalseDeadLettersTakeFaults` counts a set against a counter.  `Suspects` are
   the false dead letters there are and the messages that may become one: those
   that have been handled and are tried again, or that two members are at.  It
   takes a crash, a lost answer, a lost commit or a rebalance to get there:
   `SuspectStep` shows that a step adds no suspect, or one and a fault.
   `NextIsFresh` says that the message a commit moves on to is not among them.
6. `DeliveryIsUseCases`: a member's `Apply` is the use case of its message, by
   `MessageAssumption`, and no other step of the consumer touches a row (that the
   members at a message have one, `AtMessages`, comes with the types).
   `BooksSurviveDelivery` carries the theorems of `TreasurySyncProofs` over: they
   hold through crashes, redeliveries and rebalances.

### CapacityStreamProofs

1. `StreamTypeCorrect`; a stream has at most the notifications it was sent.
2. `RestingStreamsAreCurrent`: `FreshInv` adds that where no notification is
   left and none is owed, the read under way is of the row as it is, or there
   is none and the row is what was sent.
3. `StreamImplementsFeed`: `OrderInv` has at most one read in flight, of figures
   no older than those shown; every step is one of `CapacityFeed` or a stutter.

### ListingsProofs

`ListingInv` is the types, both listing invariants, `StagedInOrder` (one writer
has something staged, with ids above every committed one, which is what the
lock buys) and `WalkInOrder` (rows up to the cursor are listed or behind, rows
after it are not listed).  That a page of a finite set has a last row, which
its cursor is, needs an argument by well-foundedness of the subset order in
place of an induction.  `NoEventIsSkipped`, `NoRowIsListedTwice` and
`OnlyLateRowsAreMissed` follow.

### Only model-checked

Every safety property of the passing runs is a theorem.  What is left to TLC are
the liveness properties - `WaitersAreServed`, `OnlyLateHoldsStall`,
`OnlyRefusalsStall` and `WatchersCatchUp` - which depend on fairness and so on
ENABLED, out of the reach of TLAPS; and the properties that are false, each with
the run that refutes it (`IdenticalRetryIsReplayed` for padded ids,
`OpensWithItsSnapshot`, `PartitionMoves`, `GaugeIsCurrent`).  What the operators
of `CapacityDomain` compute is proved of their definitions; none is recursive.

## Findings

* **A padded invoice id breaks the replay** (`padded_retry`).
  `ReserveInvoiceUseCase` looks the invoice up by the id as it was written;
  the reservation stores it trimmed.  The same request sent twice with a blank
  before the id is refused the second time, although the README promises
  "identical replay" a `200` and `program.spec.ts` tests that the domain
  recognises it.  The unique key keeps the invoice from being financed twice,
  so the counter stays right.
* **A discrepancy that comes back keeps its old `first_seen`** (`reopened`).
  The upsert never moves `first_seen`, also when the row it finds was resolved.
  `docs/PLAN.md` (2.2, step 7) has it set whenever the key was not open, and
  the mapping calls `firstSeen` and `resolvedAt` the window the discrepancy has
  been open.
* **A hold taken after `asOf` can stall the partition** (`stalled`).  A release
  that a snapshot orders is stamped with `asOf`; if the hold was reserved after
  it, the check `released_at >= reserved_at` fails at the flush.  That error is
  not in `classifyFailure`'s permanent set, so the message is redelivered for
  ever and everything behind it waits, although `onMessage` promises that one
  message cannot stall the partition.  `OnlyLateHoldsStall` shows it is the
  only way a truthful treasury can do so.  Other messages break the same
  promise in the same way, and `StandsAtRefusal` names them: an amount that its
  column cannot hold, a negative limit, an amount, a currency or a rate that
  does not parse (`docs/PLAN.md:274-277` sends a `DomainError` to the dead
  letters; the code, and `README.md:145-147`, have it tried again).
* **The gauge shows a utilization that is not the program's** (`gauge`).  Only
  requests set `capacity_utilization_ratio`, from figures they read before; what
  the consumer commits in between, or afterwards, is not seen until the next
  request.  The metric's help text says "Reserved over credit limit, per
  program. Above 1 means over-utilised", which only treasury can bring about.

Observed, without a statement in the repository that it contradicts:

* a limit change carries no sequence, so one that a member applies after it has
  lost the partition overrides what its successor has applied: this is why
  `TopicDecidesTheLimit` is about `~overlapped`; `OnlyTheOustedGoBack` has no
  such condition and says that nobody else does so;
* a snapshot that was applied, and whose offset commit was lost, is refused as
  stale when it comes again and joins the dead letters
  (`FalseDeadLettersAreFew` bounds how often);
* a message for a program that does not exist is dead-lettered; where its
  offset commit is lost it may come again after the program was created, and
  be applied as well;
* a `GET` of the capacity may pair old figures with a newer
  `lastReconciledAt` (`src/capacity/application/capacity-query.service.ts:47-53`);
  on a stream the pair does not stay (`StaleOnlyWhileOwed`);
* a read for a stream that fails closes it, also one that the consumer has
  triggered outside a request's context, so its watcher has to connect again
  (`WatchersCatchUp` is about open streams);
* a walk over the reservations misses a hold that a snapshot stamps with an
  `asOf` behind the cursor, and a walk over the released ones a hold that is
  released there (`WalksMissOnlyLateRows` says that nothing else is missed).

## Plan

What was planned is written: `CapacityService` with its ledger, `TreasurySync`
with `TruthfulTreasury`, `KafkaConsumer`, `CapacityStream` with its feed,
`Listings`, the conversion, and the proofs above.  What could follow:

1. An abstract specification of the whole reconciliation: treasury's last
   applied word, with the holds in flight and the disputes as the difference.
2. That `CapacityService` implements the use cases of `TreasurySync`, for the
   part of the state they share, which `Serialized` argues for but does not
   state as a refinement.

## Not modelled

* **HTTP edge** - validation, problem details, health: stateless; what it lets
  through is the set of requests that `CapacityService` enumerates.
* **Authentication and ownership** - checks of one request against its token
  and one immutable column.
* **Configuration, database wiring, seeds and migrations** - outside the
  running service.
* **Text** - decimal parsing and formatting of amounts and rates, currency
  tables, how a column's text becomes a value object, a rate's source and
  instant, the dead letter's envelope, log lines, the gap log, and the counters
  of requests and messages: they feed nothing back.
* **More than one program** - locks, keys, totals, watermarks and the
  partition key are per program.
