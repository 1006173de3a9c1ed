----------------------- MODULE CapacityServiceProofs -----------------------
(***************************************************************************)
(* Theorems about CapacityService, for any invoices, sessions, amounts,    *)
(* limits and rates.                                                       *)
(***************************************************************************)
EXTENDS CapacityService, CapacityDomainProofs, SumProofs

-----------------------------------------------------------------------------
(* A request says which fields it has by its kind. *)
LEMMA RequestShape ==
    ASSUME NEW q \in Requests \cup {NoRequest}
    PROVE  /\ q.kind \in {"CREATE", "LIMIT_CHANGED"} => q.limit \in Int
           /\ q.kind \in {"RESERVE", "RELEASE", "INVOICE_REPAID"} =>
                 q.invoice \in InvoiceIds /\ q.padded \in BOOLEAN
           /\ q.kind = "RESERVE" => q.original \in Money
           /\ q.kind \in {"RELEASE", "INVOICE_REPAID"} =>
                 q.reason \in ReleaseReasons
<1> USE DEF ServiceAssumption, ReleaseReasons
<1>1. CASE q \in CreateRequests
  BY <1>1, ServiceAssumption DEF CreateRequests
<1>2. CASE q \in ReserveRequests
  BY <1>2, ServiceAssumption DEF ReserveRequests
<1>3. CASE q \in ReleaseRequests
  BY <1>3, ServiceAssumption DEF ReleaseRequests
<1>4. CASE q \in LimitMessages
  BY <1>4, ServiceAssumption DEF LimitMessages
<1>5. CASE q \in RepaidMessages
  BY <1>5, ServiceAssumption DEF RepaidMessages
<1>6. CASE q = NoRequest
  BY <1>6 DEF NoRequest
<1> QED BY <1>1, <1>2, <1>3, <1>4, <1>5, <1>6
        DEF Requests, ApiRequests, TreasuryMessages

-----------------------------------------------------------------------------
(* Type correctness. *)

(* Every variable keeps its type; in particular neither the stored counter *)
(* nor the limit is ever negative, whatever is asked.                      *)
LEMMA TypeStep ==
    ASSUME TypeOK, [Next]_vars
    PROVE  TypeOK'
<1> USE DEF TypeOK
<1>1. ASSUME NEW s \in Sessions, NEW req \in Requests, Submit(s, req)
      PROVE  TypeOK'
  BY <1>1 DEF Submit, Phases
<1>2. ASSUME NEW s \in ApiSessions, Serve(s)
      PROVE  TypeOK'
  BY <1>1, <1>2 DEF Serve, Sessions, Requests
<1>3. ASSUME NEW s \in Consumers, Deliver(s)
      PROVE  TypeOK'
  BY <1>1, <1>3 DEF Deliver, Sessions, Requests, TreasuryMessages
<1>4. ASSUME NEW s \in Sessions, NEW code \in Codes, NEW held \in Int,
             Finish(s, code, held)
      PROVE  /\ phase' \in [Sessions -> Phases]
             /\ request' \in [Sessions -> Requests \cup {NoRequest}]
             /\ aggregate' \in [Sessions -> Program]
             /\ existing' \in [Sessions -> Reservation]
             /\ answer' \in [Sessions -> [code : Codes, held : Int]]
  BY <1>4, HoldTypes DEF Finish, Phases, NoProgram, Program
<1>5. ASSUME NEW s \in Sessions, NEW code \in Codes, NEW held \in Int,
             EndWithoutChange(s, code, held)
      PROVE  TypeOK'
  BY <1>4, <1>5 DEF EndWithoutChange, database
<1>6. ASSUME NEW s \in Sessions, NEW invoice \in InvoiceIds,
             NEW r \in Reservation, NEW type \in {"RESERVED", "RELEASED"},
             NEW delta \in Int, aggregate[s].reserved + delta >= 0,
             CommitHold(s, invoice, r, type, delta)
      PROVE  /\ program' \in Program
             /\ holds' \in [InvoiceIds -> Reservation]
             /\ events' \in Seq(Entries)
  <2>1. aggregate[s].reserved + delta \in Nat
    BY <1>6 DEF Program
  <2>2. Event(type, invoice, delta, aggregate[s].reserved + delta) \in Entries
    BY <1>6, <2>1 DEF Event, EventTypes, Entries
  <2>3. program' \in Program /\ holds' \in [InvoiceIds -> Reservation]
    BY <1>6, <2>1 DEF CommitHold, Program
  <2>4. events' = Append(events, Event(type, invoice, delta,
                                       aggregate[s].reserved + delta))
    BY <1>6 DEF CommitHold
  <2> QED BY <2>2, <2>3, <2>4
<1>7. ASSUME NEW s \in Sessions, LockProgram(s)
      PROVE  TypeOK'
  BY <1>7 DEF LockProgram, Phases
<1>8. ASSUME NEW s \in Sessions, FindInvoice(s)
      PROVE  TypeOK'
  <2>1. request[s].invoice \in InvoiceIds
    BY <1>8, RequestShape DEF FindInvoice, Asked
  <2> QED BY <1>8, <2>1, HoldTypes DEF FindInvoice, Phases
<1>9. ASSUME NEW s \in Sessions, CreateProgram(s)
      PROVE  TypeOK'
  <2>1. request[s].limit \in Int
    BY <1>9, RequestShape DEF CreateProgram, Asked
  <2>2. ASSUME request[s].limit >= 0, program' = NewProgram(request[s].limit)
        PROVE  program' \in Program
    BY <2>1, <2>2 DEF NewProgram, Program
  <2>3. {"INVALID_CREDIT_LIMIT", "DUPLICATE_PROGRAM", "PROGRAM_CREATED"} \subseteq Codes
    BY DEF Codes
  <2>4. CASE UNCHANGED database
    BY <1>9, <1>5, <2>3, <1>4, <2>4 DEF CreateProgram, database
  <2>5. CASE /\ request[s].limit >= 0
             /\ program' = NewProgram(request[s].limit)
             /\ Finish(s, "PROGRAM_CREATED", 0)
             /\ UNCHANGED <<holds, events>>
    BY <2>5, <2>2, <2>3, <1>4
  <2> QED BY <1>9, <2>4, <2>5 DEF CreateProgram, EndWithoutChange
<1>10. ASSUME NEW s \in Sessions, ProgramMissing(s)
       PROVE  TypeOK'
  <2> HIDE DEF TypeOK
  <2>1. "PROGRAM_NOT_FOUND" \in Codes
    BY DEF Codes
  <2> QED BY <1>5, <1>10, <2>1 DEF ProgramMissing
<1>11. ASSUME NEW s \in Sessions, ReserveInvoice(s)
       PROVE  TypeOK'
  <2>1. PICK quote \in Quotes :
           LET invoice == request[s].invoice
               held    == Converted(request[s].original, quote)
           IN  /\ Verdict(s, quote) = "CREATED"
               /\ \/ /\ CommitHold(s, invoice,
                                   OpenHold(Conversion(request[s].original, quote)),
                                   "RESERVED", held)
                     /\ Finish(s, "CREATED", held)
                  \/ EndWithoutChange(s, "DUPLICATE_INVOICE", 0)
    BY <1>11 DEF ReserveInvoice
  <2> DEFINE held == Converted(request[s].original, quote)
  <2>2. quote \in Nat /\ request[s].original \in Money
           /\ request[s].invoice \in InvoiceIds
    BY <1>11, RequestShape, ServiceAssumption
       DEF ReserveInvoice, Asked, ServiceAssumption
  <2>3. held \in Int
    BY <2>2, ConvertedType
  <2>4. held > 0
    BY <2>1, <2>2, VerdictMeaning DEF Verdict, Holdable
  <2>5. OpenHold(Conversion(request[s].original, quote)) \in Reservation
    BY <2>2, ConvertedType
  <2>6. CASE EndWithoutChange(s, "DUPLICATE_INVOICE", 0)
    <3> HIDE DEF TypeOK
    <3>1. "DUPLICATE_INVOICE" \in Codes
      BY DEF Codes
    <3> QED BY <1>5, <2>6, <3>1
  <2>7. CASE /\ CommitHold(s, request[s].invoice,
                           OpenHold(Conversion(request[s].original, quote)), "RESERVED", held)
             /\ Finish(s, "CREATED", held)
    <3>1. aggregate[s].reserved + held >= 0
      BY <2>3, <2>4 DEF Program
    <3>2. "CREATED" \in Codes
      BY DEF Codes
    <3> HIDE DEF held
    <3> QED BY <1>4, <1>6, <2>2, <2>3, <2>5, <2>7, <3>1, <3>2
  <2> QED BY <2>1, <2>6, <2>7
<1>12. ASSUME NEW s \in Sessions, ReserveWithoutChange(s)
       PROVE  TypeOK'
  <2>1. PICK quote \in Quotes :
           EndWithoutChange(s, Verdict(s, quote),
                            IF Verdict(s, quote) = "REPLAYED"
                            THEN existing[s].held ELSE 0)
    BY <1>12 DEF ReserveWithoutChange
  <2>2. quote \in Nat /\ request[s].original \in Money
    BY <1>12, RequestShape, ServiceAssumption
       DEF ReserveWithoutChange, Asked, ServiceAssumption
  <2>3. Verdict(s, quote) \in Codes
    BY <2>2, VerdictMeaning DEF Verdict, Verdicts, Codes
  <2>4. existing[s].held \in Int
    BY HoldTypes
  <2> HIDE DEF TypeOK
  <2> QED BY <1>5, <2>1, <2>3, <2>4
<1>13. ASSUME NEW s \in Sessions, ReleaseReservation(s)
       PROVE  TypeOK'
  <2>1. /\ request[s].invoice \in InvoiceIds
        /\ request[s].reason \in ReleaseReasons
    BY <1>13, RequestShape DEF ReleaseReservation, Asked
  <2>2. /\ existing[s].held \in Int
        /\ Outstanding(existing[s]) \in Int
        /\ Release(existing[s], request[s].reason) \in Reservation
    BY <2>1, HoldTypes
  <2>3. {"NOTHING_HELD", "RELEASED"} \subseteq Codes
    BY DEF Codes
  <2>4. CASE EndWithoutChange(s, "NOTHING_HELD", 0)
    <3> HIDE DEF TypeOK
    <3> QED BY <1>5, <2>3, <2>4
  <2>5. CASE EndWithoutChange(s, "RELEASED", existing[s].held)
    BY <1>5, <2>2, <2>3, <2>5
  <2>6. CASE /\ aggregate[s].reserved - Outstanding(existing[s]) >= 0
             /\ CommitHold(s, request[s].invoice,
                           Release(existing[s], request[s].reason),
                           "RELEASED", -Outstanding(existing[s]))
             /\ Finish(s, "RELEASED", existing[s].held)
    <3>1. -Outstanding(existing[s]) \in Int
      BY <2>2
    <3>2. aggregate[s].reserved + (-Outstanding(existing[s])) >= 0
      BY <2>2, <2>6 DEF Program
    <3> QED BY <1>4, <1>6, <2>1, <2>2, <2>3, <2>6, <3>1, <3>2
  <2> QED BY <1>13, <2>4, <2>5, <2>6 DEF ReleaseReservation
<1>14. ASSUME NEW s \in Sessions, ChangeCreditLimit(s)
       PROVE  TypeOK'
  <2>1. request[s].limit \in Int
    BY <1>14, RequestShape DEF ChangeCreditLimit, Asked
  <2>2. {"INVALID_CREDIT_LIMIT", "LIMIT_SET"} \subseteq Codes
    BY DEF Codes
  <2>3. CASE \E code \in {"INVALID_CREDIT_LIMIT", "LIMIT_SET"} :
                EndWithoutChange(s, code, 0)
    <3> HIDE DEF TypeOK
    <3> QED BY <1>5, <2>2, <2>3
  <2>4. CASE /\ request[s].limit >= 0
             /\ program' = [program EXCEPT !.limit = request[s].limit]
             /\ events'  = Append(events, Event("LIMIT_CHANGED", NoInvoice, 0,
                                                aggregate[s].reserved))
             /\ Finish(s, "LIMIT_SET", 0)
             /\ UNCHANGED holds
    <3>1. Event("LIMIT_CHANGED", NoInvoice, 0, aggregate[s].reserved) \in Entries
      BY DEF Event, EventTypes, Entries, Program
    <3>2. events' \in Seq(Entries)
      BY <2>4, <3>1
    <3>3. program' \in Program
      <4>1. \A l \in Nat : [program EXCEPT !.limit = l] \in Program
        BY DEF Program
      <4>2. request[s].limit \in Nat
        BY <2>1, <2>4
      <4> QED BY <2>4, <4>1, <4>2
    <3> QED BY <1>4, <2>2, <2>4, <3>2, <3>3
  <2> QED BY <1>14, <2>3, <2>4 DEF ChangeCreditLimit
<1>15. ASSUME NEW s \in Sessions, Respond(s)
       PROVE  TypeOK'
  BY <1>15 DEF Respond, Phases, NoAnswer, Codes
<1>16. ASSUME NEW s \in Sessions, Abort(s)
       PROVE  TypeOK'
  BY <1>16, HoldTypes DEF Abort, Phases, NoProgram, Program
<1>17. CASE UNCHANGED vars
  BY <1>17 DEF vars
<1> QED
  BY <1>2, <1>3, <1>7, <1>8, <1>9, <1>10, <1>11, <1>12, <1>13, <1>14, <1>15,
     <1>16, <1>17 DEF Next, Transact

THEOREM TypeCorrect == Spec => []TypeOK
<1>1. Init => TypeOK
  BY HoldTypes
     DEF Init, TypeOK, NoProgram, Program, NoAnswer, Codes, Phases
<1> QED BY <1>1, TypeStep, PTL DEF Spec

-----------------------------------------------------------------------------
(* The row lock. *)

(* What makes LockKeepsReadsFresh inductive: one transaction at a time     *)
(* holds the lock, only on a program that exists, and one that has read a  *)
(* reservation was asked about an invoice.                                 *)
LockHeldOnce ==
    /\ \A s, t \in Sessions : InTransaction(s) /\ InTransaction(t) => s = t
    /\ \A s \in Sessions :
          /\ InTransaction(s) => program.exists
          /\ phase[s] = "loaded" =>
                Asked(s, {"RESERVE", "RELEASE", "INVOICE_REPAID"})

LockInv == LockHeldOnce /\ LockKeepsReadsFresh

(* A step that leaves the database alone and ends at most the transaction  *)
(* of its own session keeps the invariant.                                 *)
LEMMA EndKeepsLock ==
    ASSUME TypeOK, LockInv, NEW s \in Sessions, NEW p,
           phase' = [phase EXCEPT ![s] = p], p \notin {"locked", "loaded"},
           \A t \in Sessions \ {s} : /\ request'[t] = request[t]
                                     /\ aggregate'[t] = aggregate[t]
                                     /\ existing'[t] = existing[t],
           \/ UNCHANGED <<program, holds>>
           \/ InTransaction(s) /\ program'.exists = program.exists
           \/ \A t \in Sessions : ~InTransaction(t)
    PROVE  LockInv'
<1>1. ~InTransaction(s)'
  BY DEF InTransaction, TypeOK
<1>2. \A t \in Sessions : InTransaction(t)' =>
          t # s /\ InTransaction(t) /\ phase'[t] = phase[t]
  BY <1>1 DEF InTransaction, TypeOK
<1>3. \A t \in Sessions : InTransaction(t)' => UNCHANGED <<program, holds>>
  BY <1>2 DEF LockInv, LockHeldOnce
<1>4. LockHeldOnce'
  BY <1>2, <1>3 DEF LockInv, LockHeldOnce, InTransaction, Asked
<1>5. LockKeepsReadsFresh'
  BY <1>2, <1>3 DEF LockInv, LockKeepsReadsFresh
<1> QED BY <1>4, <1>5 DEF LockInv

LEMMA LockStep ==
    ASSUME TypeOK, LockInv, [Next]_vars
    PROVE  LockInv'
<1>1. ASSUME NEW s \in Sessions, NEW req, Submit(s, req)
      PROVE  LockInv'
  BY <1>1, EndKeepsLock DEF Submit, TypeOK
<1>2. ASSUME NEW s \in ApiSessions, Serve(s)
      PROVE  LockInv'
  BY <1>1, <1>2 DEF Serve, Sessions
<1>3. ASSUME NEW s \in Consumers, Deliver(s)
      PROVE  LockInv'
  BY <1>1, <1>3 DEF Deliver, Sessions
<1>4. ASSUME NEW s \in Sessions, NEW code, NEW held, Finish(s, code, held)
      PROVE  /\ phase' = [phase EXCEPT ![s] = "answering"]
             /\ \A t \in Sessions \ {s} : /\ request'[t] = request[t]
                                          /\ aggregate'[t] = aggregate[t]
                                          /\ existing'[t] = existing[t]
  BY <1>4 DEF Finish, TypeOK
<1>5. ASSUME NEW s \in Sessions, NEW code, NEW held,
             EndWithoutChange(s, code, held)
      PROVE  LockInv'
  BY <1>4, <1>5, EndKeepsLock DEF EndWithoutChange, database
<1>6. ASSUME NEW s \in Sessions, InTransaction(s),
             NEW code, NEW held, Finish(s, code, held),
             NEW invoice, NEW r, NEW type, NEW delta,
             CommitHold(s, invoice, r, type, delta)
      PROVE  LockInv'
  <2>1. program'.exists = program.exists
    BY <1>6 DEF CommitHold, TypeOK, Program
  <2> QED BY <1>4, <1>6, <2>1, EndKeepsLock
<1>7. ASSUME NEW s \in Sessions, LockProgram(s)
      PROVE  LockInv'
  <2>1. \A t \in Sessions : InTransaction(t)' <=> t = s
    BY <1>7 DEF LockProgram, InTransaction, TypeOK
  <2>2. /\ phase'[s] = "locked"
        /\ aggregate'[s] = program
        /\ program.exists
        /\ UNCHANGED program
    BY <1>7 DEF LockProgram, TypeOK
  <2>3. LockHeldOnce'
    BY <2>1, <2>2 DEF LockHeldOnce, InTransaction
  <2>4. LockKeepsReadsFresh'
    BY <2>1, <2>2 DEF LockKeepsReadsFresh
  <2> QED BY <2>3, <2>4 DEF LockInv
<1>8. ASSUME NEW s \in Sessions, FindInvoice(s)
      PROVE  LockInv'
  <2>1. \A t \in Sessions : InTransaction(t)' <=> t = s
    BY <1>8 DEF FindInvoice, InTransaction, TypeOK, LockInv, LockHeldOnce
  <2>2. /\ InTransaction(s)
        /\ UNCHANGED <<program, holds, request, aggregate>>
        /\ Asked(s, {"RESERVE", "RELEASE", "INVOICE_REPAID"})
        /\ existing'[s] = IF request[s].padded THEN NoReservation
                                               ELSE holds[request[s].invoice]
    BY <1>8 DEF FindInvoice, InTransaction, TypeOK
  <2>3. LockHeldOnce'
    BY <2>1, <2>2 DEF LockInv, LockHeldOnce, InTransaction, Asked
  <2>4. LockKeepsReadsFresh'
    BY <2>1, <2>2 DEF LockInv, LockKeepsReadsFresh
  <2> QED BY <2>3, <2>4 DEF LockInv
<1>9. ASSUME NEW s \in Sessions, CreateProgram(s)
      PROVE  LockInv'
  <2>1. CASE \E code : EndWithoutChange(s, code, 0)
    BY <1>5, <2>1
  <2>2. CASE ~program.exists /\ Finish(s, "PROGRAM_CREATED", 0)
    <3>1. \A t \in Sessions : ~InTransaction(t)
      BY <2>2 DEF LockInv, LockHeldOnce
    <3> QED BY <1>4, <2>2, <3>1, EndKeepsLock
  <2> QED BY <1>9, <2>1, <2>2 DEF CreateProgram
<1>10. ASSUME NEW s \in Sessions, ProgramMissing(s)
       PROVE  LockInv'
  BY <1>5, <1>10 DEF ProgramMissing
<1>11. ASSUME NEW s \in Sessions, ReserveInvoice(s)
       PROVE  LockInv'
  <2>1. InTransaction(s)
    BY <1>11 DEF ReserveInvoice, InTransaction
  <2> QED BY <1>5, <1>6, <1>11, <2>1 DEF ReserveInvoice
<1>12. ASSUME NEW s \in Sessions, ReserveWithoutChange(s)
       PROVE  LockInv'
  BY <1>5, <1>12 DEF ReserveWithoutChange
<1>13. ASSUME NEW s \in Sessions, ReleaseReservation(s)
       PROVE  LockInv'
  <2>1. InTransaction(s)
    BY <1>13 DEF ReleaseReservation, InTransaction
  <2> QED BY <1>5, <1>6, <1>13, <2>1 DEF ReleaseReservation
<1>14. ASSUME NEW s \in Sessions, ChangeCreditLimit(s)
       PROVE  LockInv'
  <2>1. CASE \E code : EndWithoutChange(s, code, 0)
    BY <1>5, <2>1
  <2>2. CASE /\ InTransaction(s)
             /\ program' = [program EXCEPT !.limit = request[s].limit]
             /\ Finish(s, "LIMIT_SET", 0)
    <3>1. program'.exists = program.exists
      BY <2>2 DEF TypeOK, Program
    <3> QED BY <1>4, <2>2, <3>1, EndKeepsLock
  <2> QED BY <1>14, <2>1, <2>2 DEF ChangeCreditLimit, InTransaction
<1>15. ASSUME NEW s \in Sessions, Respond(s)
       PROVE  LockInv'
  BY <1>15, EndKeepsLock DEF Respond, TypeOK
<1>16. ASSUME NEW s \in Sessions, Abort(s)
       PROVE  LockInv'
  <2>1. /\ phase' = [phase EXCEPT ![s] = "idle"]
        /\ \A t \in Sessions \ {s} : /\ request'[t] = request[t]
                                     /\ aggregate'[t] = aggregate[t]
                                     /\ existing'[t] = existing[t]
        /\ UNCHANGED <<program, holds>>
    BY <1>16 DEF Abort, TypeOK
  <2> QED BY <2>1, EndKeepsLock
<1>17. CASE UNCHANGED vars
  <2>1. LockHeldOnce'
    BY <1>17 DEF vars, LockInv, LockHeldOnce, InTransaction, Asked
  <2>2. LockKeepsReadsFresh'
    BY <1>17 DEF vars, LockInv, LockKeepsReadsFresh, InTransaction
  <2> QED BY <2>1, <2>2 DEF LockInv
<1> QED
  BY <1>2, <1>3, <1>7, <1>8, <1>9, <1>10, <1>11, <1>12, <1>13, <1>14, <1>15,
     <1>16, <1>17 DEF Next, Transact

LEMMA LockInvariant == Spec => []LockInv
<1>1. Init => LockInv
  BY DEF Init, LockInv, LockHeldOnce, LockKeepsReadsFresh, InTransaction
<1> QED BY <1>1, LockStep, TypeCorrect, PTL DEF Spec

(* Between its lock and its commit a transaction decides on the committed  *)
(* rows: no other transaction makes what it read stale.                    *)
THEOREM ReadsStayFresh == Spec => []LockKeepsReadsFresh
BY LockInvariant, PTL DEF LockInv

-----------------------------------------------------------------------------
(* Serialization: whatever the interleaving, the database moves by whole   *)
(* use cases, each decided on the rows as they stand.                      *)

CreatesProgram(limit) ==
    /\ ~program.exists
    /\ program' = NewProgram(limit)
    /\ UNCHANGED <<holds, events>>

MovesLimit(limit) ==
    /\ program.exists
    /\ program' = [program EXCEPT !.limit = limit]
    /\ events'  = Append(events, Event("LIMIT_CHANGED", NoInvoice, 0,
                                       program.reserved))
    /\ UNCHANGED holds

Books(invoice, reservation, type, delta) ==
    /\ program' = [program EXCEPT !.reserved = program.reserved + delta]
    /\ holds'   = [holds EXCEPT ![invoice] = reservation]
    /\ events'  = Append(events, Event(type, invoice, delta,
                                       program.reserved + delta))

OpensHold(invoice, original, quote) ==
    /\ program.exists
    /\ holds[invoice].status = "NONE"
    /\ Priceable(original, quote)
    /\ Holdable(original, Converted(original, quote))
    /\ HasCapacityFor(program, Converted(original, quote))
    /\ Books(invoice, OpenHold(Conversion(original, quote)), "RESERVED",
             Converted(original, quote))

EndsHold(invoice, reason) ==
    /\ program.exists
    /\ holds[invoice].status = "ACTIVE"
    /\ program.reserved - Outstanding(holds[invoice]) >= 0
    /\ Books(invoice, Release(holds[invoice], reason), "RELEASED",
             -Outstanding(holds[invoice]))

DatabaseStep ==
    \/ UNCHANGED database
    \/ \E limit \in Nat : CreatesProgram(limit) \/ MovesLimit(limit)
    \/ \E invoice \in InvoiceIds, original \in Money, quote \in Nat :
          OpensHold(invoice, original, quote)
    \/ \E invoice \in InvoiceIds, reason \in ReleaseReasons :
          EndsHold(invoice, reason)

(* A commit books on the rows as they stand, because the copy it decided   *)
(* on is still fresh.                                                      *)
LEMMA CommitBooks ==
    ASSUME TypeOK, LockInv, NEW s \in Sessions, InTransaction(s),
           NEW invoice, NEW r, NEW type, NEW delta,
           CommitHold(s, invoice, r, type, delta)
    PROVE  program.exists /\ Books(invoice, r, type, delta)
<1>1. aggregate[s] = program /\ program.exists
  BY DEF LockInv, LockHeldOnce, LockKeepsReadsFresh
<1> QED BY <1>1 DEF CommitHold, Books

LEMMA StepIsDatabaseStep ==
    ASSUME TypeOK, LockInv, [Next]_vars
    PROVE  DatabaseStep
<1>1. ASSUME NEW s \in Sessions, CreateProgram(s)
      PROVE  DatabaseStep
  <2>1. request[s].limit \in Int
    BY <1>1, RequestShape DEF CreateProgram, Asked, TypeOK
  <2>2. CASE UNCHANGED database
    BY <2>2 DEF DatabaseStep
  <2>3. CASE /\ request[s].limit >= 0
             /\ ~program.exists
             /\ program' = NewProgram(request[s].limit)
             /\ UNCHANGED <<holds, events>>
    <3>1. request[s].limit \in Nat
      BY <2>1, <2>3
    <3> QED BY <2>3, <3>1 DEF DatabaseStep, CreatesProgram
  <2> QED BY <1>1, <2>2, <2>3 DEF CreateProgram, EndWithoutChange
<1>2. ASSUME NEW s \in Sessions, ChangeCreditLimit(s)
      PROVE  DatabaseStep
  <2>1. request[s].limit \in Int
    BY <1>2, RequestShape DEF ChangeCreditLimit, Asked, TypeOK
  <2>2. program.exists /\ aggregate[s] = program
    BY <1>2 DEF ChangeCreditLimit, InTransaction, LockInv, LockHeldOnce,
                LockKeepsReadsFresh
  <2>3. CASE UNCHANGED database
    BY <2>3 DEF DatabaseStep
  <2>4. CASE /\ request[s].limit >= 0
             /\ program' = [program EXCEPT !.limit = request[s].limit]
             /\ events'  = Append(events, Event("LIMIT_CHANGED", NoInvoice, 0,
                                                aggregate[s].reserved))
             /\ UNCHANGED holds
    <3>1. request[s].limit \in Nat
      BY <2>1, <2>4
    <3>2. MovesLimit(request[s].limit)
      BY <2>2, <2>4 DEF MovesLimit
    <3> QED BY <3>1, <3>2 DEF DatabaseStep
  <2> QED BY <1>2, <2>3, <2>4 DEF ChangeCreditLimit, EndWithoutChange
<1>3. ASSUME NEW s \in Sessions, ReserveInvoice(s)
      PROVE  DatabaseStep
  <2>1. PICK quote \in Quotes :
           LET invoice == request[s].invoice
               held    == Converted(request[s].original, quote)
           IN  /\ Verdict(s, quote) = "CREATED"
               /\ \/ /\ holds[invoice].status = "NONE"
                     /\ CommitHold(s, invoice,
                                   OpenHold(Conversion(request[s].original, quote)),
                                   "RESERVED", held)
                  \/ UNCHANGED database
    BY <1>3 DEF ReserveInvoice, EndWithoutChange
  <2> DEFINE invoice  == request[s].invoice
             original == request[s].original
             held     == Converted(original, quote)
  <2>2. quote \in Nat /\ original \in Money /\ invoice \in InvoiceIds
    BY <1>3, RequestShape, ServiceAssumption
       DEF ReserveInvoice, Asked, ServiceAssumption, TypeOK
  <2>3. held \in Int
    BY <2>2, ConvertedType
  <2>4. InTransaction(s) /\ aggregate[s] = program
    BY <1>3 DEF ReserveInvoice, InTransaction, LockInv, LockKeepsReadsFresh
  <2>5. existing[s] \in Reservation
    BY DEF TypeOK
  <2>6. /\ Priceable(original, quote)
        /\ Holdable(original, held) /\ HasCapacityFor(program, held)
    BY <2>1, <2>2, <2>4, <2>5, VerdictMeaning DEF Verdict
  <2>7. CASE UNCHANGED database
    BY <2>7 DEF DatabaseStep
  <2>8. CASE /\ holds[invoice].status = "NONE"
             /\ CommitHold(s, invoice, OpenHold(Conversion(original, quote)),
                           "RESERVED", held)
    <3> HIDE DEF original, invoice
    <3>1. OpensHold(invoice, original, quote)
      BY <2>4, <2>6, <2>8, CommitBooks DEF OpensHold
    <3> QED BY <2>2, <2>3, <3>1 DEF DatabaseStep
  <2> QED BY <2>1, <2>7, <2>8
<1>4. ASSUME NEW s \in Sessions, ReleaseReservation(s)
      PROVE  DatabaseStep
  <2>1. request[s].invoice \in InvoiceIds /\ request[s].reason \in ReleaseReasons
    BY <1>4, RequestShape DEF ReleaseReservation, Asked, TypeOK
  <2>2. /\ InTransaction(s)
        /\ aggregate[s] = program
        /\ existing[s] = IF request[s].padded THEN NoReservation
                                              ELSE holds[request[s].invoice]
    BY <1>4 DEF ReleaseReservation, InTransaction, LockInv, LockKeepsReadsFresh
  <2>3. CASE UNCHANGED database
    BY <2>3 DEF DatabaseStep
  <2>4. CASE /\ existing[s].status # "NONE"
             /\ ~IsReleased(existing[s])
             /\ aggregate[s].reserved - Outstanding(existing[s]) >= 0
             /\ CommitHold(s, request[s].invoice,
                           Release(existing[s], request[s].reason),
                           "RELEASED", -Outstanding(existing[s]))
    <3>1. existing[s] = holds[request[s].invoice]
      BY <2>2, <2>4 DEF NoReservation
    <3>2. holds[request[s].invoice].status = "ACTIVE"
      BY <2>1, <2>4, <3>1 DEF TypeOK, Reservation, IsReleased
    <3>3. EndsHold(request[s].invoice, request[s].reason)
      BY <2>2, <2>4, <3>1, <3>2, CommitBooks DEF EndsHold
    <3> QED BY <2>1, <3>3 DEF DatabaseStep
  <2> QED BY <1>4, <2>3, <2>4 DEF ReleaseReservation, EndWithoutChange
<1>5. CASE UNCHANGED database
  BY <1>5 DEF DatabaseStep
<1>6. ASSUME NEW s \in Sessions,
             \/ LockProgram(s) \/ FindInvoice(s) \/ ProgramMissing(s)
             \/ ReserveWithoutChange(s) \/ Respond(s) \/ Abort(s)
             \/ Serve(s) \/ Deliver(s)
      PROVE  UNCHANGED database
  BY <1>6 DEF LockProgram, FindInvoice, ProgramMissing, ReserveWithoutChange,
              Respond, Abort, Serve, Deliver, Submit, EndWithoutChange, database
<1>7. CASE UNCHANGED vars
  BY <1>5, <1>7 DEF vars, database
<1> QED BY <1>1, <1>2, <1>3, <1>4, <1>5, <1>6, <1>7
        DEF Next, Transact, Sessions

(* Every step of every interleaving is one whole use case applied to the   *)
(* committed rows, or leaves them alone.                                   *)
THEOREM Serialized == Spec => [][DatabaseStep]_vars
BY StepIsDatabaseStep, TypeCorrect, LockInvariant, PTL DEF Spec

-----------------------------------------------------------------------------
(* What follows from the rows alone. *)

LEMMA RowsStep ==
    ASSUME TypeOK, RowsAreLoadable, DatabaseStep
    PROVE  RowsAreLoadable'
<1>1. CASE UNCHANGED holds
  BY <1>1 DEF RowsAreLoadable
<1>2. ASSUME NEW invoice \in InvoiceIds, NEW original \in Money, NEW quote \in Nat,
             OpensHold(invoice, original, quote)
      PROVE  RowsAreLoadable'
  <2>1. Loadable(OpenHold(Conversion(original, quote)))
        /\ OpenHold(Conversion(original, quote)).status # "NONE"
    BY <1>2 DEF OpensHold, OpenHold, Conversion, Loadable, FxEvidence, Holdable,
                Priceable
  <2>2. holds' = [holds EXCEPT ![invoice] = OpenHold(Conversion(original, quote))]
    BY <1>2 DEF OpensHold, Books
  <2> QED BY <2>1, <2>2 DEF RowsAreLoadable, TypeOK
<1>3. ASSUME NEW invoice \in InvoiceIds, NEW reason \in ReleaseReasons,
             EndsHold(invoice, reason)
      PROVE  RowsAreLoadable'
  <2>1. Loadable(holds[invoice]) /\ holds[invoice] \in Reservation
    BY <1>3 DEF RowsAreLoadable, EndsHold, TypeOK
  <2>2. Loadable(Release(holds[invoice], reason))
        /\ Release(holds[invoice], reason).status # "NONE"
    BY <1>3, <2>1 DEF EndsHold, Release, IsReleased, Loadable, Reservation,
                      ReleaseReasons
  <2>3. holds' = [holds EXCEPT ![invoice] = Release(holds[invoice], reason)]
    BY <1>3 DEF EndsHold, Books
  <2> QED BY <2>2, <2>3 DEF RowsAreLoadable, TypeOK
<1> QED BY <1>1, <1>2, <1>3
        DEF DatabaseStep, database, CreatesProgram, MovesLimit

(* Every stored reservation can be loaded again by Reservation.rehydrate.  *)
THEOREM RowsStayLoadable == Spec => []RowsAreLoadable
<1>1. Init => RowsAreLoadable
  BY DEF Init, RowsAreLoadable, NoReservation
<1> QED BY <1>1, RowsStep, StepIsDatabaseStep, TypeCorrect, LockInvariant, PTL
        DEF Spec

(* No use case leaves a hold that does not cover its invoice. *)
LEMMA CoverStep ==
    ASSUME TypeOK, HoldsCoverInvoices, DatabaseStep
    PROVE  HoldsCoverInvoices'
<1>1. \A i \in InvoiceIds : holds[i].status # "NONE" => Covers(holds[i])
  BY DEF HoldsCoverInvoices, Covers
<1>2. ASSUME NEW i \in InvoiceIds, holds'[i].status # "NONE"
      PROVE  Covers(holds'[i])
  <2>1. CASE UNCHANGED holds
    BY <1>1, <1>2, <2>1
  <2>2. ASSUME NEW invoice \in InvoiceIds, NEW original \in Money,
               NEW quote \in Nat, OpensHold(invoice, original, quote)
        PROVE  Covers(holds'[i])
    <3>1. holds' = [holds EXCEPT ![invoice] = OpenHold(Conversion(original, quote))]
      BY <2>2 DEF OpensHold, Books
    <3> QED BY <1>1, <1>2, <3>1, OpeningCovers DEF TypeOK
  <2>3. ASSUME NEW invoice \in InvoiceIds, NEW reason \in ReleaseReasons,
               EndsHold(invoice, reason)
        PROVE  Covers(holds'[i])
    <3>1. holds' = [holds EXCEPT ![invoice] = Release(holds[invoice], reason)]
      BY <2>3 DEF EndsHold, Books
    <3>2. CASE i # invoice
      BY <1>1, <1>2, <3>1, <3>2 DEF TypeOK
    <3>3. CASE i = invoice
      <4>1. holds[i].status = "ACTIVE" /\ holds[i] \in Reservation
        BY <2>3, <3>3 DEF EndsHold, TypeOK
      <4>2. /\ holds'[i].original = holds[i].original
            /\ holds'[i].rate = holds[i].rate
            /\ holds'[i].held = holds[i].held
        BY <3>1, <3>3, <4>1 DEF Release, IsReleased, Reservation, TypeOK
      <4>3. Covers(holds[i])
        BY <1>1, <4>1
      <4> QED BY <4>2, <4>3 DEF Covers
    <3> QED BY <3>2, <3>3
  <2> QED BY <2>1, <2>2, <2>3
          DEF DatabaseStep, database, CreatesProgram, MovesLimit
<1> QED BY <1>2 DEF HoldsCoverInvoices, Covers

(* Every hold covers its invoice at the stored rate, and by less than one  *)
(* unit too much, for every scale, exponent and quote.                     *)
THEOREM InvoicesAreCovered == Spec => []HoldsCoverInvoices
<1>1. Init => HoldsCoverInvoices
  BY DEF Init, HoldsCoverInvoices, NoReservation
<1> QED BY <1>1, CoverStep, StepIsDatabaseStep, TypeCorrect, LockInvariant, PTL
        DEF Spec

LEMMA NeverOversoldStep ==
    ASSUME TypeOK, RowsAreLoadable, DatabaseStep,
           program'.reserved > program.reserved
    PROVE  program'.reserved <= program'.limit
<1>0. program.reserved \in Nat /\ program.limit \in Nat
  BY DEF TypeOK, Program
<1>1. ASSUME NEW limit \in Nat, CreatesProgram(limit) \/ MovesLimit(limit)
      PROVE  FALSE
  <2>1. CASE CreatesProgram(limit)
    BY <1>0, <2>1 DEF CreatesProgram, NewProgram
  <2>2. CASE MovesLimit(limit)
    <3>1. program'.reserved = program.reserved
      BY <2>2 DEF MovesLimit, TypeOK, Program
    <3> QED BY <1>0, <3>1
  <2> QED BY <1>1, <2>1, <2>2
<1>2. ASSUME NEW invoice \in InvoiceIds, NEW original \in Money, NEW quote \in Nat,
             OpensHold(invoice, original, quote)
      PROVE  program'.reserved <= program'.limit
  <2> DEFINE held == Converted(original, quote)
  <2>1. held \in Int
    BY ConvertedType
  <2>2. /\ HasCapacityFor(program, held)
        /\ program' = [program EXCEPT !.reserved = program.reserved + held]
    BY <1>2 DEF OpensHold, Books
  <2> HIDE DEF held
  <2>3. /\ program'.reserved = program.reserved + held
        /\ program'.limit = program.limit
    BY <2>2 DEF TypeOK, Program
  <2> QED BY <1>0, <2>1, <2>2, <2>3 DEF HasCapacityFor, Available
<1>3. ASSUME NEW invoice \in InvoiceIds, NEW reason \in ReleaseReasons,
             EndsHold(invoice, reason)
      PROVE  FALSE
  <2>1. program'.reserved = program.reserved + (-Outstanding(holds[invoice]))
    BY <1>3 DEF EndsHold, Books, TypeOK, Program
  <2>2. Loadable(holds[invoice]) /\ holds[invoice] \in Reservation
    BY <1>3 DEF RowsAreLoadable, EndsHold, TypeOK
  <2>3. Outstanding(holds[invoice]) \in Int /\ Outstanding(holds[invoice]) > 0
    BY <1>3, <2>2 DEF EndsHold, Loadable, Outstanding, Reservation
  <2> QED BY <1>0, <2>1, <2>3
<1>4. CASE UNCHANGED database
  BY <1>0, <1>4 DEF database
<1> QED BY <1>1, <1>2, <1>3, <1>4 DEF DatabaseStep

(* No interleaving of any number of sessions takes the total past the      *)
(* limit that stands at that moment.                                       *)
THEOREM NoOversell == Spec => NeverOversold
<1>1. ASSUME TypeOK, LockInv, RowsAreLoadable, [Next]_vars
      PROVE  [program'.reserved > program.reserved =>
                 program'.reserved <= program'.limit]_vars
  BY <1>1, NeverOversoldStep, StepIsDatabaseStep
<1> QED BY <1>1, RowsStayLoadable, TypeCorrect, LockInvariant, PTL
        DEF Spec, NeverOversold

LEMMA HoldsOnlyEndStep ==
    ASSUME TypeOK, DatabaseStep, NEW i \in InvoiceIds,
           holds[i].status # "NONE", holds'[i] # holds[i]
    PROVE  /\ holds[i].status = "ACTIVE"
           /\ \E reason \in ReleaseReasons : holds'[i] = Release(holds[i], reason)
<1>1. ASSUME NEW invoice \in InvoiceIds, NEW original \in Money, NEW quote \in Nat,
             OpensHold(invoice, original, quote)
      PROVE  FALSE
  BY <1>1 DEF OpensHold, Books, TypeOK
<1>2. ASSUME NEW invoice \in InvoiceIds, NEW reason \in ReleaseReasons,
             EndsHold(invoice, reason)
      PROVE  i = invoice
  BY <1>2 DEF EndsHold, Books, TypeOK
<1>3. PICK reason \in ReleaseReasons : EndsHold(i, reason)
  BY <1>1, <1>2 DEF DatabaseStep, database, CreatesProgram, MovesLimit
<1> QED BY <1>3 DEF EndsHold, Books, TypeOK

(* A hold's amounts are frozen, it ends once, and its end is final.        *)
THEOREM HoldsEndOnce == Spec => HoldsOnlyEnd
<1>1. ASSUME TypeOK, LockInv, [Next]_vars
      PROVE  [\A i \in InvoiceIds :
                 holds[i].status # "NONE" /\ holds'[i] # holds[i] =>
                     /\ holds[i].status = "ACTIVE"
                     /\ \E reason \in ReleaseReasons :
                           holds'[i] = Release(holds[i], reason)]_vars
  BY <1>1, HoldsOnlyEndStep, StepIsDatabaseStep
<1> QED BY <1>1, TypeCorrect, LockInvariant, PTL DEF Spec, HoldsOnlyEnd

-----------------------------------------------------------------------------
(* The audit log. *)

(* A program that does not exist yet has nothing reserved. *)
LogInv ==
    /\ LogAccountsForCounter
    /\ ~program.exists => program.reserved = 0

(* Appending one entry that starts from the counter and leaves it at its   *)
(* total keeps the chain unbroken.                                         *)
LEMMA ChainGrows ==
    ASSUME TypeOK, LogAccountsForCounter, NEW entry \in Entries,
           events' = Append(events, entry),
           entry.resulting = program.reserved + entry.delta,
           program'.reserved = entry.resulting
    PROVE  LogAccountsForCounter'
<1>1. /\ Len(events) \in Nat
      /\ Len(events') = Len(events) + 1
      /\ events'[Len(events) + 1] = entry
      /\ \A n \in 1..Len(events) : events'[n] = events[n]
  BY DEF TypeOK
<1>2. \A n \in 1..(Len(events) + 1) : TotalBefore(n)' = TotalBefore(n)
  BY <1>1 DEF TotalBefore
<1>3. program.reserved = TotalBefore(Len(events) + 1)
  BY DEF LogAccountsForCounter
<1>4. ASSUME NEW n \in 1..Len(events')
      PROVE  events'[n].resulting = TotalBefore(n)' + events'[n].delta
  <2>1. CASE n \in 1..Len(events)
    BY <1>1, <1>2, <2>1 DEF LogAccountsForCounter
  <2>2. CASE n = Len(events) + 1
    BY <1>1, <1>2, <1>3, <2>2
  <2> QED BY <1>1, <2>1, <2>2
<1>5. (program.reserved = TotalBefore(Len(events) + 1))'
  BY <1>1 DEF TotalBefore
<1> QED BY <1>1, <1>4, <1>5 DEF LogAccountsForCounter

LEMMA LogStep ==
    ASSUME TypeOK, LogInv, DatabaseStep
    PROVE  LogInv'
<1>0. program.reserved \in Nat
  BY DEF TypeOK, Program
<1>1. ASSUME NEW limit \in Nat, CreatesProgram(limit)
      PROVE  LogInv'
  <2>1. UNCHANGED events /\ program'.reserved = 0 /\ program.reserved = 0
    BY <1>1 DEF CreatesProgram, NewProgram, LogInv
  <2> QED BY <2>1 DEF LogInv, LogAccountsForCounter, TotalBefore
<1>2. ASSUME NEW limit \in Nat, MovesLimit(limit)
      PROVE  LogInv'
  <2> DEFINE entry == Event("LIMIT_CHANGED", NoInvoice, 0, program.reserved)
  <2>1. /\ entry \in Entries
        /\ entry.resulting = program.reserved + entry.delta
        /\ program'.reserved = entry.resulting
        /\ program'.exists
        /\ events' = Append(events, entry)
    BY <1>0, <1>2
       DEF MovesLimit, Event, Entries, EventTypes, TypeOK, Program
  <2> HIDE DEF entry
  <2> QED BY <2>1, ChainGrows DEF LogInv
<1>3. ASSUME NEW invoice \in InvoiceIds, NEW r, NEW type \in EventTypes,
             NEW delta \in Int, program.exists, Books(invoice, r, type, delta)
      PROVE  LogInv'
  <2> DEFINE entry == Event(type, invoice, delta, program.reserved + delta)
  <2>1. /\ entry \in Entries
        /\ entry.resulting = program.reserved + entry.delta
        /\ program'.reserved = entry.resulting
        /\ program'.exists
        /\ events' = Append(events, entry)
    BY <1>0, <1>3 DEF Books, Event, Entries, TypeOK, Program
  <2> HIDE DEF entry
  <2> QED BY <2>1, ChainGrows DEF LogInv
<1>4. ASSUME NEW invoice \in InvoiceIds, NEW original \in Money, NEW quote \in Nat,
             OpensHold(invoice, original, quote)
      PROVE  LogInv'
  BY <1>3, <1>4, ConvertedType DEF OpensHold, EventTypes
<1>5. ASSUME NEW invoice \in InvoiceIds, NEW reason \in ReleaseReasons,
             EndsHold(invoice, reason)
      PROVE  LogInv'
  <2>1. Outstanding(holds[invoice]) \in Int
    BY HoldTypes DEF TypeOK
  <2>2. -Outstanding(holds[invoice]) \in Int /\ "RELEASED" \in EventTypes
    BY <2>1 DEF EventTypes
  <2> QED BY <1>3, <1>5, <2>2 DEF EndsHold
<1>6. CASE UNCHANGED database
  BY <1>6 DEF database, LogInv, LogAccountsForCounter, TotalBefore
<1> QED BY <1>1, <1>2, <1>4, <1>5, <1>6 DEF DatabaseStep

(* The audit log is an unbroken chain from zero to the stored counter.     *)
THEOREM LogIsComplete == Spec => []LogAccountsForCounter
<1>1. Init => LogInv
  BY DEF Init, LogInv, LogAccountsForCounter, TotalBefore, NoProgram
<1>2. LogInv => LogAccountsForCounter
  BY DEF LogInv
<1> QED BY <1>1, <1>2, LogStep, StepIsDatabaseStep, TypeCorrect, LockInvariant,
           PTL DEF Spec

-----------------------------------------------------------------------------
(* The answers. *)

(* Nothing is answered before the transaction is over, and only a request  *)
(* to reserve is promised a hold.                                          *)
Promised(s) == answer[s].code \in {"CREATED", "REPLAYED"}

Kept(s) ==
    /\ holds[request[s].invoice].status # "NONE"
    /\ holds[request[s].invoice].original = request[s].original
    /\ holds[request[s].invoice].held = answer[s].held

AnswerInv ==
    \A s \in Sessions :
        /\ phase[s] # "answering" => answer[s] = NoAnswer
        /\ Promised(s) => Asked(s, {"RESERVE"}) /\ Kept(s)

(* What an answer says stays true of rows that are only opened and ended.  *)
LEMMA PromiseHolds ==
    ASSUME TypeOK, DatabaseStep, NEW i \in InvoiceIds, holds[i].status # "NONE"
    PROVE  /\ holds'[i].status # "NONE"
           /\ holds'[i].original = holds[i].original
           /\ holds'[i].held = holds[i].held
<1>1. CASE holds'[i] = holds[i]
  BY <1>1
<1>2. CASE holds'[i] # holds[i]
  <2>1. PICK reason \in ReleaseReasons : holds'[i] = Release(holds[i], reason)
    BY <1>2, HoldsOnlyEndStep
  <2>2. holds[i] \in Reservation
    BY DEF TypeOK
  <2>3. holds[i].status = "ACTIVE"
    BY <1>2, HoldsOnlyEndStep
  <2>4. holds'[i] = [holds[i] EXCEPT !.status   = "RELEASED",
                                     !.released = holds[i].held,
                                     !.reason   = reason]
    BY <2>1, <2>3 DEF Release, IsReleased
  <2> QED BY <2>2, <2>4 DEF Reservation
<1> QED BY <1>1, <1>2

(* The answer of a session that does nothing in a step is kept by it.      *)
LEMMA OthersKeepAnswers ==
    ASSUME TypeOK, AnswerInv, DatabaseStep, NEW t \in Sessions,
           request'[t] = request[t], answer'[t] = answer[t]
    PROVE  Promised(t)' => (Asked(t, {"RESERVE"}) /\ Kept(t))'
<1> SUFFICES ASSUME Promised(t)
             PROVE  (Asked(t, {"RESERVE"}) /\ Kept(t))'
  BY DEF Promised
<1>1. Asked(t, {"RESERVE"}) /\ Kept(t)
  BY DEF AnswerInv
<1>2. request[t].invoice \in InvoiceIds
  BY <1>1, RequestShape DEF Asked, TypeOK
<1> QED BY <1>1, <1>2, PromiseHolds DEF Asked, Kept

LEMMA AnswerStep ==
    ASSUME TypeOK, LockInv, AnswerInv, [Next]_vars
    PROVE  AnswerInv'
<1>1. DatabaseStep
  BY StepIsDatabaseStep
<1>2. ASSUME NEW s \in Sessions,
             /\ phase'[s] # "answering" => answer'[s] = NoAnswer
             /\ Promised(s)' => (Asked(s, {"RESERVE"}) /\ Kept(s))',
             \A t \in Sessions \ {s} : /\ phase'[t] = phase[t]
                                       /\ request'[t] = request[t]
                                       /\ answer'[t] = answer[t]
      PROVE  AnswerInv'
  BY <1>1, <1>2, OthersKeepAnswers DEF AnswerInv
<1>3. ASSUME NEW s \in Sessions, NEW code, NEW held, Finish(s, code, held),
             code \in {"CREATED", "REPLAYED"} =>
                 Asked(s, {"RESERVE"}) /\
                 (/\ holds[request[s].invoice].status # "NONE"
                  /\ holds[request[s].invoice].original = request[s].original
                  /\ holds[request[s].invoice].held = held)'
      PROVE  AnswerInv'
  BY <1>2, <1>3 DEF Finish, TypeOK, Promised, Asked, Kept
<1>4. ASSUME NEW s \in Sessions, NEW code, NEW held,
             code \notin {"CREATED", "REPLAYED"}, Finish(s, code, held)
      PROVE  AnswerInv'
  BY <1>3, <1>4
<1>5. ASSUME NEW s \in Sessions, NEW req, Submit(s, req)
      PROVE  AnswerInv'
  <2>1. /\ answer'[s] = NoAnswer
        /\ \A t \in Sessions \ {s} : /\ phase'[t] = phase[t]
                                     /\ request'[t] = request[t]
                                     /\ answer'[t] = answer[t]
    BY <1>5 DEF Submit, TypeOK, AnswerInv
  <2> QED BY <1>2, <2>1 DEF Promised, NoAnswer
<1>6. ASSUME NEW s \in Sessions, LockProgram(s) \/ FindInvoice(s)
      PROVE  AnswerInv'
  <2>1. /\ answer[s] = NoAnswer
        /\ answer' = answer
        /\ request' = request
        /\ \A t \in Sessions \ {s} : phase'[t] = phase[t]
    BY <1>6 DEF LockProgram, FindInvoice, TypeOK, AnswerInv
  <2> QED BY <1>2, <2>1 DEF Promised, NoAnswer
<1>7. ASSUME NEW s \in Sessions, Respond(s) \/ Abort(s)
      PROVE  AnswerInv'
  <2>1. /\ answer'[s] = NoAnswer
        /\ \A t \in Sessions \ {s} : /\ phase'[t] = phase[t]
                                     /\ request'[t] = request[t]
                                     /\ answer'[t] = answer[t]
    BY <1>7 DEF Respond, Abort, TypeOK, AnswerInv
  <2> QED BY <1>2, <2>1 DEF Promised, NoAnswer
<1>8. ASSUME NEW s \in Sessions, CreateProgram(s) \/ ProgramMissing(s)
      PROVE  AnswerInv'
  BY <1>4, <1>8 DEF CreateProgram, ProgramMissing, EndWithoutChange
<1>9. ASSUME NEW s \in Sessions, ReserveInvoice(s)
      PROVE  AnswerInv'
  <2>1. request[s].invoice \in InvoiceIds
    BY <1>9, RequestShape DEF ReserveInvoice, Asked, TypeOK
  <2>2. CASE Finish(s, "DUPLICATE_INVOICE", 0)
    BY <1>4, <2>2
  <2>3. ASSUME NEW quote, Finish(s, "CREATED", Converted(request[s].original, quote)),
               CommitHold(s, request[s].invoice,
                          OpenHold(Conversion(request[s].original, quote)), "RESERVED",
                          Converted(request[s].original, quote))
        PROVE  AnswerInv'
    <3>1. holds'[request[s].invoice] = OpenHold(Conversion(request[s].original, quote))
          /\ request' = request
      BY <2>1, <2>3 DEF CommitHold, Finish, TypeOK
    <3> QED BY <1>3, <1>9, <2>3, <3>1 DEF ReserveInvoice, OpenHold, Conversion
  <2> QED BY <1>9, <2>2, <2>3 DEF ReserveInvoice, EndWithoutChange
<1>10. ASSUME NEW s \in Sessions, ReserveWithoutChange(s)
       PROVE  AnswerInv'
  <2>1. PICK quote \in Quotes :
           /\ Verdict(s, quote) # "CREATED"
           /\ Finish(s, Verdict(s, quote),
                     IF Verdict(s, quote) = "REPLAYED"
                     THEN existing[s].held ELSE 0)
           /\ UNCHANGED database
    BY <1>10 DEF ReserveWithoutChange, EndWithoutChange
  <2>2. CASE Verdict(s, quote) = "REPLAYED"
    <3>1. /\ existing[s] \in Reservation
          /\ quote \in Nat
          /\ request[s].original \in Money
      BY <1>10, RequestShape, ServiceAssumption
         DEF ReserveWithoutChange, Asked, TypeOK, ServiceAssumption
    <3>2. existing[s].status # "NONE" /\ existing[s].original = request[s].original
      BY <2>2, <3>1, VerdictMeaning DEF Verdict
    <3>3. existing[s] = holds[request[s].invoice]
      BY <1>10, <3>2 DEF ReserveWithoutChange, LockInv, LockKeepsReadsFresh,
                         InTransaction, NoReservation
    <3>4. UNCHANGED holds /\ request' = request
      BY <2>1 DEF database, Finish
    <3> QED BY <1>3, <1>10, <2>1, <2>2, <3>2, <3>3, <3>4
            DEF ReserveWithoutChange
  <2>3. CASE Verdict(s, quote) # "REPLAYED"
    BY <1>4, <2>1, <2>3
  <2> QED BY <2>2, <2>3
<1>11. ASSUME NEW s \in Sessions, ReleaseReservation(s)
       PROVE  AnswerInv'
  BY <1>4, <1>11 DEF ReleaseReservation, EndWithoutChange
<1>12. ASSUME NEW s \in Sessions, ChangeCreditLimit(s)
       PROVE  AnswerInv'
  BY <1>4, <1>12 DEF ChangeCreditLimit, EndWithoutChange
<1>13. CASE UNCHANGED vars
  BY <1>13 DEF vars, AnswerInv, Promised, Asked, Kept
<1> QED
  BY <1>5, <1>6, <1>7, <1>8, <1>9, <1>10, <1>11, <1>12, <1>13
     DEF Next, Transact, Serve, Deliver, Sessions

(* An answer that promised a hold stays true for as long as anyone can     *)
(* read it, whatever is asked or quoted meanwhile.                         *)
THEOREM PromisesAreKept == Spec => []AnswersAreKept
<1>1. Init => AnswerInv
  BY DEF Init, AnswerInv, Promised, NoAnswer
<1>2. AnswerInv => AnswersAreKept
  BY DEF AnswerInv, AnswersAreKept, Promised, Kept
<1> QED BY <1>1, <1>2, AnswerStep, TypeCorrect, LockInvariant, PTL DEF Spec

-----------------------------------------------------------------------------
(* The counter and the rows. *)

Outstandings == [i \in InvoiceIds |-> Outstanding(holds[i])]

(* What a row is known to hold, from its status. *)
LEMMA OutstandingByStatus ==
    ASSUME TypeOK, RowsAreLoadable
    PROVE  \A i \in InvoiceIds :
              /\ Outstanding(holds[i]) \in Nat
              /\ holds[i].status = "ACTIVE" => Outstanding(holds[i]) = holds[i].held
              /\ holds[i].status # "ACTIVE" => Outstanding(holds[i]) = 0
<1> SUFFICES ASSUME NEW i \in InvoiceIds
             PROVE  /\ Outstanding(holds[i]) \in Nat
                    /\ holds[i].status = "ACTIVE" =>
                          Outstanding(holds[i]) = holds[i].held
                    /\ holds[i].status # "ACTIVE" => Outstanding(holds[i]) = 0
  OBVIOUS
<1>1. /\ holds[i].status \in {"NONE", "ACTIVE", "RELEASED"}
      /\ holds[i].held \in Int /\ holds[i].released \in Int
  BY DEF TypeOK, Reservation
<1>2. CASE holds[i].status = "NONE"
  BY <1>2 DEF RowsAreLoadable, NoReservation, Outstanding
<1>3. CASE holds[i].status \in {"ACTIVE", "RELEASED"}
  BY <1>1, <1>3 DEF RowsAreLoadable, Loadable, Outstanding
<1> QED BY <1>1, <1>2, <1>3

LEMMA BooksKeepCounter ==
    ASSUME TypeOK, CounterIsSumOfHolds,
           NEW invoice \in InvoiceIds, NEW r \in Reservation, NEW type,
           Books(invoice, r, type, Outstanding(r) - Outstanding(holds[invoice]))
    PROVE  CounterIsSumOfHolds'
<1> DEFINE change == Outstanding(r) - Outstanding(holds[invoice])
<1>1. /\ program'.reserved = program.reserved + change
      /\ holds' = [holds EXCEPT ![invoice] = r]
  BY DEF Books, TypeOK, Program
<1>2. /\ \A i \in InvoiceIds : Outstandings[i] \in Int
      /\ \A i \in InvoiceIds : Outstandings'[i] \in Int
      /\ \A i \in InvoiceIds \ {invoice} : Outstandings'[i] = Outstandings[i]
      /\ Outstandings'[invoice] - Outstandings[invoice] = change
  BY <1>1, HoldTypes DEF Outstandings, TypeOK
<1>3. IsFiniteSet(InvoiceIds)
  BY ServiceAssumption DEF ServiceAssumption
<1>4. SumFunctionOnSet(Outstandings', InvoiceIds) =
          SumFunctionOnSet(Outstandings, InvoiceIds)
              + (Outstandings'[invoice] - Outstandings[invoice])
  BY <1>2, <1>3, SumAfterUpdate
<1>5. program.reserved = SumFunctionOnSet(Outstandings, InvoiceIds)
  BY DEF CounterIsSumOfHolds, Outstandings
<1>6. program'.reserved = SumFunctionOnSet(Outstandings', InvoiceIds)
  BY <1>1, <1>2, <1>4, <1>5
<1> QED BY <1>6 DEF CounterIsSumOfHolds, Outstandings

LEMMA CounterStep ==
    ASSUME TypeOK, RowsAreLoadable, LogInv, CounterIsSumOfHolds, DatabaseStep
    PROVE  CounterIsSumOfHolds'
<1>1. ASSUME NEW limit \in Nat, CreatesProgram(limit)
      PROVE  CounterIsSumOfHolds'
  BY <1>1 DEF CreatesProgram, NewProgram, LogInv, CounterIsSumOfHolds
<1>2. ASSUME NEW limit \in Nat, MovesLimit(limit)
      PROVE  CounterIsSumOfHolds'
  BY <1>2 DEF MovesLimit, CounterIsSumOfHolds, TypeOK, Program
<1>3. ASSUME NEW invoice \in InvoiceIds, NEW original \in Money, NEW quote \in Nat,
             OpensHold(invoice, original, quote)
      PROVE  CounterIsSumOfHolds'
  <2> DEFINE r == OpenHold(Conversion(original, quote))
  <2>1. r \in Reservation /\ Converted(original, quote) \in Int
    BY ConvertedType
  <2>2. Outstanding(r) = Converted(original, quote)
    BY <2>1 DEF Outstanding, OpenHold, Conversion
  <2>3. Outstanding(holds[invoice]) = 0
    BY <1>3, OutstandingByStatus DEF OpensHold
  <2>4. Outstanding(r) - Outstanding(holds[invoice]) = Converted(original, quote)
    BY <2>1, <2>2, <2>3
  <2> HIDE DEF r
  <2>5. Books(invoice, r, "RESERVED",
              Outstanding(r) - Outstanding(holds[invoice]))
    BY <1>3, <2>4 DEF OpensHold, r
  <2> QED BY <2>1, <2>5, BooksKeepCounter
<1>4. ASSUME NEW invoice \in InvoiceIds, NEW reason \in ReleaseReasons,
             EndsHold(invoice, reason)
      PROVE  CounterIsSumOfHolds'
  <2> DEFINE r == Release(holds[invoice], reason)
  <2>1. r \in Reservation /\ Outstanding(holds[invoice]) \in Int
    BY HoldTypes DEF TypeOK
  <2>2. Outstanding(r) = 0
    BY <1>4 DEF EndsHold, Release, IsReleased, Outstanding, Reservation, TypeOK
  <2>3. Outstanding(r) - Outstanding(holds[invoice]) =
            -Outstanding(holds[invoice])
    BY <2>1, <2>2
  <2> HIDE DEF r
  <2>4. Books(invoice, r, "RELEASED",
              Outstanding(r) - Outstanding(holds[invoice]))
    BY <1>4, <2>3 DEF EndsHold, r
  <2> QED BY <2>1, <2>4, BooksKeepCounter
<1>5. CASE UNCHANGED database
  BY <1>5 DEF database, CounterIsSumOfHolds
<1> QED BY <1>1, <1>2, <1>3, <1>4, <1>5 DEF DatabaseStep

LEMMA CounterInvariant == Spec => [](LogInv /\ RowsAreLoadable /\ CounterIsSumOfHolds)
<1>1. Init => LogInv /\ RowsAreLoadable
  BY DEF Init, LogInv, LogAccountsForCounter, TotalBefore, NoProgram,
         RowsAreLoadable, NoReservation
<1>2. Init => CounterIsSumOfHolds
  <2> SUFFICES ASSUME Init
               PROVE  CounterIsSumOfHolds
    OBVIOUS
  <2>1. \A i \in InvoiceIds : Outstandings[i] = 0 /\ Outstandings[i] \in Int
    BY DEF Init, Outstandings, Outstanding, NoReservation
  <2>2. SumFunctionOnSet(Outstandings, {}) =
            SumFunctionOnSet(Outstandings, InvoiceIds)
    BY <2>1, SumOfPart, ServiceAssumption DEF ServiceAssumption
  <2>3. program.reserved = 0
    BY DEF Init, NoProgram
  <2> QED BY <2>2, <2>3, SumOfNothing DEF CounterIsSumOfHolds, Outstandings
<1> QED BY <1>1, <1>2, LogStep, RowsStep, CounterStep, StepIsDatabaseStep,
           TypeCorrect, LockInvariant, PTL DEF Spec

(* The stored counter is the sum of what the rows hold, for any number of  *)
(* invoices and sessions: no update is lost and none is counted twice.     *)
THEOREM NoUpdateIsLost == Spec => []CounterIsSumOfHolds
BY CounterInvariant, PTL

(* So the counter always covers what a release is about to free: reaching  *)
(* CapacityInvariantError takes a bug elsewhere.                           *)
THEOREM ReleasesAreAccepted == Spec => []ReleaseIsNeverRefused
<1>1. ASSUME TypeOK, LockInv, RowsAreLoadable, CounterIsSumOfHolds
      PROVE  ReleaseIsNeverRefused
  <2> SUFFICES ASSUME NEW s \in Sessions, phase[s] = "loaded",
                      Asked(s, {"RELEASE", "INVOICE_REPAID"})
               PROVE  aggregate[s].reserved >= Outstanding(existing[s])
    BY DEF ReleaseIsNeverRefused
  <2>1. \A i \in InvoiceIds : Outstandings[i] \in Nat
    BY <1>1, OutstandingByStatus DEF Outstandings
  <2>2. /\ program.reserved = SumFunctionOnSet(Outstandings, InvoiceIds)
        /\ IsFiniteSet(InvoiceIds)
    BY <1>1, ServiceAssumption
       DEF CounterIsSumOfHolds, Outstandings, ServiceAssumption
  <2>3. /\ program.reserved \in Nat
        /\ \A i \in InvoiceIds : Outstandings[i] <= program.reserved
    BY <2>1, <2>2, SumOfAmounts
  <2>4. request[s].invoice \in InvoiceIds
    BY <1>1, RequestShape DEF Asked, TypeOK
  <2>5. /\ aggregate[s] = program
        /\ existing[s] = IF request[s].padded THEN NoReservation
                                              ELSE holds[request[s].invoice]
    BY <1>1 DEF LockInv, LockKeepsReadsFresh, InTransaction
  <2>6. CASE request[s].padded
    BY <2>3, <2>5, <2>6 DEF NoReservation, Outstanding
  <2>7. CASE ~request[s].padded
    <3>1. Outstanding(existing[s]) = Outstandings[request[s].invoice]
      BY <2>4, <2>5, <2>7 DEF Outstandings
    <3> QED BY <2>1, <2>3, <2>4, <2>5, <3>1
  <2> QED BY <2>6, <2>7
<1> QED BY <1>1, CounterInvariant, LockInvariant, TypeCorrect, PTL

-----------------------------------------------------------------------------
(* The ledger the service promises. *)

(* What the ledger sums up is the stored counter: only active holds carry  *)
(* anything, and they carry all they were opened with.                     *)
LEMMA CommittedIsCounter ==
    ASSUME TypeOK, RowsAreLoadable, CounterIsSumOfHolds
    PROVE  Ledger!Committed = program.reserved
<1> DEFINE amounts == [i \in InvoiceIds |-> LedgerState(holds[i]).amount]
           held    == {i \in InvoiceIds : LedgerState(holds[i]).state = "held"}
<1>1. Ledger!Committed = SumFunctionOnSet(amounts, held)
  <2> DEFINE ledger == [i \in InvoiceIds |-> LedgerState(holds[i])]
  <2>1. Ledger!Held = held
    BY DEF Ledger!Held
  <2>2. [i \in InvoiceIds |-> ledger[i].amount] = amounts
    OBVIOUS
  <2>3. Ledger!SumFunctionOnSet(amounts, held) = SumFunctionOnSet(amounts, held)
    BY DEF SumFunctionOnSet, FoldFunctionOnSet, MapThenFoldSet,
           Ledger!SumFunctionOnSet, Ledger!FoldFunctionOnSet,
           Ledger!MapThenFoldSet
  <2> QED BY <2>1, <2>2, <2>3 DEF Ledger!Committed
<1>2. /\ \A i \in held : amounts[i] = Outstandings[i]
      /\ \A i \in InvoiceIds \ held : Outstandings[i] = 0
      /\ \A i \in InvoiceIds : Outstandings[i] \in Int
  <2>1. \A i \in InvoiceIds : holds[i].status \in {"NONE", "ACTIVE", "RELEASED"}
    BY DEF TypeOK, Reservation
  <2> QED BY <2>1, OutstandingByStatus DEF LedgerState, Outstandings
<1>3. held \in SUBSET InvoiceIds /\ IsFiniteSet(InvoiceIds) /\ IsFiniteSet(held)
  BY FS_Subset, ServiceAssumption DEF ServiceAssumption
<1> HIDE DEF amounts, held
<1>4. SumFunctionOnSet(amounts, held) = SumFunctionOnSet(Outstandings, held)
  BY <1>2, <1>3, SumOfSame
<1>5. SumFunctionOnSet(Outstandings, held) =
          SumFunctionOnSet(Outstandings, InvoiceIds)
  BY <1>2, <1>3, SumOfPart
<1> QED BY <1>1, <1>4, <1>5 DEF CounterIsSumOfHolds, Outstandings

LEMMA LedgerStep ==
    ASSUME TypeOK, RowsAreLoadable, CounterIsSumOfHolds, DatabaseStep
    PROVE  [Ledger!Next]_Ledger!vars
<1> DEFINE ledger == [i \in InvoiceIds |-> LedgerState(holds[i])]
<1>1. ASSUME NEW limit \in Nat, CreatesProgram(limit)
      PROVE  Ledger!Next
  <2>1. /\ program.exists = FALSE
        /\ program'.exists = TRUE
        /\ program'.limit = limit
        /\ UNCHANGED holds
    BY <1>1 DEF CreatesProgram, NewProgram, TypeOK, Program
  <2> QED BY <2>1 DEF Ledger!Next, Ledger!Open
<1>2. ASSUME NEW limit \in Nat, MovesLimit(limit)
      PROVE  Ledger!Next
  <2>1. /\ program.exists
        /\ program'.exists = program.exists
        /\ program'.limit = limit
        /\ UNCHANGED holds
    BY <1>2 DEF MovesLimit, TypeOK, Program
  <2> QED BY <2>1 DEF Ledger!Next, Ledger!SetLimit
<1>3. ASSUME NEW invoice \in InvoiceIds, NEW r,
             holds' = [holds EXCEPT ![invoice] = r]
      PROVE  ledger' = [ledger EXCEPT ![invoice] = LedgerState(r)]
  BY <1>3 DEF TypeOK
<1>4. ASSUME NEW invoice \in InvoiceIds, NEW original \in Money, NEW quote \in Nat,
             OpensHold(invoice, original, quote)
      PROVE  Ledger!Next
  <2> DEFINE held == Converted(original, quote)
             r    == OpenHold(Conversion(original, quote))
  <2>1. held \in Int /\ held > 0
    BY <1>4, ConvertedType DEF OpensHold, Holdable
  <2>2. LedgerState(r) = [state |-> "held", amount |-> held]
    BY DEF LedgerState, OpenHold, Conversion
  <2>3. /\ program.exists
        /\ program.limit - program.reserved >= held
        /\ program' = [program EXCEPT !.reserved = program.reserved + held]
        /\ holds[invoice].status = "NONE"
        /\ holds' = [holds EXCEPT ![invoice] = r]
    BY <1>4 DEF OpensHold, Books, HasCapacityFor, Available
  <2> HIDE DEF held, r
  <2>4. /\ program'.exists = program.exists
        /\ program'.limit = program.limit
    BY <2>3 DEF TypeOK, Program
  <2>5. /\ ledger' = [ledger EXCEPT ![invoice] =
                         [state |-> "held", amount |-> held]]
        /\ ledger'[invoice].amount = held
    <3>1. ledger' = [ledger EXCEPT ![invoice] = LedgerState(r)]
      BY <1>3, <2>3
    <3> QED BY <2>2, <3>1
  <2>6. ledger[invoice].state = "free"
    BY <2>3 DEF LedgerState
  <2>7. program.reserved + held <= program.limit
    BY <2>1, <2>3 DEF TypeOK, Program
  <2>8. Ledger!Committed + held <= program.limit
    BY <2>7, CommittedIsCounter
  <2> HIDE DEF ledger
  <2>9. Ledger!Reserve(invoice, ledger'[invoice].amount)
    BY <2>1, <2>3, <2>4, <2>5, <2>6, <2>8 DEF Ledger!Reserve, ledger
  <2> QED BY <2>9 DEF Ledger!Next, ledger
<1>5. ASSUME NEW invoice \in InvoiceIds, NEW reason \in ReleaseReasons,
             EndsHold(invoice, reason)
      PROVE  Ledger!Next
  <2> DEFINE r == Release(holds[invoice], reason)
  <2>1. /\ holds[invoice].status = "ACTIVE"
        /\ holds' = [holds EXCEPT ![invoice] = r]
        /\ program'.exists = program.exists
        /\ program'.limit = program.limit
    BY <1>5 DEF EndsHold, Books, TypeOK, Program
  <2>2. LedgerState(holds[invoice]) =
            [state |-> "held", amount |-> holds[invoice].held]
    BY <2>1 DEF LedgerState
  <2>3. LedgerState(r) = [state |-> "spent", amount |-> holds[invoice].held]
    <3>1. r.status = "RELEASED" /\ r.held = holds[invoice].held
      BY <2>1 DEF Release, IsReleased, TypeOK, Reservation
    <3> HIDE DEF r
    <3> QED BY <3>1 DEF LedgerState
  <2> HIDE DEF r
  <2>4. ledger' = [ledger EXCEPT ![invoice].state = "spent"]
    <3>1. ledger' = [ledger EXCEPT ![invoice] = LedgerState(r)]
      BY <1>3, <2>1
    <3>2. [ledger[invoice] EXCEPT !.state = "spent"] = LedgerState(r)
      BY <2>2, <2>3
    <3> HIDE DEF ledger
    <3> QED BY <3>1, <3>2
  <2>5. ledger[invoice].state = "held"
    BY <2>2
  <2> HIDE DEF ledger
  <2>6. Ledger!Release(invoice)
    BY <2>1, <2>4, <2>5 DEF Ledger!Release, ledger
  <2> QED BY <2>6 DEF Ledger!Next
<1>6. CASE UNCHANGED database
  BY <1>6 DEF database, Ledger!vars
<1> QED BY <1>1, <1>2, <1>4, <1>5, <1>6 DEF DatabaseStep

(* The service, with its rows, counter, lock, sessions and failures,       *)
(* implements the ledger: capacity is given out against what is really     *)
(* held, an invoice is financed once, and a release gives back all of it.  *)
THEOREM ServiceImplementsLedger == Spec => ImplementsLedger
<1>1. Init => Ledger!Init
  BY DEF Init, Ledger!Init, NoProgram, NoReservation, LedgerState
<1>2. ASSUME TypeOK, LockInv, RowsAreLoadable, CounterIsSumOfHolds, [Next]_vars
      PROVE  [Ledger!Next]_Ledger!vars
  BY <1>2, LedgerStep, StepIsDatabaseStep
<1> QED BY <1>1, <1>2, CounterInvariant, LockInvariant, TypeCorrect, PTL
        DEF Spec, ImplementsLedger, Ledger!Spec

-----------------------------------------------------------------------------
(* The log tells each invoice's story. *)

Story(i) ==
    LET r   == holds[i]
        log == EntriesOf(i)
    IN  CASE r.status = "NONE"     -> log = {}
          [] r.status = "ACTIVE"   ->
                \E n \in log : log = {n} /\ Records(n, "RESERVED", r.held)
          [] r.status = "RELEASED" ->
                \E m, n \in log : /\ log = {m, n} /\ m < n
                                  /\ Records(m, "RESERVED", r.held)
                                  /\ Records(n, "RELEASED", -r.held)

(* Appending an entry about one invoice leaves the others' stories alone.  *)
LEMMA LogGrows ==
    ASSUME TypeOK, NEW entry, events' = Append(events, entry)
    PROVE  LET last == Len(events) + 1
           IN  /\ events'[last] = entry
               /\ \A i \in InvoiceIds :
                     /\ \A n \in EntriesOf(i) : n < last /\ events'[n] = events[n]
                     /\ entry.invoice = i => EntriesOf(i)' = EntriesOf(i) \cup {last}
                     /\ entry.invoice # i => EntriesOf(i)' = EntriesOf(i)
<1> DEFINE last == Len(events) + 1
<1>1. /\ Len(events) \in Nat
      /\ DOMAIN events = 1..Len(events)
      /\ DOMAIN events' = 1..last
      /\ events'[last] = entry
      /\ \A n \in 1..Len(events) : events'[n] = events[n]
  BY DEF TypeOK
<1>2. 1..last = (1..Len(events)) \cup {last} /\ last \notin 1..Len(events)
  BY <1>1
<1>3. ASSUME NEW i \in InvoiceIds
      PROVE  /\ \A n \in EntriesOf(i) : n < last /\ events'[n] = events[n]
             /\ entry.invoice = i => EntriesOf(i)' = EntriesOf(i) \cup {last}
             /\ entry.invoice # i => EntriesOf(i)' = EntriesOf(i)
  <2>1. \A n \in EntriesOf(i) : n < last /\ events'[n] = events[n]
    BY <1>1 DEF EntriesOf
  <2> HIDE DEF last
  <2>2. EntriesOf(i)' = {n \in (1..Len(events)) \cup {last} :
                            events'[n].invoice = i}
    BY <1>1, <1>2 DEF EntriesOf
  <2>3. EntriesOf(i) = {n \in 1..Len(events) : events'[n].invoice = i}
    BY <1>1 DEF EntriesOf
  <2> QED BY <1>1, <2>1, <2>2, <2>3
<1> QED BY <1>1, <1>3

LEMMA StoryStep ==
    ASSUME TypeOK, RowsAreLoadable, LogExplainsHolds, DatabaseStep,
           NEW i \in InvoiceIds
    PROVE  Story(i)'
<1>0. Story(i)
  BY DEF LogExplainsHolds, Story
<1>s. holds[i].status \in {"NONE", "ACTIVE", "RELEASED"}
  BY DEF TypeOK, Reservation
<1>1. CASE UNCHANGED <<holds, events>>
  BY <1>0, <1>1 DEF Story, EntriesOf, Records
<1>2. ASSUME holds'[i] = holds[i], EntriesOf(i)' = EntriesOf(i),
             \A n \in EntriesOf(i) : events'[n] = events[n]
      PROVE  Story(i)'
  <2>1. CASE holds[i].status = "NONE"
    BY <1>0, <1>2, <2>1 DEF Story
  <2>2. CASE holds[i].status = "ACTIVE"
    BY <1>0, <1>2, <2>2 DEF Story, Records
  <2>3. CASE holds[i].status = "RELEASED"
    BY <1>0, <1>2, <2>3 DEF Story, Records
  <2> QED BY <1>s, <2>1, <2>2, <2>3
<1>3. ASSUME NEW limit \in Nat, MovesLimit(limit)
      PROVE  Story(i)'
  <2>1. UNCHANGED holds
    BY <1>3 DEF MovesLimit
  <2>2. PICK entry : /\ events' = Append(events, entry)
                     /\ entry.invoice = NoInvoice
    BY <1>3 DEF MovesLimit, Event
  <2>3. entry.invoice # i
    BY <2>2, ServiceAssumption DEF ServiceAssumption
  <2> QED BY <1>2, <2>1, <2>2, <2>3, LogGrows
<1>4. ASSUME NEW invoice \in InvoiceIds, NEW r, NEW type, NEW delta,
             Books(invoice, r, type, delta), invoice # i
      PROVE  Story(i)'
  <2>1. holds'[i] = holds[i]
    BY <1>4 DEF Books, TypeOK
  <2>2. PICK entry : /\ events' = Append(events, entry)
                     /\ entry.invoice = invoice
    BY <1>4 DEF Books, Event
  <2> QED BY <1>2, <1>4, <2>1, <2>2, LogGrows
<1>5. ASSUME NEW r, NEW type, NEW delta, Books(i, r, type, delta)
      PROVE  \E last : /\ holds'[i] = r
                       /\ EntriesOf(i)' = EntriesOf(i) \cup {last}
                       /\ \A n \in EntriesOf(i) :
                             n < last /\ events'[n] = events[n]
                       /\ events'[last].type = type
                       /\ events'[last].delta = delta
  <2>1. PICK entry : /\ events' = Append(events, entry)
                     /\ entry.invoice = i
                     /\ entry.type = type
                     /\ entry.delta = delta
    BY <1>5 DEF Books, Event
  <2>2. holds'[i] = r
    BY <1>5 DEF Books, TypeOK
  <2> QED BY <2>1, <2>2, LogGrows
<1>6. ASSUME NEW original \in Money, NEW quote \in Nat,
             OpensHold(i, original, quote)
      PROVE  Story(i)'
  <2>1. EntriesOf(i) = {}
    BY <1>0, <1>6 DEF Story, OpensHold
  <2>2. PICK r : r = OpenHold(Conversion(original, quote))
    OBVIOUS
  <2>3. r.status = "ACTIVE" /\ r.held = Converted(original, quote)
    BY <2>2 DEF OpenHold, Conversion
  <2>4. Books(i, r, "RESERVED", r.held)
    BY <1>6, <2>2, <2>3 DEF OpensHold
  <2>5. PICK last : /\ holds'[i] = r
                    /\ EntriesOf(i)' = {last}
                    /\ events'[last].type = "RESERVED"
                    /\ events'[last].delta = r.held
    BY <1>5, <2>1, <2>4
  <2> QED BY <2>3, <2>5 DEF Story, Records
<1>7. ASSUME NEW reason \in ReleaseReasons, EndsHold(i, reason)
      PROVE  Story(i)'
  <2>1. holds[i].status = "ACTIVE"
    BY <1>7 DEF EndsHold
  <2>2. PICK n \in EntriesOf(i) : /\ EntriesOf(i) = {n}
                                  /\ Records(n, "RESERVED", holds[i].held)
    BY <1>0, <2>1 DEF Story
  <2>3. PICK r : r = Release(holds[i], reason)
    OBVIOUS
  <2>4. r.status = "RELEASED" /\ r.held = holds[i].held
    BY <2>1, <2>3 DEF Release, IsReleased, TypeOK, Reservation
  <2>5. Outstanding(holds[i]) = holds[i].held
    BY <2>1, OutstandingByStatus
  <2>6. Books(i, r, "RELEASED", -r.held)
    BY <1>7, <2>3, <2>4, <2>5 DEF EndsHold
  <2>7. PICK last : /\ holds'[i] = r
                    /\ EntriesOf(i)' = EntriesOf(i) \cup {last}
                    /\ n < last /\ events'[n] = events[n]
                    /\ events'[last].type = "RELEASED"
                    /\ events'[last].delta = -r.held
    BY <1>5, <2>6
  <2>8. EntriesOf(i)' = {n, last}
    BY <2>2, <2>7
  <2>9. events'[n].type = "RESERVED" /\ events'[n].delta = r.held
    BY <2>2, <2>4, <2>7 DEF Records
  <2> QED BY <2>4, <2>7, <2>8, <2>9 DEF Story, Records
<1>8. ASSUME NEW invoice \in InvoiceIds, NEW original \in Money, NEW quote \in Nat,
             OpensHold(invoice, original, quote)
      PROVE  Story(i)'
  <2>1. CASE invoice # i
    BY <1>4, <1>8, <2>1 DEF OpensHold
  <2>2. CASE invoice = i
    BY <1>6, <1>8, <2>2
  <2> QED BY <2>1, <2>2
<1>9. ASSUME NEW invoice \in InvoiceIds, NEW reason \in ReleaseReasons,
             EndsHold(invoice, reason)
      PROVE  Story(i)'
  <2>1. CASE invoice # i
    BY <1>4, <1>9, <2>1 DEF EndsHold
  <2>2. CASE invoice = i
    BY <1>7, <1>9, <2>2
  <2> QED BY <2>1, <2>2
<1> QED BY <1>1, <1>3, <1>8, <1>9 DEF DatabaseStep, database, CreatesProgram

(* The audit log tells the whole story of each invoice, once: one hold and *)
(* at most one release of the same amount, in that order.                  *)
THEOREM LogTellsTheStory == Spec => []LogExplainsHolds
<1>1. Init => LogExplainsHolds
  <2> SUFFICES ASSUME Init, NEW i \in InvoiceIds
               PROVE  holds[i].status = "NONE" /\ EntriesOf(i) = {}
    BY DEF LogExplainsHolds
  <2> QED BY DEF Init, EntriesOf, NoReservation
<1>2. ASSUME TypeOK, LockInv, RowsAreLoadable, LogExplainsHolds, [Next]_vars
      PROVE  LogExplainsHolds'
  <2>1. \A i \in InvoiceIds : Story(i)'
    BY <1>2, StoryStep, StepIsDatabaseStep
  <2> QED BY <2>1 DEF LogExplainsHolds, Story
<1> QED BY <1>1, <1>2, RowsStayLoadable, LockInvariant, TypeCorrect, PTL
        DEF Spec

-----------------------------------------------------------------------------
(* Retries. *)

HoldsHaveProgram ==
    \A i \in InvoiceIds : holds[i].status # "NONE" => program.exists

LEMMA HoldsHaveProgramStep ==
    ASSUME TypeOK, HoldsHaveProgram, DatabaseStep
    PROVE  HoldsHaveProgram'
<1>1. CASE UNCHANGED database
  BY <1>1 DEF database, HoldsHaveProgram
<1>2. ASSUME NEW limit \in Nat, CreatesProgram(limit) \/ MovesLimit(limit)
      PROVE  HoldsHaveProgram'
  BY <1>2 DEF CreatesProgram, MovesLimit, NewProgram, HoldsHaveProgram,
              TypeOK, Program
<1>3. ASSUME NEW invoice, NEW r, NEW type, NEW delta, program.exists,
             Books(invoice, r, type, delta)
      PROVE  HoldsHaveProgram'
  BY <1>3 DEF Books, HoldsHaveProgram, TypeOK, Program
<1> QED BY <1>1, <1>2, <1>3 DEF DatabaseStep, OpensHold, EndsHold

LEMMA RetryStep ==
    ASSUME TypeOK, LockInv, HoldsHaveProgram, Paddings \subseteq {FALSE},
           [Next]_vars, NEW s \in Sessions,
           phase[s] # "answering", phase'[s] = "answering",
           Asked(s, {"RESERVE"}),
           holds[request[s].invoice].status = "ACTIVE",
           holds[request[s].invoice].original = request[s].original
    PROVE  answer'[s] = [code |-> "REPLAYED",
                         held |-> holds[request[s].invoice].held]
<1> DEFINE r == holds[request[s].invoice]
<1>1. /\ request[s] \in ReserveRequests
      /\ request[s].invoice \in InvoiceIds
      /\ request[s].original \in Money
      /\ request[s].padded = FALSE
  <2>1. request[s] \in Requests \cup {NoRequest} /\ request[s].kind = "RESERVE"
    BY DEF TypeOK, Asked
  <2>2. request[s] \in ReserveRequests
    BY <2>1 DEF Requests, ApiRequests, TreasuryMessages, CreateRequests,
                ReleaseRequests, LimitMessages, RepaidMessages, NoRequest
  <2> QED BY <2>1, <2>2, RequestShape DEF ReserveRequests
<1>2. phase[s] = "loaded" => existing[s] = r
  BY <1>1 DEF LockInv, LockKeepsReadsFresh, InTransaction
<1>3. program.exists
  BY <1>1 DEF HoldsHaveProgram
<1>4. ASSUME NEW quote \in Quotes, phase[s] = "loaded"
      PROVE  Verdict(s, quote) = "REPLAYED"
  BY <1>2, <1>4 DEF Verdict, ReserveVerdict, RetryVerdict, IsReleased
<1>5. ASSUME NEW t \in Sessions, t # s, phase' = [phase EXCEPT ![t] = phase'[t]]
      PROVE  FALSE
  BY <1>5 DEF TypeOK
<1>6. ASSUME NEW t \in Sessions, Transact(t) \/ Abort(t) \/ Serve(t) \/ Deliver(t)
      PROVE  phase' = [phase EXCEPT ![t] = phase'[t]]
  <2> DEFINE Moves(to) == phase' = [phase EXCEPT ![t] = to]
  <2>1. \E to : Moves(to)
    BY <1>6 DEF Transact, Abort, Serve, Deliver, Submit, LockProgram, FindInvoice,
                CreateProgram, ProgramMissing, ReserveInvoice,
                ReserveWithoutChange, ReleaseReservation, ChangeCreditLimit,
                Respond, EndWithoutChange, Finish
  <2> QED BY <2>1 DEF TypeOK
<1>7. CASE ReserveWithoutChange(s)
  BY <1>2, <1>4, <1>7 DEF ReserveWithoutChange, EndWithoutChange, Finish, TypeOK
<1>8. ~ReserveInvoice(s)
  BY <1>4 DEF ReserveInvoice
<1>9. /\ ~CreateProgram(s) /\ ~ProgramMissing(s)
      /\ ~ReleaseReservation(s) /\ ~ChangeCreditLimit(s)
  BY <1>3 DEF CreateProgram, ProgramMissing, ReleaseReservation,
              ChangeCreditLimit, Asked
<1>10. /\ ~LockProgram(s) /\ ~FindInvoice(s) /\ ~Respond(s) /\ ~Abort(s)
       /\ ~Serve(s) /\ ~Deliver(s)
  BY DEF LockProgram, FindInvoice, Respond, Abort, Serve, Deliver, Submit, TypeOK
<1>11. CASE UNCHANGED vars
  BY <1>11 DEF vars
<1> QED BY <1>5, <1>6, <1>7, <1>8, <1>9, <1>10, <1>11
        DEF Next, Transact, Sessions

(* Where ids are written the way they are stored, a reserve for what an    *)
(* active hold was opened with is answered with that hold, however the     *)
(* limit and the rates have moved since.                                   *)
THEOREM RetriesAreReplayed ==
    ASSUME Paddings \subseteq {FALSE}
    PROVE  Spec => IdenticalRetryIsReplayed
<1>1. Init => HoldsHaveProgram
  BY DEF Init, HoldsHaveProgram, NoReservation
<1>2. ASSUME TypeOK, LockInv, HoldsHaveProgram, [Next]_vars
      PROVE  HoldsHaveProgram'
  BY <1>2, HoldsHaveProgramStep, StepIsDatabaseStep
<1>3. ASSUME TypeOK, LockInv, HoldsHaveProgram, [Next]_vars
      PROVE  [\A s \in Sessions :
                 LET r == holds[request[s].invoice]
                 IN  /\ phase[s] # "answering" /\ phase'[s] = "answering"
                     /\ Asked(s, {"RESERVE"})
                     /\ r.status = "ACTIVE"
                     /\ r.original = request[s].original
                     => answer'[s] = [code |-> "REPLAYED", held |-> r.held]]_vars
  BY <1>3, RetryStep
<1> QED BY <1>1, <1>2, <1>3, LockInvariant, TypeCorrect, PTL
        DEF Spec, IdenticalRetryIsReplayed

=============================================================================
