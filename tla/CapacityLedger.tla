--------------------------- MODULE CapacityLedger ---------------------------
(***************************************************************************)
(* What the service promises the supplier of one program, with no row, no  *)
(* counter, no lock and no session: a limit, and what each invoice holds.  *)
(* Capacity is given out only while the sum of what is held leaves room,   *)
(* an invoice is financed once, and a release gives back all it held.      *)
(*                                                                         *)
(* CapacityService, which decides against a stored counter and may fail at *)
(* any step, is checked to implement this.                                 *)
(***************************************************************************)
EXTENDS Integers, FiniteSets, Functions

CONSTANT InvoiceIds

VARIABLES
    opened,     \* does the program exist?
    limit,      \* its credit limit
    hold        \* [state, amount] of each invoice

vars == <<opened, limit, hold>>

States == {"free", "held", "spent"}

Held == {i \in InvoiceIds : hold[i].state = "held"}

Committed ==
    SumFunctionOnSet([i \in InvoiceIds |-> hold[i].amount], Held)

Init ==
    /\ opened = FALSE
    /\ limit = 0
    /\ hold = [i \in InvoiceIds |-> [state |-> "free", amount |-> 0]]

Open(l) ==
    /\ ~opened
    /\ opened' = TRUE
    /\ limit' = l
    /\ UNCHANGED hold

Reserve(i, amount) ==
    /\ opened
    /\ hold[i].state = "free"
    /\ amount > 0
    /\ Committed + amount <= limit
    /\ hold' = [hold EXCEPT ![i] = [state |-> "held", amount |-> amount]]
    /\ UNCHANGED <<opened, limit>>

Release(i) ==
    /\ hold[i].state = "held"
    /\ hold' = [hold EXCEPT ![i].state = "spent"]
    /\ UNCHANGED <<opened, limit>>

SetLimit(l) ==
    /\ opened
    /\ limit' = l
    /\ UNCHANGED <<opened, hold>>

(* The amounts and limits a step picks are those of the step it explains.  *)
Next ==
    \/ limit' \in Nat /\ (Open(limit') \/ SetLimit(limit'))
    \/ \E i \in InvoiceIds : Reserve(i, hold'[i].amount) \/ Release(i)

Spec == Init /\ [][Next]_vars

=============================================================================
