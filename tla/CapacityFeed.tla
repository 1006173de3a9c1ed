---------------------------- MODULE CapacityFeed ----------------------------
(***************************************************************************)
(* What a watcher of GET /capacity/stream is promised, whatever reads and  *)
(* notifications it takes: while its stream is open it is shown figures    *)
(* the program really had, and never older ones after newer ones.  The     *)
(* states of the program's row are numbered as they are committed.         *)
(***************************************************************************)
EXTENDS Naturals

CONSTANTS Watchers

VARIABLES
    version,        \* the number of the program's present figures
    shown           \* by watcher, the number of those it was shown last;
                    \* 0 for none since its stream was opened

vars == <<version, shown>>

Init == version = 0 /\ shown = [w \in Watchers |-> 0]

Change ==
    /\ version' = version + 1
    /\ UNCHANGED shown

Show(w) ==
    /\ \E v \in shown[w]..version : shown' = [shown EXCEPT ![w] = v]
    /\ UNCHANGED version

(* The stream ends, or a new one is opened. *)
Forget(w) ==
    /\ shown' = [shown EXCEPT ![w] = 0]
    /\ UNCHANGED version

Next == Change \/ \E w \in Watchers : Show(w) \/ Forget(w)

Spec == Init /\ [][Next]_vars

=============================================================================
