--------------------------- MODULE MCMarketplace ---------------------------
(***************************************************************************)
(* Model of the two marketplace classes that work on their own: the escrow *)
(* manager of a requester and the task executor of a worker.  They share   *)
(* no state and neither calls the other, so one behaviour follows one of   *)
(* them (focus) while the other rests.                                     *)
(***************************************************************************)
EXTENDS Escrow, Executor

VARIABLE focus  \* the component this behaviour is about

Foci == {"escrow", "executor"}

Init ==
  /\ focus \in Foci
  /\ EscrowInit
  /\ ExecutorInit

EscrowStep ==
  /\ focus = "escrow" /\ EscrowNext
  /\ UNCHANGED <<focus, executorVars>>

ExecutorStep ==
  /\ focus = "executor" /\ ExecutorNext
  /\ UNCHANGED <<focus, escrowVars>>

Next == EscrowStep \/ ExecutorStep

vars == <<focus, escrowVars, executorVars>>

\* The fairness of the executor, in the behaviours that are about it.
Spec == Init /\ [][Next]_vars
        /\ \A e \in 1..MaxEnqueues :
             /\ WF_executorVars(focus = "executor" /\ Deadline(e))
             /\ WF_executorVars(focus = "executor" /\ SignatureMade(e))
=============================================================================
