------------------------------ MODULE MCFuture ------------------------------
(* The future as a one-shot cell.                                           *)
EXTENDS Future

(* A Then that could not allocate its node was refused.                     *)
NotRegistered(k) ==
  pc[k] \in {"release", "done"} /\ ran[k] = 0 /\ nodeRefs[k] = 0 /\ k \notin nodeFreed

(* A coroutine whose resume was accepted before the scheduler was stopped   *)
(* and inserted after its worker had left.                                  *)
Unresumed(n) == scheduler = "gone" /\ n \in inserted /\ pc[n] = "wait"

Content == IF winner = "none" THEN "none" ELSE ResultOf(winner)
Told(n) ==
  IF n \in Conts /\ NotRegistered(n) THEN Failed
    ELSE IF Unresumed(n) THEN "stranded" ELSE saw[n]

Cell == INSTANCE OneShotCell WITH
  Contents <- Results, Askers <- Nodes, Dependent <- Coroutines, Empty <- "none",
  Untold <- "none", Refused <- Failed, Stranded <- "stranded",
  cell <- Content, asked <- {n \in Nodes : pc[n] # "idle"},
  told <- [n \in Nodes |-> Told(n)], down <- aborted, left <- scheduler = "gone"

(* Without movers the future is a one-shot cell: it is filled once, by the  *)
(* winner of the race through is_completed, and every Then and Get that was *)
(* not refused is handed that result exactly once, and eventually, whatever *)
(* the order of push, steal and close, unless the drain aborts.  The one    *)
(* exception is a coroutine whose resume was accepted before its scheduler  *)
(* stopped and inserted after the worker's final drain: it waits for ever.  *)
ImplementsCell == Cell!CellSpec

(* The invariant behind its safety: nobody takes the result, and nobody has *)
(* been handed one before the step that does.                               *)
CellInv ==
  /\ ~consumed /\ \A p \in Procs : pc[p] # "consume"
  /\ \A k \in Conts : ran[k] = 0 => saw[k] = "none"
  /\ \A g \in Getters : pc[g] \notin {"release", "done"} => saw[g] = "none"
=============================================================================
