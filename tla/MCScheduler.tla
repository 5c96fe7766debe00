---------------------------- MODULE MCScheduler -----------------------------
(* The scheduler as a FIFO executor.                                        *)
EXTENDS Scheduler

Exec == INSTANCE FifoExecutor WITH
  Work <- Jobs, Nothing <- NoJob,
  waiting <- queue, active <- running,
  finished <- {j \in Jobs : fate[j] = "done"},
  on <- worker \notin {"none", "exited"},
  halt <- ~isRunning

(* A scheduler is a FIFO executor: jobs run one at a time, once each and in *)
(* the order of insertion; the worker exits only after Stop and only with   *)
(* an empty queue; while it lives, whatever is queued gets run.             *)
ImplementsExecutor == Exec!ExecSpec
=============================================================================
