---------------------------- MODULE FifoExecutor ----------------------------
(***************************************************************************)
(* What a scheduler promises: an executor that takes the jobs in the order *)
(* they were handed in, one at a time and each once, that retires only     *)
(* when it was told to halt and has nothing waiting, and that serves every *)
(* waiting job while it is on.  Jobs handed in after it retired are        *)
(* dropped.                                                                *)
(***************************************************************************)
EXTENDS Sequences

CONSTANTS Work, Nothing

VARIABLES waiting, active, finished, on, halt

Start ==
  /\ waiting = <<>>
  /\ active = Nothing
  /\ finished = {}
  /\ on = FALSE
  /\ halt = TRUE

HandIn ==
  /\ \E j \in Work : waiting' = Append(waiting, j)
  /\ UNCHANGED <<active, finished, on, halt>>

Take ==
  /\ on
  /\ active = Nothing
  /\ waiting # <<>>
  /\ active' = Head(waiting)
  /\ Head(waiting) \notin finished
  /\ waiting' = Tail(waiting)
  /\ UNCHANGED <<finished, on, halt>>

Finish ==
  /\ active # Nothing
  /\ finished' = finished \cup {active}
  /\ active' = Nothing
  /\ UNCHANGED <<waiting, on, halt>>

(* Once on, the order to halt is not taken back.                            *)
Order ==
  /\ halt' # halt
  /\ on => halt'
  /\ UNCHANGED <<waiting, active, finished, on>>

TurnOn ==
  /\ ~on
  /\ on' = TRUE
  /\ UNCHANGED <<waiting, active, finished, halt>>

Retire ==
  /\ on
  /\ halt
  /\ active = Nothing
  /\ waiting = <<>>
  /\ on' = FALSE
  /\ UNCHANGED <<waiting, active, finished, halt>>

Drop ==
  /\ ~on
  /\ waiting' = <<>>
  /\ UNCHANGED <<active, finished, on, halt>>

Act == HandIn \/ Take \/ Finish \/ Order \/ TurnOn \/ Retire \/ Drop

execVars == <<waiting, active, finished, on, halt>>

(* What it never does wrong, and what it does in the end.                   *)
ExecSafety == Start /\ [][Act]_execVars

ExecSpec ==
  /\ ExecSafety
  /\ WF_execVars(Take) /\ WF_execVars(Finish) /\ WF_execVars(Retire)
=============================================================================
