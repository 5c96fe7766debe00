------------------------ MODULE CancellationRegistry ------------------------
(***************************************************************************)
(* What a cancellation token promises its users (ufsrv_cancellation.h): a  *)
(* one-shot event with withdrawable subscriptions.  A registration is      *)
(* armed; the cancellation makes every armed one due, and one registered   *)
(* afterwards is due at once; a due callback runs once, from start to end; *)
(* an armed one may be withdrawn instead; the release hook comes last.     *)
(***************************************************************************)
CONSTANTS Nodes

VARIABLES cancelled, phase, hooked

rvars == <<cancelled, phase, hooked>>

Phases == {"fresh", "armed", "due", "running", "done", "withdrawn"}

RInit ==
  /\ cancelled = FALSE
  /\ phase = [n \in Nodes |-> "fresh"]
  /\ hooked = [n \in Nodes |-> FALSE]

Move(n, from, to) ==
  /\ phase[n] = from
  /\ phase' = [phase EXCEPT ![n] = to]
  /\ UNCHANGED <<cancelled, hooked>>

Arm(n) == Move(n, "fresh", IF cancelled THEN "due" ELSE "armed")

Start(n) == cancelled /\ Move(n, "due", "running")

Return(n) == Move(n, "running", "done")

Withdraw(n) == ~cancelled /\ Move(n, "armed", "withdrawn")

CancelAll ==
  /\ ~cancelled
  /\ cancelled' = TRUE
  /\ phase' = [n \in Nodes |-> IF phase[n] = "armed" THEN "due" ELSE phase[n]]
  /\ UNCHANGED hooked

Hook(n) ==
  /\ phase[n] \in {"done", "withdrawn"}
  /\ ~hooked[n]
  /\ hooked' = [hooked EXCEPT ![n] = TRUE]
  /\ UNCHANGED <<cancelled, phase>>

RNext ==
  \/ CancelAll
  \/ \E n \in Nodes : Arm(n) \/ Start(n) \/ Return(n) \/ Withdraw(n) \/ Hook(n)

(* What it never does wrong, and what it does in the end.                   *)
RSafety == RInit /\ [][RNext]_rvars

RSpec ==
  /\ RSafety
  /\ \A n \in Nodes : WF_rvars(Start(n)) /\ WF_rvars(Return(n))
=============================================================================
