--------------------------- MODULE MCCancellation ---------------------------
(* The mapping under which Cancellation implements CancellationRegistry.    *)
EXTENDS Cancellation

(* Between the node's last unlocked state and its hook, the registration is *)
(* as its user sees it: claimed before it runs, running until it returns.   *)
Running(n) ==
  \E t \in Threads : pc[t] \in {"in_callback", "in_inline"} /\ cb[t] = n

PhaseOf(n) ==
  IF n \in won THEN "withdrawn"
  ELSE IF fired[n] > 0 THEN IF Running(n) THEN "running" ELSE "done"
  ELSE IF n \in claimed THEN "due" ELSE IF n \in active THEN "armed" ELSE "fresh"

(* Which unsettled nodes are claimed: those detached or registered late,    *)
(* none that is new, being registered or listed.                            *)
ClaimInv ==
  /\ \A n \in Nodes : mem[n] = "unused" => n \notin claimed
  /\ Listed \cap claimed = {}
  /\ \A t \in Threads :
       /\ pc[t] = "register" => cb[t] \notin claimed
       /\ pc[t] = "inline" => cb[t] \in claimed /\ isCancelled
       /\ Range(walk[t]) \subseteq claimed

Registry == INSTANCE CancellationRegistry WITH
  cancelled <- isCancelled,
  phase <- [n \in Nodes |-> PhaseOf(n)],
  hooked <- [n \in Nodes |-> released[n] > 0]

(* The lock-and-refcount implementation is a one-shot registry: the user    *)
(* sees a callback run to completion once, or a withdrawal, then the hook,  *)
(* and a due callback does run.                                             *)
ImplementsRegistry == Registry!RSpec
=============================================================================
