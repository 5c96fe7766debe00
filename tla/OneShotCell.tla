---------------------------- MODULE OneShotCell -----------------------------
(***************************************************************************)
(* What a promise and its future promise together: a cell that is filled   *)
(* once, and hands its content exactly once to everyone who asked, before  *)
(* or after it was filled.  An asker may instead be refused (no memory,    *)
(* not allowed to wait), and the process may abort.  An asker that needs a *)
(* worker to be told is stranded when its turn comes after the worker left.*)
(***************************************************************************)
CONSTANTS Contents, Askers, Dependent, Empty, Untold, Refused, Stranded

VARIABLES cell, asked, told, down, left

Start ==
  /\ cell = Empty
  /\ asked = {}
  /\ told = [n \in Askers |-> Untold]
  /\ down = FALSE /\ left = FALSE

(* The first completion fills the cell for good.                            *)
Fill ==
  /\ cell = Empty
  /\ cell' \in Contents
  /\ UNCHANGED <<asked, told, down, left>>

Ask(n) ==
  /\ asked' = asked \cup {n}
  /\ UNCHANGED <<cell, told, down, left>>

Tell(n) ==
  /\ ~down
  /\ cell # Empty
  /\ n \in asked
  /\ told[n] = Untold
  /\ told' = [told EXCEPT ![n] = cell]
  /\ UNCHANGED <<cell, asked, down, left>>

Refuse(n) ==
  /\ n \in asked
  /\ told[n] = Untold
  /\ told' = [told EXCEPT ![n] = Refused]
  /\ UNCHANGED <<cell, asked, down, left>>

(* Only a completed future's drain aborts.                                  *)
Abort ==
  /\ cell # Empty
  /\ down' = TRUE
  /\ UNCHANGED <<cell, asked, told, left>>

(* The worker leaves ...                                                    *)
Leave ==
  /\ left' = TRUE
  /\ UNCHANGED <<cell, asked, told, down>>

(* ... and who was to be told by it later never is.                         *)
Strand(n) ==
  /\ left /\ n \in Dependent
  /\ cell # Empty
  /\ n \in asked
  /\ told[n] = Untold
  /\ told' = [told EXCEPT ![n] = Stranded]
  /\ UNCHANGED <<cell, asked, down, left>>

Act ==
  \/ Fill \/ Abort \/ Leave
  \/ \E n \in Askers : Ask(n) \/ Tell(n) \/ Refuse(n) \/ Strand(n)

cellVars == <<cell, asked, told, down, left>>

CellSafety == Start /\ [][Act]_cellVars

CellSpec == CellSafety /\ \A n \in Askers : WF_cellVars(Tell(n))
=============================================================================
