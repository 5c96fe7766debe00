------------------------------ MODULE MCAttach ------------------------------
(* Instances of Attach for TLC.                                             *)
EXTENDS Attach, TLC

Symmetry == Permutations(Attachers)
=============================================================================
