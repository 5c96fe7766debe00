----------------------------- MODULE MCOperators ----------------------------
(* Instances of Operators for TLC: the calls are alike.                     *)
EXTENDS Operators, TLC

Symmetry == Permutations(Ops)
=============================================================================
