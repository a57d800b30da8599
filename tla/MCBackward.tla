------------------------------ MODULE MCBackward ------------------------------
(***************************************************************************)
(* Instances of Backward for TLC.                                          *)
(***************************************************************************)
EXTENDS Backward

Symmetry == Permutations(Threads)
=============================================================================
