---------------------------- MODULE MCCudaStorage ----------------------------
(***************************************************************************)
(* Instances of CudaStorage for TLC.                                       *)
(***************************************************************************)
EXTENDS CudaStorage

CONSTANTS d0, d1

\* Every thread starts on the first device.
FirstDevice == [t \in Threads |-> d0]

Symmetry == Permutations(Pointers)
ThreadSymmetry == Permutations(Pointers) \cup Permutations(Threads)
=============================================================================
