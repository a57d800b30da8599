---------------------------- MODULE MCGraphReplay ----------------------------
(***************************************************************************)
(* Instances of GraphReplay for TLC.                                       *)
(***************************************************************************)
EXTENDS GraphReplay

CONSTANTS c0, c1

\* Every thread starts in the first device's context.
FirstContext == [t \in Threads |-> c0]
=============================================================================
