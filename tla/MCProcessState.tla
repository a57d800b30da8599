---------------------------- MODULE MCProcessState ----------------------------
(***************************************************************************)
(* Instances of ProcessState for TLC.                                      *)
(***************************************************************************)
EXTENDS ProcessState, MCTorchCalls

CONSTANTS c1, c2, t1, t2, u1, m1

\* One context manager of each class.
MCEnables == (c1 :> FALSE) @@ (c2 :> TRUE)

\* One thread nests three scopes, which it may close in any order; the other
\* shares context managers with it.
MCScopes == (t1 :> 3) @@ (t2 :> 2)

Sum(width, count, reduced, output) ==
  [width |-> width, count |-> count, reduce_stride |-> reduced, output_stride |-> output]

\* Both dimensions of a contiguous matrix, and of its even columns.
Layouts(width, count) ==
  {Sum(width, count, width, 1), Sum(width, count, 1, count),
   Sum(width, count, 2, 2 * count), Sum(width, count, 2 * width, 2)}

\* Widths around the groups of 4, 8, 32 and 64 columns; counts that fill
\* the blocks of each level.
MCSums ==
  UNION {Layouts(width, 7) : width \in {1, 3, 7, 8, 13, 39, 71, 101}}
  \cup UNION {Layouts(5, count) : count \in {1, 5, 16, 33}}
  \cup Layouts(9, 15) \cup {Sum(2, 300, 1, 300), Sum(199, 3, 199, 1)}

\* One caller makes every sum, the other only short rows.
MCSumsOf(t) == IF t = u1 THEN MCSums ELSE {Sum(3, 40, 1, 40)}

Compiled(key, abi, code, shape, bytes) ==
  [key |-> key, abi |-> abi, code |-> code, shape |-> shape, bytes |-> bytes]

\* Logical entries share executors, one entry has several lowerings, one
\* executor several plans, of which one is not always as large, and one exceeds
\* the whole budget.
MCCalls ==
  {Compiled("k1", "a1", "e1", 1, 2), Compiled("k1", "a2", "e2", 1, 2), Compiled("k1", "a3", "e3", 1, 3),
   Compiled("k2", "a3", "e2", 1, 3),
   Compiled("k2", "a1", "e1", 2, 4), Compiled("k2", "a2", "e1", 3, 7), Compiled("k3", "a1", "e2", 4, 3)}

\* A call is made within one mode at most.
MCArgumentModes == {m1}

\* No definition orders the pools.
Symmetry == Permutations(Pools)
=============================================================================
