---------------------------- MODULE BlockProtocol ----------------------------
(***************************************************************************)
(* What CUDA storage promises of every block of device memory, whoever     *)
(* holds it: the life a block may lead from the driver and back.  Threads, *)
(* locks, sizes and devices are the business of CudaStorage, which is      *)
(* checked to implement this.                                              *)
(***************************************************************************)
CONSTANT Pointers

VARIABLES
  phase,      \* where each address is in the life of its block
  ordered,    \* addresses of blocks from a stream-ordered pool
  suspect     \* addresses that work whose failure was acted upon may still use

Phases == {"driver", "private", "published", "cached", "retired"}

(***************************************************************************)
(* A block is private to one operation or one drop when it comes from the  *)
(* driver or the cache, and when its tensors are gone.  There is no way    *)
(* out of "retired", and none from "published" but through its owner.      *)
(***************************************************************************)
Edges == {<<"driver", "private">>, <<"cached", "private">>,
          <<"private", "published">>, <<"published", "private">>,
          <<"private", "cached">>, <<"private", "driver">>,
          <<"private", "retired">>}

Init ==
  /\ phase = [p \in Pointers |-> "driver"]
  /\ ordered = {}
  /\ suspect = {}

\* Suspicion arises in use and ends only when the driver has the block back.
SuspicionLasts(p) ==
  /\ p \in suspect' \ suspect => phase[p] \in {"private", "published"}
  /\ p \in suspect \ suspect' => phase'[p] = "driver"

\* A suspect block is never cached, and a stream-ordered one never recycled.
SuspectIsNotReused(p) ==
  p \in suspect => /\ phase'[p] # "cached"
                   /\ phase'[p] = "driver" => p \notin ordered

Move(p) ==
  /\ phase'[p] = phase[p] \/ <<phase[p], phase'[p]>> \in Edges
  /\ phase[p] # "driver" /\ phase'[p] # "driver" =>
       (p \in ordered' <=> p \in ordered)
  /\ SuspicionLasts(p)
  /\ SuspectIsNotReused(p)

\* One step may move several blocks: one is cached, others are evicted.
Next ==
  /\ phase' \in [Pointers -> Phases]
  /\ ordered' \subseteq Pointers /\ suspect' \subseteq Pointers
  /\ \A p \in Pointers : Move(p)

Spec == Init /\ [][Next]_<<phase, ordered, suspect>>
=============================================================================
