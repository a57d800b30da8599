----------------------------- MODULE BufferLeases -----------------------------
(***************************************************************************)
(* PrivateCudaBufferPool of python/torch_rs/_cuda_runtime_ownership.py:    *)
(* equal buffers that are leased, given back and leased again, until the   *)
(* pool is closed.  Each operation holds the pool's lock throughout.       *)
(***************************************************************************)
EXTENDS Integers, Sequences, SequencesExt, FiniteSets, TLC

CONSTANTS Buffers,       \* bound: how many buffers the pool may allocate, successfully or not
          Leases         \* bound: how many leases it may hand out

ASSUME LeaseConstants == Buffers \in Nat /\ Leases \in Nat

VARIABLES pointer,       \* _buffers: for each, whether its memory is "held", "freed" or "null"
          available,     \* _available
          live,          \* _live_leases: the lease of each buffer that has one
          leases,        \* every lease handed out: [buffer, released]
          closed,        \* _closed
          frees,         \* ghost: how often the memory of each buffer was freed
          surrendered    \* ghost: the buffers their lessees closed

leaseVars == <<pointer, available, live, leases, closed, frees, surrendered>>

LeaseInit ==
  /\ pointer = <<>>
  /\ available = <<>>
  /\ live = [b \in {} |-> 0]
  /\ leases = <<>>
  /\ closed = FALSE
  /\ frees = <<>>
  /\ surrendered = {}

\* PrivateCudaFloat32Buffer.close on each of bs: memory that is held is freed.
CloseBuffers(bs) ==
  LET freed == {b \in bs \cap DOMAIN pointer : pointer[b] = "held"}
  IN  /\ pointer' = [b \in DOMAIN pointer |-> IF b \in freed THEN "freed" ELSE pointer[b]]
      /\ frees' = [b \in DOMAIN frees |-> IF b \in freed THEN frees[b] + 1 ELSE frees[b]]

\* Buffers are appended in the order they are allocated; a failed cudaMalloc
\* leaves one that holds no memory.
Allocated(count, failed) ==
  /\ Len(pointer) + count + failed <= Buffers
  /\ pointer' = pointer \o [i \in 1..count |-> "held"] \o [i \in 1..failed |-> "null"]
  /\ frees' = frees \o [i \in 1..(count + failed) |-> 0]

HandOut(b) ==
  /\ Len(leases) < Leases
  /\ leases' = Append(leases, [buffer |-> b, released |-> FALSE])
  /\ live' = [c \in DOMAIN live \cup {b} |->
                IF c = b THEN Len(leases) + 1 ELSE live[c]]

---------------------------------------------------------------------------
(* Operations.  One that finds the pool closed, the lease released already *)
(* or the device wrong raises or returns, and changes nothing.             *)

preallocate(capacity) ==
  /\ ~closed /\ pointer = <<>>
  /\ Allocated(capacity, 0)
  /\ available' = [i \in 1..capacity |-> i]
  /\ UNCHANGED <<live, leases, closed, surrendered>>

\* An allocation fails after some succeeded: the pool is closed, which frees those.
PreallocateFails(capacity) ==
  /\ ~closed /\ pointer = <<>>
  /\ capacity + 1 <= Buffers
  /\ pointer' = [i \in 1..(capacity + 1) |-> IF i <= capacity THEN "freed" ELSE "null"]
  /\ frees' = [i \in 1..(capacity + 1) |-> IF i <= capacity THEN 1 ELSE 0]
  /\ closed' = TRUE
  /\ UNCHANGED <<available, live, leases, surrendered>>

AcquireIdle ==
  /\ ~closed /\ available # <<>>
  /\ HandOut(Last(available))
  /\ available' = Front(available)
  /\ UNCHANGED <<pointer, closed, frees, surrendered>>

AcquireNew ==
  /\ ~closed /\ available = <<>>
  /\ Allocated(1, 0)
  /\ HandOut(Len(pointer) + 1)
  /\ UNCHANGED <<available, closed, surrendered>>

AcquireFails ==
  /\ ~closed /\ available = <<>>
  /\ Allocated(0, 1)
  /\ UNCHANGED <<available, live, leases, closed, surrendered>>

\* The active lease of its buffer; another one is refused as stale.
Active(l) == leases[l].buffer \in DOMAIN live /\ live[leases[l].buffer] = l

\* What a release does with the buffer: nothing if its memory is gone, free it
\* if the pool was closed meanwhile, else keep it for the next lease.
GiveBack(b) ==
  IF pointer[b] # "held" THEN UNCHANGED <<pointer, frees, available>>
  ELSE IF closed THEN CloseBuffers({b}) /\ UNCHANGED available
  ELSE available' = Append(available, b) /\ UNCHANGED <<pointer, frees>>

release(l) ==
  /\ ~leases[l].released /\ Active(l)
  /\ leases' = [leases EXCEPT ![l].released = TRUE]
  /\ live' = [b \in DOMAIN live \ {leases[l].buffer} |-> live[b]]
  /\ GiveBack(leases[l].buffer)
  /\ UNCHANGED <<closed, surrendered>>

\* Mutant: a close frees what is leased too.
LeasedToo(bs) == bs

\* The buffers a close may free at once.
NotLeased(bs) == bs \ DOMAIN live

close ==
  /\ ~closed
  /\ closed' = TRUE
  /\ CloseBuffers(NotLeased(DOMAIN pointer))
  /\ available' = <<>>
  /\ UNCHANGED <<live, leases, surrendered>>

\* A lessee closes the buffer itself before it releases the lease.
Surrender(l) ==
  /\ ~leases[l].released
  /\ CloseBuffers({leases[l].buffer})
  /\ surrendered' = surrendered \cup {leases[l].buffer}
  /\ UNCHANGED <<available, live, leases, closed>>

LeaseStep ==
  \/ \E capacity \in 0..Buffers : preallocate(capacity) \/ PreallocateFails(capacity)
  \/ AcquireIdle \/ AcquireNew \/ AcquireFails \/ close
  \/ \E l \in DOMAIN leases : release(l) \/ Surrender(l)

LeaseSpec == LeaseInit /\ [][LeaseStep]_leaseVars

---------------------------------------------------------------------------
\* The invariants the head of the source file states.  At most one lease of a
\* buffer is live, a lease is live until it is released, and no buffer is both
\* leased and available; a leased buffer keeps its memory whatever happens to
\* the pool, unless its lessee closed it, and an available one has memory; the
\* memory of a buffer is freed at most once; and once the pool is closed, all
\* memory is freed but what is leased.
LeasesExclusive ==
  /\ \A b \in DOMAIN live : leases[live[b]] = [buffer |-> b, released |-> FALSE]
  /\ \A l \in DOMAIN leases : ~leases[l].released => Active(l)
  /\ \A b \in DOMAIN live : pointer[b] = "held" \/ b \in surrendered
  /\ \A i \in DOMAIN available : available[i] \notin DOMAIN live /\ pointer[available[i]] = "held"
  /\ IsInjective(available)
  /\ \A b \in DOMAIN frees : frees[b] = IF pointer[b] = "freed" THEN 1 ELSE 0
  /\ closed => \A b \in DOMAIN pointer : pointer[b] = "held" => b \in DOMAIN live
=============================================================================
