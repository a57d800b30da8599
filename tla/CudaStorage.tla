----------------------------- MODULE CudaStorage -----------------------------
(***************************************************************************)
(* Native CUDA storage of src/src/cuda.rs: threads allocate device blocks, *)
(* run work on them, publish them as tensors' storage and drop them.  They *)
(* share the front cache CACHE, the flag CACHE_HEALTHY and the pools of    *)
(* CudaPool.  A step ends at each access to shared state or call of the    *)
(* driver whose outcome matters; what a thread does between two of them is *)
(* part of the earlier step.                                               *)
(*                                                                         *)
(* The flag is Relaxed in the code, and sequentially consistent here: it   *)
(* is the one atomic, and only ever falls.  A load that still finds it up  *)
(* is ordered by no lock or Arc after the store, which may as well have    *)
(* come later, so each execution is one of some interleaving.              *)
(***************************************************************************)
EXTENDS CudaPool, FiniteSets, Sequences, SequencesExt

CONSTANTS Threads,
          Pointers,     \* addresses the driver may return
          Sizes,        \* byte counts operations ask for, 0 included
          MaxEntries,   \* entries of the front cache: 32 in the code
          CacheBytes,   \* CACHE_BYTES: 64 MiB in the code
          Home,         \* the device each thread has selected on its own
          NoDevice      \* a guard that has nothing to restore

ASSUME StorageConstants ==
  /\ Sizes \subseteq Nat /\ MaxEntries \in Nat \ {0} /\ CacheBytes \in Nat
  /\ Home \in [Threads -> Devices] /\ NoDevice \notin Devices

VARIABLES
  healthy,    \* CACHE_HEALTHY
  cache,      \* CACHE, oldest return first
  live,       \* storage published to tensors and kept by their Arcs
  mapped,     \* external: blocks the driver has handed out
  lost,       \* blocks the process keeps mapped and never touches again
  disclosed,  \* ghost: blocks of failed work but that of zeros and uploads
  strayed,    \* ghost: threads a guard failed to move back
  pc,         \* where each thread is
  op,         \* the operation each thread runs
  held,       \* blocks an operation owns, in the order it would drop them
  evicted,    \* Drop's local list of blocks to release
  current,    \* external: the device the runtime has selected per thread
  guard,      \* device to restore when the operation's DeviceGuard drops
  inner       \* device to restore when the guard of one release drops

threadVars == <<op, held, evicted, current, guard, inner, strayed, pc>>
vars == <<pools, healthy, cache, live, mapped, lost, disclosed,
          threadVars>>

\* CudaFloat32Storage and the cache's tuples, without the logical length.
Block == [device : Devices, bytes : Nat, ptr : Pointers, pooled : BOOLEAN]

(***************************************************************************)
(* Of one block: zeros; upload is from_host; plan is pointwise_plan_upload *)
(* within PointwisePlan::new; kernel is copy_device, add or unary_output,  *)
(* hence also matmul, contiguous and a sum_rows that needs no scratch.     *)
(* sum_rows takes its scratch inside the launch closure, pointwise before  *)
(* its output.  HoldsGuard: the guard outlives the blocks the call drops.  *)
(***************************************************************************)
OneBlock == {"zeros", "upload", "plan", "kernel"}
WithScratch == {"sum_rows", "pointwise"}
HoldsGuard == {"plan", "pointwise"}
Op == [kind : OneBlock \cup WithScratch \cup {"drop", "none"},
       device : Devices \cup {NoDevice}, bytes : Nat, inputs : SUBSET Block,
       failed : BOOLEAN]
NoOp == [kind |-> "none", device |-> NoDevice, bytes |-> 0, inputs |-> {},
         failed |-> FALSE]

Labels == {"idle", "cache_health", "cache_take", "pool_health",
           "pool_allocate", "malloc", "launch", "synchronize",
           "disable_reuse", "drop", "cache_push", "release", "free_health",
           "free", "free_async", "disable_after_free", "return"}

Init ==
  /\ PoolInit
  /\ healthy = TRUE
  /\ cache = <<>>
  /\ live = {} /\ mapped = {} /\ lost = {}
  /\ disclosed = {} /\ strayed = {}
  /\ pc = [t \in Threads |-> "idle"]
  /\ op = [t \in Threads |-> NoOp]
  /\ held = [t \in Threads |-> <<>>]
  /\ evicted = [t \in Threads |-> <<>>]
  /\ current = Home
  /\ guard = [t \in Threads |-> NoDevice]
  /\ inner = [t \in Threads |-> NoDevice]

-----------------------------------------------------------------------------
Goto(t, label) == pc' = [pc EXCEPT ![t] = label]

\* The blocks an operation reads or writes until it returns.
Touched(t) == op[t].inputs \cup Range(held[t])

\* Blocks some running operation borrows: their Arcs cannot reach zero.
Borrowed == UNION {op[t].inputs : t \in Threads}

\* CACHE's mutex is free for t: no other thread is between a drop's load of
\* the flag and the push that follows, which it keeps the mutex for.
CacheLock(t) == \A u \in Threads \ {t} : pc[u] # "cache_push"

BytesOf(blocks) == FoldSeq(LAMBDA b, sum : b.bytes + sum, 0, blocks)

\* Runtime::guard: the device to go back to, if the guard changes it at all.
NothingPrevious(t, device) == NoDevice      \* mutant: never goes back
Previous(t, device) == IF current[t] = device THEN NoDevice ELSE current[t]

\* Mutant: the guard goes back whether or not it changed the device.
RestoreAlways(t, previous) ==
  current' = [current EXCEPT ![t] = previous] /\ UNCHANGED strayed

(***************************************************************************)
(* DeviceGuard::drop: back to the previous device if the guard changed it. *)
(* The status of cudaSetDevice is ignored.                                 *)
(***************************************************************************)
Restore(t, previous) ==
  IF previous = NoDevice
  THEN UNCHANGED <<current, strayed>>
  ELSE \/ current' = [current EXCEPT ![t] = previous] /\ UNCHANGED strayed
       \/ strayed' = strayed \cup {t} /\ UNCHANGED current

\* `let (result, _guard)`: the guard drops before the block, but for HoldsGuard.
LeaveGuard(t) ==
  IF op[t].kind \in HoldsGuard
  THEN UNCHANGED <<current, strayed, guard>>
  ELSE Restore(t, guard[t]) /\ guard' = [guard EXCEPT ![t] = NoDevice]

\* What t does next once it holds `own` and has `out` left to release.
Unwind(t, own, out) ==
  /\ held' = [held EXCEPT ![t] = own]
  /\ evicted' = [evicted EXCEPT ![t] = out]
  /\ Goto(t, IF out # <<>> THEN "release"
             ELSE IF own # <<>> THEN "drop" ELSE "return")

\* An operation that failed drops everything it allocated.
Fail(t) == LeaveGuard(t) /\ Unwind(t, held[t], <<>>)

\* An operation that succeeded publishes its output and drops its scratch.
Publish(t) ==
  LET outputs == IF op[t].kind \in WithScratch THEN Front(held[t]) ELSE held[t]
      scratch == IF op[t].kind \in WithScratch THEN <<Last(held[t])>> ELSE <<>>
  IN  /\ live' = live \cup Range(outputs)
      /\ LeaveGuard(t)
      /\ Unwind(t, scratch, <<>>)

-----------------------------------------------------------------------------
(***************************************************************************)
(* Entering an operation: the argument checks have passed and its guard is *)
(* taken.  A guard that fails returns before anything changed.  A compiled *)
(* launch borrows its plan's instructions besides its operands.            *)
(***************************************************************************)
Begin(t) ==
  /\ pc[t] = "idle"
  /\ \E kind \in OneBlock \cup WithScratch, d \in Devices, bytes \in Sizes :
     \E inputs \in SUBSET {b \in live : b.device = d} :
       /\ Cardinality(inputs) <= IF kind = "pointwise" THEN 3 ELSE 2
       /\ kind \in {"zeros", "upload", "plan"} => inputs = {}
       /\ kind = "sum_rows" => Cardinality(inputs) = 1
       /\ kind = "pointwise" => inputs # {}
       /\ kind \in WithScratch \cup HoldsGuard => bytes # 0
       /\ op' = [op EXCEPT ![t] =
                   [kind |-> kind, device |-> d, bytes |-> bytes,
                    inputs |-> inputs, failed |-> FALSE]]
       /\ current' = [current EXCEPT ![t] = d]
       /\ guard' = [guard EXCEPT ![t] = Previous(t, d)]
  /\ Goto(t, "cache_health")
  /\ UNCHANGED <<pools, healthy, cache, live, mapped, lost, disclosed,
                 held, evicted, inner, strayed>>

\* The last Arc of a storage goes away; no running operation borrows it.
BeginDrop(t) ==
  /\ pc[t] = "idle"
  /\ \E b \in live \ Borrowed :
       /\ live' = live \ {b}
       /\ held' = [held EXCEPT ![t] = <<b>>]
       /\ op' = [op EXCEPT ![t] = [NoOp EXCEPT !.kind = "drop"]]
  /\ Goto(t, "drop")
  /\ UNCHANGED <<pools, healthy, cache, mapped, lost, disclosed,
                 evicted, current, guard, inner, strayed>>

\* allocate's first load of CACHE_HEALTHY.
CacheHealth(t) ==
  /\ pc[t] = "cache_health"
  /\ Goto(t, IF healthy THEN "cache_take" ELSE "pool_health")
  /\ UNCHANGED <<pools, healthy, cache, live, mapped, lost, disclosed,
                 op, held, evicted, current, guard, inner, strayed>>

\* Mutant: blocks of any device fit.
FitsAnyDevice(t, block) ==
  LET request == op[t].bytes
  IN  block.bytes >= request /\ block.bytes - request <= request \div 4

\* A cached block may serve a request it exceeds by at most a quarter.
Fits(t, block) ==
  LET request == op[t].bytes
  IN  /\ block.device = op[t].device
      /\ block.bytes >= request
      /\ block.bytes - request <= request \div 4

\* The smallest fit, the oldest of equals: min_by_key keeps the first.
IsBestFit(t, i) ==
  /\ Fits(t, cache[i])
  /\ \A j \in DOMAIN cache : Fits(t, cache[j]) =>
       \/ cache[i].bytes < cache[j].bytes
       \/ cache[i].bytes = cache[j].bytes /\ i <= j

\* allocate returned `block`; go on to the second allocation or the launch.
Obtain(t, block) ==
  /\ held' = [held EXCEPT ![t] =
                IF op[t].kind = "pointwise" THEN <<block>> \o @
                ELSE Append(@, block)]
  /\ IF op[t].kind \in WithScratch /\ held[t] = <<>>
     THEN /\ \E bytes \in Sizes \ {0} : op' = [op EXCEPT ![t].bytes = bytes]
          /\ Goto(t, "cache_health")
     ELSE Goto(t, "launch") /\ UNCHANGED op

\* Under the CACHE lock: take the best fit, or leave the cache alone.
CacheTake(t) ==
  /\ pc[t] = "cache_take"
  /\ CacheLock(t)
  /\ \/ \E i \in DOMAIN cache :
          /\ IsBestFit(t, i)
          /\ cache' = RemoveAt(cache, i)
          /\ Obtain(t, cache[i])
     \/ /\ \A i \in DOMAIN cache : ~Fits(t, cache[i])
        /\ Goto(t, "pool_health")
        /\ UNCHANGED <<cache, op, held>>
  /\ UNCHANGED <<pools, healthy, live, mapped, lost, disclosed,
                 evicted, current, guard, inner, strayed>>

\* The second load; a request of no bytes needs no memory and no launch.
PoolHealth(t) ==
  /\ pc[t] = "pool_health"
  /\ IF op[t].bytes = 0
     THEN Publish(t)
     ELSE /\ Goto(t, IF healthy THEN "pool_allocate" ELSE "malloc")
          /\ UNCHANGED <<live, held, evicted, current, guard, strayed>>
  /\ UNCHANGED <<pools, healthy, cache, mapped, lost, disclosed,
                 op, inner>>

\* The driver returned an address: a block of exactly the requested bytes.
Map(t, pooled) ==
  \E p \in {q \in Pointers : \A b \in mapped : b.ptr # q} :
    LET block == [device |-> op[t].device, bytes |-> op[t].bytes, ptr |-> p,
                  pooled |-> pooled]
    IN  mapped' = mapped \cup {block} /\ Obtain(t, block)

(***************************************************************************)
(* allocate returned an error.  In sum_rows the scratch is allocated by    *)
(* the launch closure, so the error is one of the launch: the caller still *)
(* waits and disables reuse.                                               *)
(***************************************************************************)
AllocateFailed(t) ==
  IF op[t].kind = "sum_rows" /\ held[t] # <<>>
  THEN /\ op' = [op EXCEPT ![t].failed = TRUE]
       /\ Goto(t, "synchronize")
       /\ UNCHANGED <<held, evicted, current, guard, strayed>>
  ELSE Fail(t) /\ UNCHANGED op

\* pool::Api::allocate: its block, "no pools here", or its error.
PoolAllocate(t) ==
  /\ pc[t] = "pool_allocate"
  /\ \/ /\ PoolGrants(op[t].device, op[t].bytes)
        /\ Map(t, TRUE)
        /\ UNCHANGED <<evicted, current, guard, strayed>>
     \/ /\ PoolUnsupported(op[t].device)
        /\ Goto(t, "malloc")
        /\ UNCHANGED <<mapped, op, held, evicted, current, guard, strayed>>
     \/ /\ PoolRefuses(op[t].device, op[t].bytes)
        /\ AllocateFailed(t)
        /\ UNCHANGED mapped
  /\ UNCHANGED <<healthy, cache, live, lost, disclosed, inner>>

\* cudaMalloc.
Malloc(t) ==
  /\ pc[t] = "malloc"
  /\ \/ Map(t, FALSE) /\ UNCHANGED <<evicted, current, guard, strayed>>
     \/ AllocateFailed(t) /\ UNCHANGED mapped
  /\ UNCHANGED <<pools, healthy, cache, live, lost, disclosed, inner>>

-----------------------------------------------------------------------------
(***************************************************************************)
(* The work itself.  zeros submits a memset and does not wait; upload      *)
(* submits a copy.  Both return at once, with `?` and the flag untouched,  *)
(* if the driver refuses; every other operation goes on to wait whatever   *)
(* the status of its launches, and will disable reuse if one failed.       *)
(***************************************************************************)
Launch(t) ==
  /\ pc[t] = "launch"
  /\ \E accepted \in BOOLEAN :
       CASE op[t].kind = "zeros" ->
              /\ IF accepted THEN Publish(t) ELSE Fail(t) /\ UNCHANGED live
              /\ UNCHANGED <<op, disclosed>>
         [] op[t].kind = "upload" ->
              /\ IF accepted
                 THEN /\ Goto(t, "synchronize")
                      /\ UNCHANGED <<held, evicted, current, guard, strayed>>
                 ELSE Fail(t)
              /\ UNCHANGED <<op, disclosed, live>>
         [] OTHER ->
              /\ op' = [op EXCEPT ![t].failed = ~accepted]
              /\ disclosed' = IF accepted THEN disclosed
                              ELSE disclosed \cup Touched(t)
              /\ Goto(t, "synchronize")
              /\ UNCHANGED <<live, held, evicted, current, guard, strayed>>
  /\ UNCHANGED <<pools, healthy, cache, mapped, lost, inner>>

(***************************************************************************)
(* cudaStreamSynchronize.  An upload whose wait fails returns the error    *)
(* with `?`; the others first store FALSE in CACHE_HEALTHY.                *)
(***************************************************************************)
Synchronize(t) ==
  /\ pc[t] = "synchronize"
  /\ \E completed \in BOOLEAN :
       IF op[t].kind = "upload"
       THEN /\ IF completed THEN Publish(t) ELSE Fail(t) /\ UNCHANGED live
            /\ UNCHANGED disclosed
       ELSE /\ IF completed /\ ~op[t].failed
               THEN Publish(t)
               ELSE /\ Goto(t, "disable_reuse")
                    /\ UNCHANGED <<live, held, evicted, current, guard, strayed>>
            /\ disclosed' = IF completed THEN disclosed
                            ELSE disclosed \cup Touched(t)
  /\ UNCHANGED <<pools, healthy, cache, mapped, lost, op, inner>>

\* Mutant: the store is missing.
UnwindOnly(t) ==
  /\ pc[t] = "disable_reuse"
  /\ Fail(t)
  /\ UNCHANGED <<pools, healthy, cache, live, mapped, lost, disclosed, op, inner>>

\* CACHE_HEALTHY.store(false), before anything the operation owns is dropped.
DisableReuse(t) ==
  /\ pc[t] = "disable_reuse"
  /\ healthy' = FALSE
  /\ Fail(t)
  /\ UNCHANGED <<pools, cache, live, mapped, lost, disclosed, op, inner>>

-----------------------------------------------------------------------------
\* Mutant: the youngest evicted entry stays in the cache.
KeptWithLast(k) == SubSeq(cache, IF k = 0 THEN 1 ELSE k, Len(cache))

\* The cache without its k oldest entries.
Kept(k) == SubSeq(cache, k + 1, Len(cache))

\* Once its k oldest entries are gone, the cache has room for `bytes`.
HasRoom(k, bytes) ==
  Len(Kept(k)) < MaxEntries /\ BytesOf(Kept(k)) <= CacheBytes - bytes

\* Mutant: the flag is not read under the lock.
FitsCache(block) == block.bytes <= CacheBytes

\* The flag and the size let a dropped block into the cache.
Cacheable(block) == healthy /\ block.bytes <= CacheBytes

(***************************************************************************)
(* Drop takes the CACHE lock and loads the flag: it releases the block, or *)
(* goes on, the lock in hand, to cache it.  Whoever stores FALSE does so   *)
(* without the lock, so the flag may fall before the push.                 *)
(***************************************************************************)
Drop(t) ==
  LET block == Head(held[t]) IN
  /\ pc[t] = "drop"
  /\ CacheLock(t)
  /\ IF Cacheable(block)
     THEN Goto(t, "cache_push") /\ UNCHANGED <<held, evicted>>
     ELSE Unwind(t, Tail(held[t]), <<block>>)
  /\ UNCHANGED <<pools, healthy, cache, live, mapped, lost, disclosed,
                 op, current, guard, inner, strayed>>

\* Still under the lock: the block goes in, and as few of the oldest entries
\* as that takes go out.
CachePush(t) ==
  LET block == Head(held[t]) IN
  /\ pc[t] = "cache_push"
  /\ \E k \in 0..Len(cache) :
       /\ HasRoom(k, block.bytes)
       /\ \A j \in 0..(k - 1) : ~HasRoom(j, block.bytes)
       /\ cache' = Append(Kept(k), block)
       /\ Unwind(t, Tail(held[t]), SubSeq(cache, 1, k))
  /\ UNCHANGED <<pools, healthy, live, mapped, lost, disclosed,
                 op, current, guard, inner, strayed>>

\* After the lock: the guard of one evicted block; without it the block leaks.
Release(t) ==
  LET block == Head(evicted[t]) IN
  /\ pc[t] = "release"
  /\ \/ /\ current' = [current EXCEPT ![t] = block.device]
        /\ inner' = [inner EXCEPT ![t] = Previous(t, block.device)]
        /\ Goto(t, IF block.pooled THEN "free_health" ELSE "free")
        /\ UNCHANGED <<lost, held, evicted>>
     \/ /\ lost' = lost \cup {block}
        /\ Unwind(t, held[t], Tail(evicted[t]))
        /\ UNCHANGED <<current, inner>>
  /\ UNCHANGED <<pools, healthy, cache, live, mapped, disclosed,
                 op, guard, strayed>>

\* Mutant: the loop stays at the block it has released.
ReleasedAgain(t) ==
  /\ Restore(t, inner[t])
  /\ inner' = [inner EXCEPT ![t] = NoDevice]
  /\ Unwind(t, held[t], evicted[t])

\* The inner guard drops and the loop goes on.
Released(t) ==
  /\ Restore(t, inner[t])
  /\ inner' = [inner EXCEPT ![t] = NoDevice]
  /\ Unwind(t, held[t], Tail(evicted[t]))

\* Mutant: a pooled block is returned whatever the flag says.
FreeUnchecked(t) ==
  /\ pc[t] = "free_health"
  /\ Goto(t, "free_async")
  /\ UNCHANGED <<pools, healthy, cache, live, mapped, lost, disclosed, op, held,
                 evicted, current, guard, inner, strayed>>

\* A pooled block is returned only while reuse is enabled, else quarantined.
FreeHealth(t) ==
  /\ pc[t] = "free_health"
  /\ IF healthy
     THEN /\ Goto(t, "free_async")
          /\ UNCHANGED <<lost, held, evicted, current, inner, strayed>>
     ELSE lost' = lost \cup {Head(evicted[t])} /\ Released(t)
  /\ UNCHANGED <<pools, healthy, cache, live, mapped, disclosed,
                 op, guard>>

\* Mutant: the release never reaches the driver.
Forget(block) == UNCHANGED <<mapped, disclosed>>

\* The driver took the block back; what it does with it is its own affair.
Unmap(block) ==
  /\ mapped' = mapped \ {block}
  /\ disclosed' = disclosed \ {block}

\* cudaFree, its status ignored: a block it kept is lost.
Free(t) ==
  LET block == Head(evicted[t]) IN
  /\ pc[t] = "free"
  /\ \/ Unmap(block) /\ UNCHANGED lost
     \/ lost' = lost \cup {block} /\ UNCHANGED <<mapped, disclosed>>
  /\ Released(t)
  /\ UNCHANGED <<pools, healthy, cache, live, op, guard>>

\* pool::Api::free, under the pools' lock.
FreeAsync(t) ==
  LET block == Head(evicted[t]) IN
  /\ pc[t] = "free_async"
  /\ \/ /\ PoolFrees(block.device, block.bytes)
        /\ Unmap(block)
        /\ Released(t)
     \/ /\ PoolKeeps(block.device, block.bytes)
        /\ Goto(t, "disable_after_free")
        /\ UNCHANGED <<mapped, disclosed, held, evicted, current,
                       inner, strayed>>
  /\ UNCHANGED <<healthy, cache, live, lost, op, guard>>

DisableAfterFree(t) ==
  /\ pc[t] = "disable_after_free"
  /\ healthy' = FALSE
  /\ lost' = lost \cup {Head(evicted[t])}
  /\ Released(t)
  /\ UNCHANGED <<pools, cache, live, mapped, disclosed, op, guard>>

\* Back in the caller: the last guard drops and the borrows end.
Return(t) ==
  /\ pc[t] = "return"
  /\ Restore(t, guard[t])
  /\ guard' = [guard EXCEPT ![t] = NoDevice]
  /\ op' = [op EXCEPT ![t] = NoOp]
  /\ Goto(t, "idle")
  /\ UNCHANGED <<pools, healthy, cache, live, mapped, lost, disclosed,
                 held, evicted, inner>>

\* What a thread that has entered an operation does next.
Step(t) ==
  \/ CacheHealth(t) \/ CacheTake(t) \/ PoolHealth(t) \/ PoolAllocate(t)
  \/ Malloc(t) \/ Launch(t) \/ Synchronize(t) \/ DisableReuse(t)
  \/ Drop(t) \/ CachePush(t) \/ Release(t) \/ FreeHealth(t) \/ Free(t) \/ FreeAsync(t)
  \/ DisableAfterFree(t) \/ Return(t)

Next == \E t \in Threads : Begin(t) \/ BeginDrop(t) \/ Step(t)

(***************************************************************************)
(* The one lock held across a step is CACHE's, from a drop's load to its   *)
(* push, which never waits: where a single thread runs, a scheduled thread *)
(* always gets on.                                                         *)
(***************************************************************************)
Fairness == \A t \in Threads : WF_vars(Step(t))

Spec == Init /\ [][Next]_vars
FairSpec == Spec /\ Fairness

-----------------------------------------------------------------------------
(***************************************************************************)
(* Properties.                                                             *)
(***************************************************************************)

\* Every variable keeps the shape of the Rust values it stands for.
TypeOK ==
  /\ pools \in [Devices -> Pool]
  /\ healthy \in BOOLEAN
  /\ cache \in Seq(Block)
  /\ live \subseteq Block /\ mapped \subseteq Block /\ lost \subseteq Block
  /\ disclosed \subseteq Block
  /\ strayed \subseteq Threads
  /\ pc \in [Threads -> Labels]
  /\ op \in [Threads -> Op]
  /\ held \in [Threads -> Seq(Block)]
  /\ evicted \in [Threads -> Seq(Block)]
  /\ current \in [Threads -> Devices]
  /\ guard \in [Threads -> Devices \cup {NoDevice}]
  /\ inner \in [Threads -> Devices \cup {NoDevice}]

\* The blocks only thread t can reach.
Private(t) == Range(held[t]) \cup Range(evicted[t])

(***************************************************************************)
(* Single ownership: a block the driver handed out is either some tensors' *)
(* storage, or in the front cache, or in the hands of one thread, or lost, *)
(* and nowhere twice.  A block reachable twice would be handed out while   *)
(* in use, or freed twice.                                                 *)
(***************************************************************************)
SingleOwner ==
  /\ live \cap Range(cache) = {}
  /\ lost \cap (live \cup Range(cache)) = {}
  /\ \A t \in Threads :
       /\ Range(held[t]) \cap Range(evicted[t]) = {}
       /\ Private(t) \cap (live \cup Range(cache) \cup lost) = {}
       /\ \A u \in Threads \ {t} : Private(t) \cap Private(u) = {}
       /\ IsInjective(held[t]) /\ IsInjective(evicted[t])
  /\ IsInjective(cache)

(***************************************************************************)
(* No leak and no dangling block: the blocks the driver has handed out are *)
(* exactly those with an owner, each recorded with the address, device and *)
(* original capacity the driver knows, whatever size it is reused for.     *)
(***************************************************************************)
NoLeak ==
  /\ mapped = live \cup Range(cache) \cup lost
                \cup UNION {Private(t) : t \in Threads}
  /\ \A a, b \in mapped : a.ptr = b.ptr => a = b

(***************************************************************************)
(* A kernel, a copy between blocks, a sum of rows, a compiled launch or    *)
(* the upload of a plan whose submission or wait failed gives none of its  *)
(* blocks to anyone: none is ever in the front cache, where another        *)
(* operation would find it, nor on its way back to a pool.  This is not    *)
(* said of a fill by zeros nor of an upload from the host, whose blocks    *)
(* the code does cache after a failure (see FailureDisablesReuse).         *)
(***************************************************************************)
DisclosedNotReused ==
  /\ disclosed \cap Range(cache) = {}
  /\ \A t \in Threads :
       pc[t] = "free_async" => Head(evicted[t]) \notin disclosed


\* The cache's documented bounds, across devices.
CacheBounded == Len(cache) <= MaxEntries /\ BytesOf(cache) <= CacheBytes

(***************************************************************************)
(* A pool's active bytes are the capacities of the blocks allocated from   *)
(* it and not returned, through reuse for smaller requests, eviction,      *)
(* quarantine and every failed call.                                       *)
(***************************************************************************)
PoolBudget ==
  \A d \in Devices :
    pools[d].active = MapThenSumSet(LAMBDA b : b.bytes,
                        {b \in mapped : b.device = d /\ b.pooled})

(***************************************************************************)
(* While reuse is enabled the driver's release threshold never falls under *)
(* the live bytes plus the slack, except inside a release that failed.     *)
(***************************************************************************)
ThresholdCoversLive ==
  \/ ~healthy
  \/ \E t \in Threads : pc[t] = "disable_after_free"
  \/ \A d \in Devices : pools[d].state = "ready" =>
       pools[d].threshold >= pools[d].active + Slack

(***************************************************************************)
(* What reuse holds on to is within its bounds, and what is told to the    *)
(* driver of a pool agrees with what the program has of it.                *)
(***************************************************************************)
ReuseAccounted == CacheBounded /\ PoolBudget /\ ThresholdCoversLive

(***************************************************************************)
(* Every driver call is made with the device of the blocks it is about     *)
(* selected, also when a release runs inside another device's operation,   *)
(* a block comes from the cache all devices share, or a guard could not go *)
(* back.                                                                   *)
(***************************************************************************)
CallsOnOwner ==
  \A t \in Threads :
    /\ pc[t] \in {"pool_allocate", "malloc", "launch", "synchronize"} =>
         /\ current[t] = op[t].device
         /\ \A b \in Touched(t) : b.device = op[t].device
    /\ pc[t] \in {"free", "free_async"} =>
         current[t] = Head(evicted[t]).device

\* A thread leaves an operation on the device it came with.
DeviceRestored ==
  \A t \in Threads :
    pc[t] = "idle" /\ t \notin strayed => current[t] = Home[t]

\* Blocks whose drop has found the flag up and has not pushed them yet.
Returning == {Head(held[t]) : t \in {u \in Threads : pc[u] = "cache_push"}}

(***************************************************************************)
(* Once reuse is disabled it stays so, and what the cache still receives   *)
(* is at most the one block whose drop had loaded the flag before and has  *)
(* held the lock since: every drop that comes after, and every one that    *)
(* waits for the lock meanwhile, releases its block.                       *)
(***************************************************************************)
ReuseStaysDisabled ==
  [][~healthy =>
       /\ ~healthy'
       /\ Range(cache') \subseteq Range(cache) \cup Returning
       /\ Returning' \subseteq Returning
       /\ \A a, b \in Returning : a = b]_vars

(***************************************************************************)
(* The storage implements BlockProtocol: each block leads one of the lives *)
(* it allows, whatever the threads do to the others.  Its suspects are the *)
(* disclosed blocks: a fill or an upload that failed makes none.           *)
(***************************************************************************)
Addresses(blocks) == {b.ptr : b \in blocks}

Protocol == INSTANCE BlockProtocol WITH
  phase <- [p \in Pointers |->
              CASE p \in Addresses(live) -> "published"
                [] p \in Addresses(Range(cache)) -> "cached"
                [] p \in Addresses(lost) -> "retired"
                [] p \in Addresses(mapped \ (live \cup Range(cache) \cup lost))
                     -> "private"
                [] OTHER -> "driver"],
  ordered <- Addresses({b \in mapped : b.pooled}),
  suspect <- Addresses(disclosed)

ImplementsProtocol == Protocol!Spec

\* Every operation, its evictions and its failures included, returns.
OperationsReturn ==
  \A t \in Threads : pc[t] # "idle" ~> pc[t] = "idle"
=============================================================================
