-------------------------- MODULE CudaStorageProofs --------------------------
(***************************************************************************)
(* For every set of threads, devices, addresses and sizes: types; that     *)
(* every block has one owner and none leaks, which the unsafe code of      *)
(* CudaStorage rests on; that every driver call of cuda.rs is made on the  *)
(* device of the blocks it is about, and an operation leaves its thread on *)
(* the device it came with; that what each device's pool and the cache are *)
(* told of agrees with what the program has; that no block of failed work  *)
(* is reused where the code answers the failure by disabling reuse; that   *)
(* reuse stays disabled; and that the storage implements BlockProtocol.    *)
(***************************************************************************)
EXTENDS CudaStorage, DataLemmas, TLAPS

-----------------------------------------------------------------------------
(***************************************************************************)
(* What a thread's label says of its operation and of the blocks it holds. *)
(***************************************************************************)
Allocating == {"cache_health", "cache_take", "pool_health", "pool_allocate",
               "malloc"}
Working == {"launch", "synchronize"}
Releasing == {"release", "free_health", "free", "free_async",
              "disable_after_free"}

ShapeOf(t) ==
  /\ pc[t] \in Allocating \cup Working =>
       op[t].device \in Devices /\ op[t].kind \in OneBlock \cup WithScratch
  /\ pc[t] \in Allocating /\ op[t].kind \in WithScratch => op[t].bytes # 0
  /\ pc[t] \in Allocating /\ op[t].kind \in OneBlock => held[t] = <<>>
  /\ pc[t] \in Working /\ op[t].kind \in WithScratch => held[t] # <<>>
  /\ pc[t] \in {"drop", "cache_push"} => held[t] # <<>>
  /\ pc[t] \in {"idle", "return"} => held[t] = <<>>
  /\ pc[t] \in Releasing <=> evicted[t] # <<>>

Shape == \A t \in Threads : ShapeOf(t)

TypeInv == TypeOK /\ Shape

USE DEF Allocating, Working, Releasing

(***************************************************************************)
(* The helpers the actions share, each with what it leaves of the types    *)
(* and of the shape.                                                       *)
(***************************************************************************)
LEMMA UnwindShape ==
  ASSUME TypeInv, NEW t \in Threads,
         NEW own \in Seq(Block), NEW out \in Seq(Block), Unwind(t, own, out)
  PROVE  /\ held' \in [Threads -> Seq(Block)]
         /\ evicted' \in [Threads -> Seq(Block)]
         /\ pc' \in [Threads -> Labels]
         /\ held'[t] = own /\ evicted'[t] = out
         /\ pc'[t] = IF out # <<>> THEN "release"
                     ELSE IF own # <<>> THEN "drop" ELSE "return"
         /\ \A u \in Threads \ {t} : /\ held'[u] = held[u]
                                     /\ evicted'[u] = evicted[u]
                                     /\ pc'[u] = pc[u]
BY DEF TypeInv, TypeOK, Unwind, Goto, Labels

LEMMA RestoreTypes ==
  ASSUME TypeInv, NEW t \in Threads, NEW previous \in Devices \cup {NoDevice},
         Restore(t, previous)
  PROVE  current' \in [Threads -> Devices] /\ strayed' \subseteq Threads
BY StorageConstants DEF TypeInv, TypeOK, Restore

LEMMA LeaveGuardTypes ==
  ASSUME TypeInv, NEW t \in Threads, LeaveGuard(t)
  PROVE  /\ current' \in [Threads -> Devices] /\ strayed' \subseteq Threads
         /\ guard' \in [Threads -> Devices \cup {NoDevice}]
<1>1. guard[t] \in Devices \cup {NoDevice}
  BY DEF TypeInv, TypeOK
<1>2. CASE op[t].kind \in HoldsGuard
  BY <1>2 DEF TypeInv, TypeOK, LeaveGuard
<1>3. CASE op[t].kind \notin HoldsGuard
  <2>1. Restore(t, guard[t]) /\ guard' = [guard EXCEPT ![t] = NoDevice]
    BY <1>3 DEF LeaveGuard
  <2> QED BY <1>1, <2>1, RestoreTypes DEF TypeInv, TypeOK
<1> QED BY <1>2, <1>3

\* An action of t leaves the shape of the other threads alone.
OnlyThread(t) ==
  \A u \in Threads \ {t} : /\ pc'[u] = pc[u] /\ op'[u] = op[u]
                           /\ held'[u] = held[u] /\ evicted'[u] = evicted[u]

LEMMA ShapeStep ==
  ASSUME TypeInv, NEW t \in Threads, ShapeOf(t)', OnlyThread(t)
  PROVE  Shape'
BY DEF TypeInv, Shape, ShapeOf, OnlyThread

\* The type of what Unwind and the guards may change.
ThreadTypes ==
  /\ pc \in [Threads -> Labels]
  /\ held \in [Threads -> Seq(Block)]
  /\ evicted \in [Threads -> Seq(Block)]
  /\ current \in [Threads -> Devices] /\ strayed \subseteq Threads
  /\ guard \in [Threads -> Devices \cup {NoDevice}]

LEMMA FailTypes ==
  ASSUME TypeInv, NEW t \in Threads, Fail(t)
  PROVE  /\ ThreadTypes' /\ ShapeOf(t)' /\ held'[t] = held[t] /\ evicted'[t] = <<>>
         /\ UNCHANGED op => OnlyThread(t)
         /\ op' \in [Threads -> Op] /\ op' = [op EXCEPT ![t] = op'[t]]
              => OnlyThread(t)
<1>1. held[t] \in Seq(Block) /\ <<>> \in Seq(Block)
  BY DEF TypeInv, TypeOK
<1>2. LeaveGuard(t) /\ Unwind(t, held[t], <<>>)
  BY DEF Fail
<1>3. /\ held' \in [Threads -> Seq(Block)]
      /\ evicted' \in [Threads -> Seq(Block)]
      /\ pc' \in [Threads -> Labels]
      /\ held'[t] = held[t] /\ evicted'[t] = <<>>
      /\ pc'[t] = IF held[t] # <<>> THEN "drop" ELSE "return"
      /\ \A u \in Threads \ {t} : /\ held'[u] = held[u]
                                  /\ evicted'[u] = evicted[u]
                                  /\ pc'[u] = pc[u]
  BY <1>1, <1>2, UnwindShape
<1>4. ThreadTypes'
  BY <1>2, <1>3, LeaveGuardTypes DEF ThreadTypes
<1>5. ShapeOf(t)'
  BY <1>3 DEF ShapeOf
<1> QED BY <1>3, <1>4, <1>5 DEF OnlyThread, TypeInv, TypeOK

LEMMA PublishTypes ==
  ASSUME TypeInv, NEW t \in Threads, Publish(t),
         op[t].kind \in WithScratch => held[t] # <<>>
  PROVE  /\ ThreadTypes' /\ ShapeOf(t)' /\ evicted'[t] = <<>>
         /\ live' \subseteq Block
         /\ UNCHANGED op => OnlyThread(t)
<1> DEFINE outputs == IF op[t].kind \in WithScratch THEN Front(held[t]) ELSE held[t]
           scratch == IF op[t].kind \in WithScratch THEN <<Last(held[t])>> ELSE <<>>
<1>1. held[t] \in Seq(Block)
  BY DEF TypeInv, TypeOK
<1>2. outputs \in Seq(Block) /\ scratch \in Seq(Block)
  BY <1>1, FrontBlocks, SingletonBlocks, EmptyBlocks
<1>3. /\ live' = live \cup Range(outputs)
      /\ LeaveGuard(t) /\ Unwind(t, scratch, <<>>)
  BY DEF Publish
<1> HIDE DEF outputs, scratch
<1>4. /\ held' \in [Threads -> Seq(Block)]
      /\ evicted' \in [Threads -> Seq(Block)]
      /\ pc' \in [Threads -> Labels]
      /\ held'[t] = scratch /\ evicted'[t] = <<>>
      /\ pc'[t] = IF scratch # <<>> THEN "drop" ELSE "return"
      /\ \A u \in Threads \ {t} : /\ held'[u] = held[u]
                                  /\ evicted'[u] = evicted[u]
                                  /\ pc'[u] = pc[u]
  BY <1>2, <1>3, UnwindShape, EmptyBlocks
<1>5. ThreadTypes'
  BY <1>3, <1>4, LeaveGuardTypes DEF ThreadTypes
<1>6. ShapeOf(t)'
  BY <1>4 DEF ShapeOf
<1>7. Range(outputs) \subseteq Block
  BY <1>2 DEF Range
<1> QED BY <1>3, <1>4, <1>5, <1>6, <1>7 DEF OnlyThread, TypeInv, TypeOK

LEMMA ObtainTypes ==
  ASSUME TypeInv, NEW t \in Threads, NEW block \in Block, pc[t] \in Allocating,
         Obtain(t, block), UNCHANGED evicted
  PROVE  /\ pc' \in [Threads -> Labels] /\ op' \in [Threads -> Op]
         /\ held' \in [Threads -> Seq(Block)]
         /\ ShapeOf(t)' /\ OnlyThread(t)
<1> DEFINE own == IF op[t].kind = "pointwise" THEN <<block>> \o held[t]
                  ELSE Append(held[t], block)
<1>1. held[t] \in Seq(Block) /\ op[t] \in Op /\ ShapeOf(t)
  BY DEF TypeInv, TypeOK, Shape
<1>2. own \in Seq(Block) /\ own # <<>>
  BY <1>1, ConsBlocks, AppendBlocks
<1>3. held' = [held EXCEPT ![t] = own]
  BY DEF Obtain
<1> HIDE DEF own
<1>4. held' \in [Threads -> Seq(Block)] /\ held'[t] # <<>>
      /\ \A u \in Threads \ {t} : held'[u] = held[u]
  BY <1>2, <1>3 DEF TypeInv, TypeOK
<1>5. CASE op[t].kind \in WithScratch /\ held[t] = <<>>
  <2>1. PICK bytes \in Sizes \ {0} : op' = [op EXCEPT ![t].bytes = bytes]
    BY <1>5 DEF Obtain
  <2>2. pc' = [pc EXCEPT ![t] = "cache_health"]
    BY <1>5 DEF Obtain, Goto
  <2>3. [op[t] EXCEPT !.bytes = bytes] \in Op
    BY <1>1, <2>1, StorageConstants DEF Op
  <2>4. op' \in [Threads -> Op] /\ pc' \in [Threads -> Labels]
    BY <2>1, <2>2, <2>3 DEF TypeInv, TypeOK, Labels
  <2>5. op'[t].bytes = bytes /\ op'[t].kind = op[t].kind /\ op'[t].device = op[t].device
    BY <2>1, <1>1 DEF TypeInv, TypeOK, Op
  <2>6. ShapeOf(t)'
    BY <1>1, <1>5, <2>1, <2>2, <2>5 DEF ShapeOf, TypeInv, TypeOK, OneBlock, WithScratch
  <2> QED BY <1>4, <2>1, <2>2, <2>4, <2>6 DEF OnlyThread, TypeInv, TypeOK
<1>6. CASE ~(op[t].kind \in WithScratch /\ held[t] = <<>>)
  <2>1. pc' = [pc EXCEPT ![t] = "launch"] /\ UNCHANGED op
    BY <1>6 DEF Obtain, Goto
  <2> QED BY <1>1, <1>4, <2>1 DEF ShapeOf, OnlyThread, TypeInv, TypeOK, Labels
<1> QED BY <1>5, <1>6

-----------------------------------------------------------------------------
(***************************************************************************)
(* Each action keeps the types and the shape.                              *)
(***************************************************************************)
StepKept(t) == TypeOK' /\ ShapeOf(t)' /\ OnlyThread(t)

LEMMA BeginTypes ==
  ASSUME TypeInv, NEW t \in Threads, Begin(t) \/ BeginDrop(t)
  PROVE  StepKept(t)
<1>1. CASE Begin(t)
  <2>0. PICK kind \in OneBlock \cup WithScratch, d \in Devices, bytes \in Sizes :
          \E inputs \in SUBSET {b \in live : b.device = d} :
            /\ Cardinality(inputs) <= IF kind = "pointwise" THEN 3 ELSE 2
            /\ kind \in {"zeros", "upload", "plan"} => inputs = {}
            /\ kind = "sum_rows" => Cardinality(inputs) = 1
            /\ kind = "pointwise" => inputs # {}
            /\ kind \in WithScratch \cup HoldsGuard => bytes # 0
            /\ op' = [op EXCEPT ![t] =
                        [kind |-> kind, device |-> d, bytes |-> bytes,
                         inputs |-> inputs, failed |-> FALSE]]
            /\ current' = [current EXCEPT ![t] = d]
            /\ guard' = [guard EXCEPT ![t] = Previous(t, d)]
    BY <1>1 DEF Begin
  <2>1. PICK inputs \in SUBSET {b \in live : b.device = d} :
          /\ kind \in WithScratch => bytes # 0
          /\ op' = [op EXCEPT ![t] =
                      [kind |-> kind, device |-> d, bytes |-> bytes,
                       inputs |-> inputs, failed |-> FALSE]]
          /\ current' = [current EXCEPT ![t] = d]
          /\ guard' = [guard EXCEPT ![t] = Previous(t, d)]
    BY <2>0
  <2>2. [kind |-> kind, device |-> d, bytes |-> bytes,
         inputs |-> inputs, failed |-> FALSE] \in Op
    BY <2>1, StorageConstants DEF Op, TypeInv, TypeOK
  <2>3. op' \in [Threads -> Op] /\ op'[t].kind = kind /\ op'[t].device = d
        /\ op'[t].bytes = bytes
    BY <2>1, <2>2 DEF TypeInv, TypeOK
  <2>4. Previous(t, d) \in Devices \cup {NoDevice}
    BY DEF Previous, TypeInv, TypeOK
  <2>5. pc' = [pc EXCEPT ![t] = "cache_health"] /\ pc[t] = "idle"
    BY <1>1 DEF Begin, Goto
  <2>6. UNCHANGED <<pools, healthy, cache, live, mapped, lost, disclosed,
                    held, evicted, inner, strayed>>
    BY <1>1 DEF Begin
  <2>7. TypeOK'
    BY <2>1, <2>3, <2>4, <2>5, <2>6 DEF TypeInv, TypeOK, Labels
  <2>8. ShapeOf(t)'
    BY <2>1, <2>3, <2>5, <2>6 DEF TypeInv, TypeOK, Shape, ShapeOf
  <2> QED BY <2>1, <2>5, <2>6, <2>7, <2>8 DEF StepKept, OnlyThread, TypeInv, TypeOK
<1>2. CASE BeginDrop(t)
  <2>1. PICK b \in live \ Borrowed :
          /\ live' = live \ {b}
          /\ held' = [held EXCEPT ![t] = <<b>>]
          /\ op' = [op EXCEPT ![t] = [NoOp EXCEPT !.kind = "drop"]]
    BY <1>2 DEF BeginDrop
  <2>2. [NoOp EXCEPT !.kind = "drop"] \in Op /\ <<b>> \in Seq(Block) /\ <<b>> # <<>>
    <3>1. b \in Block
      BY <2>1 DEF TypeInv, TypeOK
    <3>2. [NoOp EXCEPT !.kind = "drop"] \in Op
      BY DEF NoOp, Op
    <3> QED BY <3>1, <3>2, SingletonBlocks
  <2>3. pc' = [pc EXCEPT ![t] = "drop"] /\ pc[t] = "idle"
        /\ UNCHANGED <<pools, healthy, cache, mapped, lost, disclosed,
                       evicted, current, guard, inner, strayed>>
    BY <1>2 DEF BeginDrop, Goto
  <2>4. TypeOK'
    BY <2>1, <2>2, <2>3 DEF TypeInv, TypeOK, Labels
  <2>5. ShapeOf(t)'
    BY <2>1, <2>2, <2>3 DEF TypeInv, TypeOK, Shape, ShapeOf
  <2> QED BY <2>1, <2>3, <2>4, <2>5 DEF StepKept, OnlyThread, TypeInv, TypeOK
<1> QED BY <1>1, <1>2

LEMMA CacheTypes ==
  ASSUME TypeInv, NEW t \in Threads, CacheHealth(t) \/ CacheTake(t)
  PROVE  StepKept(t)
<1>1. CASE CacheHealth(t)
  BY <1>1 DEF CacheHealth, Goto, StepKept, OnlyThread, TypeInv, TypeOK, Labels,
              Shape, ShapeOf
<1>2. CASE CacheTake(t)
  <2>1. CASE \A i \in DOMAIN cache : ~Fits(t, cache[i])
    <3>1. UNCHANGED <<cache, op, held>> /\ Goto(t, "pool_health")
      BY <1>2, <2>1 DEF CacheTake, IsBestFit
    <3> QED BY <1>2, <3>1 DEF CacheTake, Goto, StepKept, OnlyThread, TypeInv,
                 TypeOK, Labels, Shape, ShapeOf
  <2>2. CASE \E i \in DOMAIN cache : Fits(t, cache[i])
    <3>1. PICK i \in DOMAIN cache : cache' = RemoveAt(cache, i) /\ Obtain(t, cache[i])
      BY <1>2, <2>2 DEF CacheTake
    <3>2. cache \in Seq(Block)
      BY DEF TypeInv, TypeOK
    <3>3. cache' \in Seq(Block) /\ cache[i] \in Block
      BY <3>1, <3>2, RemoveBlocks
    <3>4. pc[t] \in Allocating /\ UNCHANGED evicted
          /\ UNCHANGED <<pools, healthy, live, mapped, lost, disclosed,
                         evicted, current, guard, inner, strayed>>
      BY <1>2 DEF CacheTake
    <3>5. /\ pc' \in [Threads -> Labels] /\ op' \in [Threads -> Op]
          /\ held' \in [Threads -> Seq(Block)]
          /\ ShapeOf(t)' /\ OnlyThread(t)
      BY <3>1, <3>3, <3>4, ObtainTypes
    <3> QED BY <3>3, <3>4, <3>5 DEF StepKept, TypeInv, TypeOK
  <2> QED BY <2>1, <2>2
<1> QED BY <1>1, <1>2

LEMMA PoolTypes ==
  ASSUME pools \in [Devices -> Pool], NEW d \in Devices, NEW bytes \in Nat,
         \/ PoolGrants(d, bytes) \/ PoolUnsupported(d) \/ PoolRefuses(d, bytes)
         \/ PoolFrees(d, bytes) \/ PoolKeeps(d, bytes)
  PROVE  pools' \in [Devices -> Pool]
<1>1. pools[d] \in Pool /\ Opened(d) \in Pool
  BY PoolConstants DEF Opened, Pool
<1>2. ASSUME NEW pool \in Pool, NEW active \in Nat
      PROVE  Budgeted(pool, active) \in Pool
  BY PoolConstants DEF Budgeted, Pool
<1>3. ASSUME NEW after \in Pool, pools' = [pools EXCEPT ![d] = after]
      PROVE  pools' \in [Devices -> Pool]
  BY <1>3
<1>4. CASE PoolGrants(d, bytes)
  <2> DEFINE active == Opened(d).active + bytes
             after == [Budgeted(Opened(d), active) EXCEPT !.active = active]
  <2>1. active \in Nat
    BY <1>1 DEF Pool
  <2>2. Budgeted(Opened(d), active) \in Pool
    BY <1>1, <1>2, <2>1
  <2>3. after \in Pool
    BY <2>1, <2>2 DEF Pool
  <2> QED BY <1>3, <1>4, <2>3 DEF PoolGrants
<1>5. CASE PoolUnsupported(d)
  BY <1>1, <1>5 DEF PoolUnsupported, Pool
<1>6. CASE PoolRefuses(d, bytes)
  <2>1. Opened(d).active \in Nat /\ Opened(d).active + bytes \in Nat
    BY <1>1 DEF Pool
  <2>2. /\ Budgeted(Opened(d), Opened(d).active) \in Pool
        /\ Budgeted(Opened(d), Opened(d).active + bytes) \in Pool
    BY <1>1, <1>2, <2>1
  <2>3. CASE UNCHANGED pools
    BY <2>3
  <2>4. ASSUME NEW after \in {Opened(d), Budgeted(Opened(d), Opened(d).active),
                              Budgeted(Opened(d), Opened(d).active + bytes)},
               pools' = [pools EXCEPT ![d] = after]
        PROVE  pools' \in [Devices -> Pool]
    BY <1>1, <1>3, <2>2, <2>4
  <2> QED BY <1>6, <2>3, <2>4 DEF PoolRefuses
<1>7. CASE PoolFrees(d, bytes)
  <2> DEFINE active == pools[d].active - bytes
             after == [Budgeted(pools[d], active) EXCEPT !.active = active]
  <2>1. active \in Nat
    BY <1>1, <1>7 DEF Pool, PoolFrees
  <2>2. Budgeted(pools[d], active) \in Pool
    BY <1>1, <1>2, <2>1
  <2>3. after \in Pool
    BY <2>1, <2>2 DEF Pool
  <2> QED BY <1>3, <1>7, <2>3 DEF PoolFrees
<1>8. CASE PoolKeeps(d, bytes)
  <2>1. pools[d].active \in Nat /\ pools[d].active - bytes \in Nat
    BY <1>1, <1>8 DEF Pool, PoolKeeps
  <2>2. /\ Budgeted(pools[d], pools[d].active) \in Pool
        /\ Budgeted(pools[d], pools[d].active - bytes) \in Pool
    BY <1>1, <1>2, <2>1
  <2>3. ASSUME NEW after \in {pools[d], Budgeted(pools[d], pools[d].active),
                              Budgeted(pools[d], pools[d].active - bytes)},
               pools' = [pools EXCEPT ![d] = after]
        PROVE  pools' \in [Devices -> Pool]
    BY <1>1, <1>3, <2>2, <2>3
  <2> QED BY <1>8, <2>3 DEF PoolKeeps
<1> QED BY <1>4, <1>5, <1>6, <1>7, <1>8

LEMMA MapTypes ==
  ASSUME TypeInv, NEW t \in Threads, NEW pooled \in BOOLEAN,
         pc[t] \in Allocating, Map(t, pooled), UNCHANGED evicted
  PROVE  /\ pc' \in [Threads -> Labels] /\ op' \in [Threads -> Op]
         /\ held' \in [Threads -> Seq(Block)] /\ mapped' \subseteq Block
         /\ ShapeOf(t)' /\ OnlyThread(t)
<1>1. PICK p \in Pointers :
        LET block == [device |-> op[t].device, bytes |-> op[t].bytes,
                      ptr |-> p, pooled |-> pooled]
        IN  mapped' = mapped \cup {block} /\ Obtain(t, block)
  BY DEF Map
<1> DEFINE block == [device |-> op[t].device, bytes |-> op[t].bytes,
                     ptr |-> p, pooled |-> pooled]
<1>2. block \in Block
  BY DEF TypeInv, TypeOK, Shape, ShapeOf, Op, Block
<1>3. mapped' = mapped \cup {block} /\ Obtain(t, block)
  BY <1>1
<1> HIDE DEF block
<1> QED BY <1>2, <1>3, ObtainTypes DEF TypeInv, TypeOK

LEMMA AllocateFailedTypes ==
  ASSUME TypeInv, NEW t \in Threads, pc[t] \in Allocating, AllocateFailed(t)
  PROVE  /\ ThreadTypes' /\ op' \in [Threads -> Op]
         /\ ShapeOf(t)' /\ OnlyThread(t)
<1>1. CASE op[t].kind = "sum_rows" /\ held[t] # <<>>
  <2>1. /\ op' = [op EXCEPT ![t].failed = TRUE]
        /\ pc' = [pc EXCEPT ![t] = "synchronize"]
        /\ UNCHANGED <<held, evicted, current, guard, strayed>>
    BY <1>1 DEF AllocateFailed, Goto
  <2>2. op[t] \in Op
    BY DEF TypeInv, TypeOK
  <2>3. [op[t] EXCEPT !.failed = TRUE] \in Op
    BY <2>2 DEF Op
  <2>4. op' \in [Threads -> Op] /\ op'[t].kind = op[t].kind
        /\ op'[t].device = op[t].device
    BY <2>1, <2>2, <2>3 DEF TypeInv, TypeOK, Op
  <2>5. ThreadTypes'
    BY <2>1 DEF ThreadTypes, TypeInv, TypeOK, Labels
  <2>6. ShapeOf(t)'
    BY <1>1, <2>1, <2>4 DEF TypeInv, TypeOK, Shape, ShapeOf
  <2> QED BY <2>1, <2>4, <2>5, <2>6 DEF OnlyThread, TypeInv, TypeOK
<1>2. CASE ~(op[t].kind = "sum_rows" /\ held[t] # <<>>)
  <2>1. Fail(t) /\ UNCHANGED op
    BY <1>2 DEF AllocateFailed
  <2> QED BY <2>1, FailTypes DEF TypeInv, TypeOK
<1> QED BY <1>1, <1>2

LEMMA AllocateTypes ==
  ASSUME TypeInv, NEW t \in Threads, PoolHealth(t) \/ PoolAllocate(t) \/ Malloc(t)
  PROVE  StepKept(t)
<1>1. CASE PoolHealth(t)
  <2>1. CASE op[t].bytes = 0
    <3>1. Publish(t) /\ UNCHANGED <<pools, healthy, cache, mapped, lost, disclosed,
                                    op, inner>>
      BY <1>1, <2>1 DEF PoolHealth
    <3>2. op[t].kind \in WithScratch => held[t] # <<>>
      BY <1>1, <2>1 DEF PoolHealth, TypeInv, Shape, ShapeOf
    <3>3. ThreadTypes' /\ ShapeOf(t)' /\ live' \subseteq Block /\ OnlyThread(t)
      BY <3>1, <3>2, PublishTypes
    <3> QED BY <3>1, <3>3 DEF StepKept, ThreadTypes, TypeInv, TypeOK
  <2>2. CASE op[t].bytes # 0
    BY <1>1, <2>2 DEF PoolHealth, Goto, StepKept, OnlyThread, TypeInv, TypeOK,
                      Labels, Shape, ShapeOf
  <2> QED BY <2>1, <2>2
<1>2. CASE PoolAllocate(t)
  <2>1. /\ pc[t] \in Allocating /\ op[t].device \in Devices /\ op[t].bytes \in Nat
        /\ UNCHANGED <<healthy, cache, live, lost, disclosed, inner>>
    BY <1>2 DEF PoolAllocate, TypeInv, TypeOK, Shape, ShapeOf, Op
  <2>2. CASE /\ PoolGrants(op[t].device, op[t].bytes)
             /\ Map(t, TRUE)
             /\ UNCHANGED <<evicted, current, guard, strayed>>
    <3>1. pools' \in [Devices -> Pool]
      BY <2>1, <2>2, PoolTypes DEF TypeInv, TypeOK
    <3>2. /\ pc' \in [Threads -> Labels] /\ op' \in [Threads -> Op]
          /\ held' \in [Threads -> Seq(Block)] /\ mapped' \subseteq Block
          /\ ShapeOf(t)' /\ OnlyThread(t)
      BY <2>1, <2>2, MapTypes
    <3> QED BY <2>1, <2>2, <3>1, <3>2 DEF StepKept, TypeInv, TypeOK
  <2>3. CASE /\ PoolUnsupported(op[t].device)
             /\ Goto(t, "malloc")
             /\ UNCHANGED <<mapped, op, held, evicted, current, guard, strayed>>
    <3>1. pools' \in [Devices -> Pool]
      BY <2>1, <2>3, PoolTypes DEF TypeInv, TypeOK
    <3> QED BY <2>1, <2>3, <3>1 DEF Goto, StepKept, OnlyThread, TypeInv, TypeOK,
                                    Labels, Shape, ShapeOf
  <2>4. CASE /\ PoolRefuses(op[t].device, op[t].bytes)
             /\ AllocateFailed(t)
             /\ UNCHANGED mapped
    <3>1. pools' \in [Devices -> Pool]
      BY <2>1, <2>4, PoolTypes DEF TypeInv, TypeOK
    <3>2. /\ ThreadTypes' /\ op' \in [Threads -> Op]
          /\ ShapeOf(t)' /\ OnlyThread(t)
      BY <2>1, <2>4, AllocateFailedTypes
    <3> QED BY <2>1, <2>4, <3>1, <3>2 DEF StepKept, ThreadTypes, TypeInv, TypeOK
  <2> QED BY <1>2, <2>2, <2>3, <2>4 DEF PoolAllocate
<1>3. CASE Malloc(t)
  <2>1. /\ pc[t] \in Allocating
        /\ UNCHANGED <<pools, healthy, cache, live, lost, disclosed, inner>>
    BY <1>3 DEF Malloc
  <2>2. CASE Map(t, FALSE) /\ UNCHANGED <<evicted, current, guard, strayed>>
    <3>1. /\ pc' \in [Threads -> Labels] /\ op' \in [Threads -> Op]
          /\ held' \in [Threads -> Seq(Block)] /\ mapped' \subseteq Block
          /\ ShapeOf(t)' /\ OnlyThread(t)
      BY <2>1, <2>2, MapTypes
    <3> QED BY <2>1, <2>2, <3>1 DEF StepKept, TypeInv, TypeOK
  <2>3. CASE AllocateFailed(t) /\ UNCHANGED mapped
    <3>1. /\ ThreadTypes' /\ op' \in [Threads -> Op]
          /\ ShapeOf(t)' /\ OnlyThread(t)
      BY <2>1, <2>3, AllocateFailedTypes
    <3> QED BY <2>1, <2>3, <3>1 DEF StepKept, ThreadTypes, TypeInv, TypeOK
  <2> QED BY <1>3, <2>2, <2>3 DEF Malloc
<1> QED BY <1>1, <1>2, <1>3

LEMMA TouchedBlocks ==
  ASSUME TypeInv, NEW t \in Threads
  PROVE  Touched(t) \subseteq Block
<1>1. held[t] \in Seq(Block) /\ op[t].inputs \subseteq Block
  BY DEF TypeInv, TypeOK, Op
<1> QED BY <1>1 DEF Touched, Range

LEMMA WorkTypes ==
  ASSUME TypeInv, NEW t \in Threads,
         Launch(t) \/ Synchronize(t) \/ DisableReuse(t)
  PROVE  StepKept(t)
<1>1. CASE Launch(t)
  <2>1. /\ pc[t] = "launch" /\ op[t] \in Op
        /\ op[t].kind \in WithScratch => held[t] # <<>>
        /\ UNCHANGED <<pools, healthy, cache, mapped, lost, inner>>
    BY <1>1 DEF Launch, TypeInv, TypeOK, Shape, ShapeOf
  <2>2. CASE op[t].kind \in OneBlock /\ Publish(t) /\ UNCHANGED <<op, disclosed>>
    <3>1. ThreadTypes' /\ ShapeOf(t)' /\ live' \subseteq Block /\ OnlyThread(t)
      BY <2>1, <2>2, PublishTypes
    <3> QED BY <2>1, <2>2, <3>1 DEF StepKept, ThreadTypes, TypeInv, TypeOK
  <2>3. CASE Fail(t) /\ UNCHANGED <<op, disclosed, live>>
    <3>1. ThreadTypes' /\ ShapeOf(t)' /\ OnlyThread(t)
      BY <2>3, FailTypes
    <3> QED BY <2>1, <2>3, <3>1 DEF StepKept, ThreadTypes, TypeInv, TypeOK
  <2>4. CASE /\ Goto(t, "synchronize")
             /\ UNCHANGED <<op, disclosed, live, held, evicted, current, guard, strayed>>
    BY <2>1, <2>4 DEF Goto, StepKept, OnlyThread, TypeInv, TypeOK, Labels,
                      Shape, ShapeOf
  <2>5. ASSUME NEW accepted \in BOOLEAN,
               op' = [op EXCEPT ![t].failed = ~accepted],
               disclosed' = IF accepted THEN disclosed
                           ELSE disclosed \cup Touched(t),
               Goto(t, "synchronize"),
               UNCHANGED <<live, held, evicted, current, guard, strayed>>
        PROVE  StepKept(t)
    <3>1. [op[t] EXCEPT !.failed = ~accepted] \in Op
      BY <2>1 DEF Op
    <3>2. op' \in [Threads -> Op] /\ op'[t].kind = op[t].kind
          /\ op'[t].device = op[t].device
      BY <2>1, <2>5, <3>1 DEF TypeInv, TypeOK, Op
    <3>3. disclosed' \subseteq Block
      BY <2>5, TouchedBlocks DEF TypeInv, TypeOK
    <3>4. TypeOK'
      BY <2>1, <2>5, <3>2, <3>3 DEF Goto, TypeInv, TypeOK, Labels
    <3>5. ShapeOf(t)'
      BY <2>1, <2>5, <3>2 DEF Goto, TypeInv, TypeOK, Shape, ShapeOf
    <3> QED BY <2>1, <2>5, <3>4, <3>5 DEF Goto, StepKept, OnlyThread, TypeInv, TypeOK
  <2>6. PICK accepted \in BOOLEAN :
          CASE op[t].kind = "zeros" ->
                 /\ IF accepted THEN Publish(t) ELSE Fail(t) /\ UNCHANGED live
                 /\ UNCHANGED <<op, disclosed>>
            [] op[t].kind = "upload" ->
                 /\ IF accepted
                    THEN /\ Goto(t, "synchronize")
                         /\ UNCHANGED <<held, evicted, current, guard, strayed>>
                    ELSE Fail(t)
                 /\ UNCHANGED <<op, disclosed, live>>
            [] OTHER ->
                 /\ op' = [op EXCEPT ![t].failed = ~accepted]
                 /\ disclosed' = IF accepted THEN disclosed
                                ELSE disclosed \cup Touched(t)
                 /\ Goto(t, "synchronize")
                 /\ UNCHANGED <<live, held, evicted, current, guard, strayed>>
    BY <1>1 DEF Launch
  <2>7. CASE op[t].kind = "zeros"
    <3>1. CASE accepted
      BY <2>2, <2>6, <2>7, <3>1 DEF OneBlock
    <3>2. CASE ~accepted
      BY <2>3, <2>6, <2>7, <3>2
    <3> QED BY <3>1, <3>2
  <2>8. CASE op[t].kind = "upload"
    BY <2>3, <2>4, <2>6, <2>8
  <2>9. CASE op[t].kind \notin {"zeros", "upload"}
    BY <2>5, <2>6, <2>9
  <2> QED BY <2>7, <2>8, <2>9
<1>2. CASE Synchronize(t)
  <2>1. /\ pc[t] = "synchronize"
        /\ op[t].kind \in WithScratch => held[t] # <<>>
        /\ UNCHANGED <<pools, healthy, cache, mapped, lost, op, inner>>
    BY <1>2 DEF Synchronize, TypeInv, TypeOK, Shape, ShapeOf
  <2>2. disclosed' \subseteq Block
    <3>1. disclosed' \in {disclosed, disclosed \cup Touched(t)}
      BY <1>2 DEF Synchronize
    <3> QED BY <3>1, TouchedBlocks DEF TypeInv, TypeOK
  <2>3. CASE Publish(t)
    <3>1. ThreadTypes' /\ ShapeOf(t)' /\ live' \subseteq Block /\ OnlyThread(t)
      BY <2>1, <2>3, PublishTypes
    <3> QED BY <2>1, <2>2, <3>1 DEF StepKept, ThreadTypes, TypeInv, TypeOK
  <2>4. CASE Fail(t) /\ UNCHANGED live
    <3>1. ThreadTypes' /\ ShapeOf(t)' /\ OnlyThread(t)
      BY <2>1, <2>4, FailTypes
    <3> QED BY <2>1, <2>2, <2>4, <3>1 DEF StepKept, ThreadTypes, TypeInv, TypeOK
  <2>5. CASE /\ Goto(t, "disable_reuse")
             /\ UNCHANGED <<live, held, evicted, current, guard, strayed>>
    BY <2>1, <2>2, <2>5 DEF Goto, StepKept, OnlyThread, TypeInv, TypeOK, Labels,
                            Shape, ShapeOf
  <2> QED BY <1>2, <2>3, <2>4, <2>5 DEF Synchronize
<1>3. CASE DisableReuse(t)
  <2>1. /\ healthy' = FALSE /\ Fail(t)
        /\ UNCHANGED <<pools, cache, live, mapped, lost, disclosed, op, inner>>
    BY <1>3 DEF DisableReuse
  <2>2. ThreadTypes' /\ ShapeOf(t)' /\ OnlyThread(t)
    BY <2>1, FailTypes
  <2> QED BY <2>1, <2>2 DEF StepKept, ThreadTypes, TypeInv, TypeOK
<1> QED BY <1>1, <1>2, <1>3

LEMMA UnwindTypes ==
  ASSUME TypeInv, NEW t \in Threads, UNCHANGED op,
         NEW own \in Seq(Block), NEW out \in Seq(Block), Unwind(t, own, out)
  PROVE  /\ held' \in [Threads -> Seq(Block)]
         /\ evicted' \in [Threads -> Seq(Block)]
         /\ pc' \in [Threads -> Labels]
         /\ ShapeOf(t)' /\ OnlyThread(t)
<1>1. /\ held' \in [Threads -> Seq(Block)]
      /\ evicted' \in [Threads -> Seq(Block)]
      /\ pc' \in [Threads -> Labels]
      /\ held'[t] = own /\ evicted'[t] = out
      /\ pc'[t] = IF out # <<>> THEN "release"
                  ELSE IF own # <<>> THEN "drop" ELSE "return"
      /\ \A u \in Threads \ {t} : /\ held'[u] = held[u]
                                  /\ evicted'[u] = evicted[u]
                                  /\ pc'[u] = pc[u]
  BY UnwindShape
<1>2. ShapeOf(t)'
  BY <1>1 DEF ShapeOf
<1> QED BY <1>1, <1>2 DEF OnlyThread

LEMMA DropTypes ==
  ASSUME TypeInv, NEW t \in Threads, Drop(t) \/ CachePush(t)
  PROVE  StepKept(t)
<1>1. /\ pc[t] \in {"drop", "cache_push"} /\ held[t] # <<>>
      /\ held[t] \in Seq(Block) /\ cache \in Seq(Block)
      /\ UNCHANGED <<pools, healthy, live, mapped, lost, disclosed,
                     op, current, guard, inner, strayed>>
  BY DEF Drop, CachePush, TypeInv, TypeOK, Shape, ShapeOf
<1>2. Head(held[t]) \in Block /\ Tail(held[t]) \in Seq(Block)
  BY <1>1, TailBlocks
<1>3. CASE CachePush(t)
  <2>1. PICK k \in 0..Len(cache) :
          /\ cache' = Append(Kept(k), Head(held[t]))
          /\ Unwind(t, Tail(held[t]), SubSeq(cache, 1, k))
    BY <1>3 DEF CachePush
  <2>2. Kept(k) \in Seq(Block) /\ SubSeq(cache, 1, k) \in Seq(Block)
    BY <1>1, SplitBlocks DEF Kept
  <2>3. cache' \in Seq(Block)
    BY <1>2, <2>1, <2>2, AppendBlocks
  <2>4. /\ held' \in [Threads -> Seq(Block)]
        /\ evicted' \in [Threads -> Seq(Block)]
        /\ pc' \in [Threads -> Labels]
        /\ ShapeOf(t)' /\ OnlyThread(t)
    BY <1>1, <1>2, <2>1, <2>2, UnwindTypes
  <2> QED BY <1>1, <2>3, <2>4 DEF StepKept, TypeInv, TypeOK
<1>4. CASE Drop(t) /\ ~Cacheable(Head(held[t]))
  <2>1. Unwind(t, Tail(held[t]), <<Head(held[t])>>) /\ UNCHANGED cache
    BY <1>4 DEF Drop
  <2>2. <<Head(held[t])>> \in Seq(Block)
    BY <1>2, SingletonBlocks
  <2>3. /\ held' \in [Threads -> Seq(Block)]
        /\ evicted' \in [Threads -> Seq(Block)]
        /\ pc' \in [Threads -> Labels]
        /\ ShapeOf(t)' /\ OnlyThread(t)
    BY <1>1, <1>2, <2>1, <2>2, UnwindTypes
  <2> QED BY <1>1, <2>1, <2>3 DEF StepKept, TypeInv, TypeOK
<1>5. CASE Drop(t) /\ Cacheable(Head(held[t]))
  <2>1. /\ pc[t] = "drop" /\ pc' = [pc EXCEPT ![t] = "cache_push"]
        /\ UNCHANGED <<cache, held, evicted>>
    BY <1>5 DEF Drop, Goto
  <2> QED BY <1>1, <2>1 DEF StepKept, OnlyThread, TypeInv, TypeOK, Labels,
                            Shape, ShapeOf
<1> QED BY <1>3, <1>4, <1>5

LEMMA ReleasedTypes ==
  ASSUME TypeInv, NEW t \in Threads, evicted[t] # <<>>, Released(t),
         UNCHANGED <<op, guard>>
  PROVE  /\ ThreadTypes' /\ inner' \in [Threads -> Devices \cup {NoDevice}]
         /\ ShapeOf(t)' /\ OnlyThread(t)
<1>1. /\ Restore(t, inner[t]) /\ inner' = [inner EXCEPT ![t] = NoDevice]
      /\ Unwind(t, held[t], Tail(evicted[t]))
  BY DEF Released
<1>2. held[t] \in Seq(Block) /\ Tail(evicted[t]) \in Seq(Block)
      /\ inner[t] \in Devices \cup {NoDevice}
  BY TailBlocks DEF TypeInv, TypeOK
<1>3. /\ held' \in [Threads -> Seq(Block)]
      /\ evicted' \in [Threads -> Seq(Block)]
      /\ pc' \in [Threads -> Labels]
      /\ ShapeOf(t)' /\ OnlyThread(t)
  BY <1>1, <1>2, UnwindTypes
<1>4. current' \in [Threads -> Devices] /\ strayed' \subseteq Threads
  BY <1>1, <1>2, RestoreTypes
<1> QED BY <1>1, <1>3, <1>4 DEF ThreadTypes, TypeInv, TypeOK

LEMMA ReleaseTypes ==
  ASSUME TypeInv, NEW t \in Threads,
         \/ Release(t) \/ FreeHealth(t) \/ Free(t) \/ FreeAsync(t)
         \/ DisableAfterFree(t)
  PROVE  StepKept(t)
<1> DEFINE block == Head(evicted[t])
<1>1. /\ pc[t] \in Releasing /\ evicted[t] # <<>>
      /\ held[t] \in Seq(Block) /\ evicted[t] \in Seq(Block)
  BY DEF Release, FreeHealth, Free, FreeAsync, DisableAfterFree,
         TypeInv, TypeOK, Shape, ShapeOf
<1>2. block \in Block /\ Tail(evicted[t]) \in Seq(Block)
  BY <1>1, TailBlocks
<1>3. /\ lost \cup {block} \subseteq Block
      /\ mapped \ {block} \subseteq Block /\ disclosed \ {block} \subseteq Block
  BY <1>2 DEF TypeInv, TypeOK
<1> HIDE DEF block
<1>4. CASE Release(t)
  <2>1. UNCHANGED <<pools, healthy, cache, live, mapped, disclosed,
                    op, guard, strayed>>
    BY <1>4 DEF Release
  <2>2. CASE /\ current' = [current EXCEPT ![t] = block.device]
             /\ inner' = [inner EXCEPT ![t] = Previous(t, block.device)]
             /\ Goto(t, IF block.pooled THEN "free_health" ELSE "free")
             /\ UNCHANGED <<lost, held, evicted>>
    <3>1. block.device \in Devices
          /\ Previous(t, block.device) \in Devices \cup {NoDevice}
      BY <1>2 DEF Block, Previous, TypeInv, TypeOK
    <3>2. TypeOK'
      BY <2>1, <2>2, <3>1 DEF Goto, TypeInv, TypeOK, Labels
    <3>3. ShapeOf(t)' /\ OnlyThread(t)
      BY <1>1, <2>1, <2>2 DEF Goto, OnlyThread, TypeInv, TypeOK, Shape, ShapeOf
    <3> QED BY <3>2, <3>3 DEF StepKept
  <2>3. CASE /\ lost' = lost \cup {block}
             /\ Unwind(t, held[t], Tail(evicted[t]))
             /\ UNCHANGED <<current, inner>>
    <3>1. /\ held' \in [Threads -> Seq(Block)]
          /\ evicted' \in [Threads -> Seq(Block)]
          /\ pc' \in [Threads -> Labels]
          /\ ShapeOf(t)' /\ OnlyThread(t)
      BY <1>1, <1>2, <2>1, <2>3, UnwindTypes
    <3> QED BY <1>3, <2>1, <2>3, <3>1 DEF StepKept, TypeInv, TypeOK
  <2> QED BY <1>4, <2>2, <2>3 DEF Release, block
<1>5. CASE FreeHealth(t)
  <2>1. UNCHANGED <<pools, healthy, cache, live, mapped, disclosed, op, guard>>
    BY <1>5 DEF FreeHealth
  <2>2. CASE healthy
    BY <1>1, <1>5, <2>1, <2>2 DEF FreeHealth, Goto, StepKept, OnlyThread,
         TypeInv, TypeOK, Labels, Shape, ShapeOf
  <2>3. CASE ~healthy
    <3>1. lost' = lost \cup {block} /\ Released(t)
      BY <1>5, <2>3 DEF FreeHealth, block
    <3>2. /\ ThreadTypes' /\ inner' \in [Threads -> Devices \cup {NoDevice}]
          /\ ShapeOf(t)' /\ OnlyThread(t)
      BY <1>1, <2>1, <3>1, ReleasedTypes
    <3> QED BY <1>3, <2>1, <3>1, <3>2 DEF StepKept, ThreadTypes, TypeInv, TypeOK
  <2> QED BY <2>2, <2>3
<1>6. CASE Free(t)
  <2>1. /\ Released(t) /\ UNCHANGED <<pools, healthy, cache, live, op, guard>>
        /\ mapped' \in {mapped, mapped \ {block}}
        /\ disclosed' \in {disclosed, disclosed \ {block}}
        /\ lost' \in {lost, lost \cup {block}}
    BY <1>6 DEF Free, Unmap, block
  <2>2. /\ ThreadTypes' /\ inner' \in [Threads -> Devices \cup {NoDevice}]
        /\ ShapeOf(t)' /\ OnlyThread(t)
    BY <1>1, <2>1, ReleasedTypes
  <2>3. mapped' \subseteq Block /\ disclosed' \subseteq Block /\ lost' \subseteq Block
    BY <1>3, <2>1 DEF TypeInv, TypeOK
  <2> QED BY <2>1, <2>2, <2>3 DEF StepKept, ThreadTypes, TypeInv, TypeOK
<1>7. CASE FreeAsync(t)
  <2>1. UNCHANGED <<healthy, cache, live, lost, op, guard>>
        /\ block.device \in Devices /\ block.bytes \in Nat
    BY <1>2, <1>7 DEF FreeAsync, Block
  <2>2. CASE /\ PoolFrees(block.device, block.bytes)
             /\ Unmap(block)
             /\ Released(t)
    <3>1. pools' \in [Devices -> Pool]
      BY <2>1, <2>2, PoolTypes DEF TypeInv, TypeOK
    <3>2. /\ ThreadTypes' /\ inner' \in [Threads -> Devices \cup {NoDevice}]
          /\ ShapeOf(t)' /\ OnlyThread(t)
      BY <1>1, <2>1, <2>2, ReleasedTypes
    <3> QED BY <1>3, <2>1, <2>2, <3>1, <3>2 DEF Unmap, StepKept, ThreadTypes,
                                              TypeInv, TypeOK
  <2>3. CASE /\ PoolKeeps(block.device, block.bytes)
             /\ Goto(t, "disable_after_free")
             /\ UNCHANGED <<mapped, disclosed, held, evicted, current,
                            inner, strayed>>
    <3>1. pools' \in [Devices -> Pool]
      BY <2>1, <2>3, PoolTypes DEF TypeInv, TypeOK
    <3> QED BY <1>1, <2>1, <2>3, <3>1 DEF Goto, StepKept, OnlyThread, TypeInv,
                 TypeOK, Labels, Shape, ShapeOf
  <2> QED BY <1>7, <2>2, <2>3 DEF FreeAsync, block
<1>8. CASE DisableAfterFree(t)
  <2>1. /\ healthy' = FALSE /\ lost' = lost \cup {block} /\ Released(t)
        /\ UNCHANGED <<pools, cache, live, mapped, disclosed, op, guard>>
    BY <1>8 DEF DisableAfterFree, block
  <2>2. /\ ThreadTypes' /\ inner' \in [Threads -> Devices \cup {NoDevice}]
        /\ ShapeOf(t)' /\ OnlyThread(t)
    BY <1>1, <2>1, ReleasedTypes
  <2> QED BY <1>3, <2>1, <2>2 DEF StepKept, ThreadTypes, TypeInv, TypeOK
<1> QED BY <1>4, <1>5, <1>6, <1>7, <1>8

LEMMA ReturnTypes ==
  ASSUME TypeInv, NEW t \in Threads, Return(t)
  PROVE  StepKept(t)
<1>1. /\ pc[t] = "return" /\ Restore(t, guard[t])
      /\ guard' = [guard EXCEPT ![t] = NoDevice]
      /\ op' = [op EXCEPT ![t] = NoOp] /\ pc' = [pc EXCEPT ![t] = "idle"]
      /\ UNCHANGED <<pools, healthy, cache, live, mapped, lost, disclosed,
                     held, evicted, inner>>
  BY DEF Return, Goto
<1>2. NoOp \in Op
  BY DEF NoOp, Op
<1>3. current' \in [Threads -> Devices] /\ strayed' \subseteq Threads
  BY <1>1, RestoreTypes DEF TypeInv, TypeOK
<1>4. TypeOK'
  BY <1>1, <1>2, <1>3 DEF TypeInv, TypeOK, Labels
<1>5. ShapeOf(t)' /\ OnlyThread(t)
  BY <1>1 DEF OnlyThread, TypeInv, TypeOK, Shape, ShapeOf
<1> QED BY <1>4, <1>5 DEF StepKept

-----------------------------------------------------------------------------
LEMMA InitTypes == Init => TypeInv
<1> SUFFICES ASSUME Init PROVE TypeInv
  OBVIOUS
<1>1. NoOp \in Op /\ NoPool \in Pool
  BY DEF NoOp, Op, NoPool, Pool
<1>2. TypeOK
  BY <1>1, StorageConstants, EmptyBlocks DEF Init, PoolInit, TypeOK, Labels
<1>3. Shape
  BY DEF Init, Shape, ShapeOf
<1> QED BY <1>2, <1>3 DEF TypeInv

LEMMA ThreadStepTypes ==
  ASSUME TypeInv, NEW t \in Threads, Begin(t) \/ BeginDrop(t) \/ Step(t)
  PROVE  StepKept(t)
BY BeginTypes, CacheTypes, AllocateTypes, WorkTypes, DropTypes, ReleaseTypes,
   ReturnTypes DEF Step

LEMMA NextTypes == TypeInv /\ [Next]_vars => TypeInv'
<1> SUFFICES ASSUME TypeInv, [Next]_vars PROVE TypeInv'
  OBVIOUS
<1>1. CASE Next
  <2>1. PICK t \in Threads : Begin(t) \/ BeginDrop(t) \/ Step(t)
    BY <1>1 DEF Next
  <2>2. TypeOK' /\ ShapeOf(t)' /\ OnlyThread(t)
    BY <2>1, ThreadStepTypes DEF StepKept
  <2> QED BY <2>2, ShapeStep DEF TypeInv
<1>2. CASE UNCHANGED vars
  BY <1>2 DEF vars, threadVars, TypeInv, TypeOK, Shape, ShapeOf
<1> QED BY <1>1, <1>2

LEMMA TypeInvariant == Spec => []TypeInv
BY InitTypes, NextTypes, PTL DEF Spec

(***************************************************************************)
(* The variables of cuda.rs and of its pools keep their types, whatever    *)
(* the threads do.                                                         *)
(***************************************************************************)
THEOREM TypeCorrect == Spec => []TypeOK
BY TypeInvariant, PTL DEF TypeInv

-----------------------------------------------------------------------------
(***************************************************************************)
(* Ownership, seen from one thread: the places its step can move a block   *)
(* between hold different blocks.                                          *)
(***************************************************************************)
Local(t) ==
  /\ live \cap Range(cache) = {}
  /\ lost \cap (live \cup Range(cache)) = {}
  /\ Range(held[t]) \cap Range(evicted[t]) = {}
  /\ Private(t) \cap (live \cup Range(cache) \cup lost) = {}
  /\ IsInjective(held[t]) /\ IsInjective(evicted[t]) /\ IsInjective(cache)

Reach(t) == live \cup Range(cache) \cup lost \cup Private(t)

OneAddress == \A a, b \in mapped : a.ptr = b.ptr => a = b

Ownership == SingleOwner /\ NoLeak

\* What a step of t must show: the blocks out of its reach stay as they are.
Conserves(t) ==
  /\ Local(t)' /\ OneAddress'
  /\ Reach(t)' \subseteq mapped'
  /\ mapped' \ Reach(t)' = mapped \ Reach(t)

LEMMA LocalView ==
  ASSUME Ownership, NEW t \in Threads
  PROVE  Local(t) /\ OneAddress /\ Reach(t) \subseteq mapped
BY DEF Ownership, SingleOwner, NoLeak, Local, OneAddress, Reach

(***************************************************************************)
(* A step that conserves what is around it keeps the whole invariant.      *)
(***************************************************************************)
LEMMA OwnershipStep ==
  ASSUME Ownership, NEW t \in Threads, OnlyThread(t), Conserves(t)
  PROVE  Ownership'
<1>1. \A u \in Threads \ {t} : /\ Private(u)' = Private(u)
                               /\ held'[u] = held[u] /\ evicted'[u] = evicted[u]
  BY DEF OnlyThread, Private
<1>2. \A u \in Threads \ {t} : Private(u) \cap Reach(t) = {}
  BY DEF Ownership, SingleOwner, Reach
<1>3. \A u \in Threads \ {t} : Private(u) \subseteq mapped
  BY DEF Ownership, NoLeak
<1>4. \A u \in Threads \ {t} : /\ Private(u)' \subseteq mapped'
                               /\ Private(u)' \cap Reach(t)' = {}
  BY <1>1, <1>2, <1>3 DEF Conserves
<1>5. SingleOwner'
  <2>1. /\ (live \cap Range(cache))' = {}
        /\ (lost \cap (live \cup Range(cache)))' = {}
        /\ IsInjective(cache)'
    BY DEF Conserves, Local
  <2>2. ASSUME NEW u \in Threads
        PROVE  /\ (Range(held[u]) \cap Range(evicted[u]))' = {}
               /\ (Private(u) \cap (live \cup Range(cache) \cup lost))' = {}
               /\ IsInjective(held[u])' /\ IsInjective(evicted[u])'
    <3>1. CASE u = t
      BY <3>1 DEF Conserves, Local
    <3>2. CASE u # t
      <4>1. (Private(u) \cap (live \cup Range(cache) \cup lost))' = {}
        BY <1>4, <3>2 DEF Reach
      <4> QED BY <1>1, <3>2, <4>1 DEF Ownership, SingleOwner
    <3> QED BY <3>1, <3>2
  <2>3. ASSUME NEW u \in Threads, NEW v \in Threads \ {u}
        PROVE  Private(u)' \cap Private(v)' = {}
    <3>1. CASE u = t
      BY <1>4, <3>1 DEF Reach
    <3>2. CASE v = t
      BY <1>4, <3>2 DEF Reach
    <3>3. CASE u # t /\ v # t
      BY <1>1, <3>3 DEF Ownership, SingleOwner
    <3> QED BY <3>1, <3>2, <3>3
  <2> QED BY <2>1, <2>2, <2>3 DEF SingleOwner
<1>6. NoLeak'
  <2>1. mapped \ Reach(t) \subseteq UNION {Private(u) : u \in Threads \ {t}}
    BY DEF Ownership, NoLeak, Reach
  <2>2. mapped' \subseteq Reach(t)' \cup UNION {Private(u) : u \in Threads \ {t}}
    BY <2>1 DEF Conserves
  <2>3. UNION {Private(u) : u \in Threads \ {t}} \subseteq
          UNION {Private(u)' : u \in Threads}
    BY <1>1
  <2>4. UNION {Private(u)' : u \in Threads} \subseteq mapped'
    <3>1. Private(t)' \subseteq mapped'
      BY DEF Conserves, Reach
    <3> QED BY <1>4, <3>1
  <2>5. mapped' = (live \cup Range(cache) \cup lost)'
                    \cup UNION {Private(u)' : u \in Threads}
    <3>1. (live \cup Range(cache) \cup lost)' \subseteq mapped'
      BY DEF Conserves, Reach
    <3>2. Reach(t)' \subseteq (live \cup Range(cache) \cup lost)'
                    \cup UNION {Private(u)' : u \in Threads}
      BY DEF Reach
    <3> QED BY <2>2, <2>3, <2>4, <3>1, <3>2
  <2> QED BY <2>5 DEF NoLeak, Conserves, OneAddress
<1> QED BY <1>5, <1>6 DEF Ownership

\* A step that moves no block conserves everything.
LEMMA NothingMoves ==
  ASSUME Ownership, NEW t \in Threads,
         UNCHANGED <<live, cache, lost, mapped>>,
         held'[t] = held[t], evicted'[t] = evicted[t]
  PROVE  Conserves(t)
<1>1. Local(t) /\ OneAddress /\ Reach(t) \subseteq mapped
  BY LocalView
<1>2. Private(t)' = Private(t)
  BY DEF Private
<1> QED BY <1>1, <1>2 DEF Conserves, Local, OneAddress, Reach

-----------------------------------------------------------------------------
(***************************************************************************)
(* What the helpers do to the places of t, given that t releases nothing   *)
(* at the moment: no block is evicted while an operation works.            *)
(***************************************************************************)
LEMMA NothingEvicted ==
  ASSUME TypeInv, NEW t \in Threads, pc[t] \notin Releasing
  PROVE  evicted[t] = <<>>
BY DEF TypeInv, Shape, ShapeOf

LEMMA FailMoves ==
  ASSUME TypeInv, Ownership, NEW t \in Threads, pc[t] \notin Releasing,
         Fail(t), UNCHANGED <<live, cache, lost, mapped>>
  PROVE  Conserves(t)
<1>1. held'[t] = held[t] /\ evicted'[t] = <<>>
  BY FailTypes
<1> QED BY <1>1, NothingEvicted, NothingMoves

LEMMA PublishMoves ==
  ASSUME TypeInv, Ownership, NEW t \in Threads, pc[t] \notin Releasing,
         op[t].kind \in WithScratch => held[t] # <<>>,
         Publish(t), UNCHANGED <<cache, lost, mapped>>
  PROVE  Conserves(t)
<1> DEFINE outputs == IF op[t].kind \in WithScratch THEN Front(held[t]) ELSE held[t]
           scratch == IF op[t].kind \in WithScratch THEN <<Last(held[t])>> ELSE <<>>
<1>1. held[t] \in Seq(Block)
  BY DEF TypeInv, TypeOK
<1>2. Local(t) /\ OneAddress /\ Reach(t) \subseteq mapped /\ evicted[t] = <<>>
  BY LocalView, NothingEvicted
<1>3. /\ scratch \in Seq(Block)
      /\ Range(held[t]) = Range(outputs) \cup Range(scratch)
      /\ Range(outputs) \cap Range(scratch) = {}
      /\ IsInjective(scratch)
  <2>1. CASE op[t].kind \in WithScratch
    <3>1. /\ Front(held[t]) \in Seq(Block) /\ Last(held[t]) \in Block
          /\ Range(held[t]) = {Last(held[t])} \cup Range(Front(held[t]))
          /\ Last(held[t]) \notin Range(Front(held[t]))
      BY <1>1, <1>2, <2>1, FrontBlocks DEF Local
    <3>2. /\ <<Last(held[t])>> \in Seq(Block)
          /\ Range(<<Last(held[t])>>) = {Last(held[t])}
          /\ IsInjective(<<Last(held[t])>>)
      BY <3>1, SingletonBlocks
    <3> QED BY <2>1, <3>1, <3>2
  <2>2. CASE op[t].kind \notin WithScratch
    BY <2>2, EmptyBlocks
  <2> QED BY <2>1, <2>2
<1>4. live' = live \cup Range(outputs) /\ Unwind(t, scratch, <<>>)
  BY DEF Publish
<1> HIDE DEF outputs, scratch
<1>5. held'[t] = scratch /\ evicted'[t] = <<>>
  BY <1>3, <1>4, UnwindShape, EmptyBlocks
<1>6. Local(t)'
  BY <1>2, <1>3, <1>4, <1>5, EmptyBlocks DEF Local, Private
<1>7. Reach(t)' = Reach(t)
  BY <1>2, <1>3, <1>4, <1>5 DEF Reach, Private
<1> QED BY <1>2, <1>6, <1>7 DEF Conserves, OneAddress

\* A block that comes to t from the cache or the driver joins those it holds.
LEMMA ObtainMoves ==
  ASSUME TypeInv, NEW t \in Threads, NEW block \in Block, Obtain(t, block)
  PROVE  /\ Range(held'[t]) = Range(held[t]) \cup {block}
         /\ IsInjective(held[t]) /\ block \notin Range(held[t])
              => IsInjective(held'[t])
<1>1. held[t] \in Seq(Block)
      /\ held'[t] = IF op[t].kind = "pointwise" THEN <<block>> \o held[t]
                    ELSE Append(held[t], block)
  BY DEF Obtain, TypeInv, TypeOK
<1> QED BY <1>1, ConsBlocks, AppendBlocks

LEMMA MapMoves ==
  ASSUME TypeInv, Ownership, NEW t \in Threads, NEW pooled \in BOOLEAN,
         pc[t] \in Allocating, Map(t, pooled),
         UNCHANGED <<live, cache, lost, evicted>>
  PROVE  Conserves(t)
<1>1. PICK p \in {q \in Pointers : \A b \in mapped : b.ptr # q} :
        LET block == [device |-> op[t].device, bytes |-> op[t].bytes,
                      ptr |-> p, pooled |-> pooled]
        IN  mapped' = mapped \cup {block} /\ Obtain(t, block)
  BY DEF Map
<1> DEFINE block == [device |-> op[t].device, bytes |-> op[t].bytes,
                     ptr |-> p, pooled |-> pooled]
<1>2. block \in Block /\ block.ptr = p /\ \A b \in mapped : b.ptr # p
  BY <1>1 DEF TypeInv, TypeOK, Shape, ShapeOf, Op, Block
<1>3. mapped' = mapped \cup {block} /\ Obtain(t, block)
  BY <1>1
<1> HIDE DEF block
<1>4. block \notin mapped
  BY <1>2
<1>5. Local(t) /\ OneAddress /\ Reach(t) \subseteq mapped
  BY LocalView
<1>6. block \notin Reach(t) /\ block \notin Range(held[t])
  BY <1>4, <1>5 DEF Reach, Private
<1>7. Range(held'[t]) = Range(held[t]) \cup {block} /\ IsInjective(held'[t])
  BY <1>2, <1>3, <1>5, <1>6, ObtainMoves DEF Local
<1>8. Reach(t)' = Reach(t) \cup {block} /\ Private(t)' = Private(t) \cup {block}
  BY <1>7 DEF Reach, Private
<1>9. Local(t)'
  BY <1>5, <1>6, <1>7, <1>8 DEF Local, Reach, Private
<1>10. OneAddress'
  BY <1>2, <1>3, <1>5 DEF OneAddress
<1> QED BY <1>3, <1>4, <1>5, <1>8, <1>9, <1>10 DEF Conserves

LEMMA AllocateFailedMoves ==
  ASSUME TypeInv, Ownership, NEW t \in Threads, pc[t] \in Allocating,
         AllocateFailed(t), UNCHANGED <<live, cache, lost, mapped>>
  PROVE  Conserves(t)
<1>1. CASE op[t].kind = "sum_rows" /\ held[t] # <<>>
  BY <1>1, NothingMoves DEF AllocateFailed
<1>2. CASE ~(op[t].kind = "sum_rows" /\ held[t] # <<>>)
  BY <1>2, FailMoves DEF AllocateFailed
<1> QED BY <1>1, <1>2

-----------------------------------------------------------------------------
(***************************************************************************)
(* Each action conserves the blocks it does not move.                      *)
(***************************************************************************)
LEMMA BeginMoves ==
  ASSUME TypeInv, Ownership, NEW t \in Threads, Begin(t) \/ BeginDrop(t)
  PROVE  Conserves(t)
<1>1. CASE Begin(t)
  BY <1>1, NothingMoves DEF Begin
<1>2. CASE BeginDrop(t)
  <2>1. PICK b \in live : /\ live' = live \ {b}
                          /\ held' = [held EXCEPT ![t] = <<b>>]
    BY <1>2 DEF BeginDrop
  <2>2. /\ held[t] = <<>> /\ evicted[t] = <<>>
        /\ UNCHANGED <<cache, mapped, lost, evicted>>
    BY <1>2 DEF BeginDrop, TypeInv, Shape, ShapeOf
  <2>3. held'[t] = <<b>> /\ Range(held'[t]) = {b} /\ IsInjective(held'[t])
    <3>1. b \in Block
      BY <2>1 DEF TypeInv, TypeOK
    <3> QED BY <2>1, <3>1, SingletonBlocks DEF TypeInv, TypeOK
  <2>4. Local(t) /\ OneAddress /\ Reach(t) \subseteq mapped
    BY LocalView
  <2>5. Private(t)' = {b} /\ Private(t) = {}
    BY <2>2, <2>3, EmptyBlocks DEF Private
  <2>6. Local(t)'
    BY <2>1, <2>2, <2>3, <2>4, <2>5, EmptyBlocks DEF Local
  <2>7. Reach(t)' = Reach(t)
    BY <2>1, <2>2, <2>5 DEF Reach
  <2> QED BY <2>2, <2>4, <2>6, <2>7 DEF Conserves, OneAddress
<1> QED BY <1>1, <1>2

LEMMA CacheMoves ==
  ASSUME TypeInv, Ownership, NEW t \in Threads, CacheHealth(t) \/ CacheTake(t)
  PROVE  Conserves(t)
<1>1. CASE CacheHealth(t)
  BY <1>1, NothingMoves DEF CacheHealth
<1>2. CASE CacheTake(t)
  <2>1. UNCHANGED <<live, mapped, lost, evicted>>
    BY <1>2 DEF CacheTake
  <2>2. CASE UNCHANGED <<cache, held>>
    BY <2>1, <2>2, NothingMoves
  <2>3. ASSUME NEW i \in DOMAIN cache, cache' = RemoveAt(cache, i),
               Obtain(t, cache[i])
        PROVE  Conserves(t)
    <3>1. Local(t) /\ OneAddress /\ Reach(t) \subseteq mapped
      BY LocalView
    <3>2. /\ cache[i] \in Block /\ Range(cache) = {cache[i]} \cup Range(cache')
          /\ IsInjective(cache') /\ cache[i] \notin Range(cache')
      BY <2>3, <3>1, RemoveBlocks DEF Local, TypeInv, TypeOK
    <3>3. cache[i] \notin Private(t) /\ cache[i] \notin Range(held[t])
      BY <3>1, <3>2 DEF Local, Private
    <3>4. /\ Range(held'[t]) = Range(held[t]) \cup {cache[i]}
          /\ IsInjective(held'[t])
      BY <2>3, <3>1, <3>2, <3>3, ObtainMoves DEF Local
    <3>5. Private(t)' = Private(t) \cup {cache[i]}
      BY <2>1, <3>4 DEF Private
    <3>6. Local(t)'
      BY <2>1, <3>1, <3>2, <3>3, <3>4, <3>5 DEF Local, Private
    <3>7. Reach(t)' = Reach(t)
      BY <2>1, <3>2, <3>5 DEF Reach
    <3> QED BY <2>1, <3>1, <3>6, <3>7 DEF Conserves, OneAddress
  <2> QED BY <1>2, <2>2, <2>3 DEF CacheTake
<1> QED BY <1>1, <1>2

LEMMA AllocateMoves ==
  ASSUME TypeInv, Ownership, NEW t \in Threads,
         PoolHealth(t) \/ PoolAllocate(t) \/ Malloc(t)
  PROVE  Conserves(t)
<1>1. CASE PoolHealth(t)
  <2>1. CASE op[t].bytes = 0
    <3>1. op[t].kind \in WithScratch => held[t] # <<>>
      BY <1>1, <2>1 DEF PoolHealth, TypeInv, Shape, ShapeOf
    <3> QED BY <1>1, <2>1, <3>1, PublishMoves DEF PoolHealth
  <2>2. CASE op[t].bytes # 0
    BY <1>1, <2>2, NothingMoves DEF PoolHealth
  <2> QED BY <2>1, <2>2
<1>2. CASE PoolAllocate(t)
  <2>1. UNCHANGED <<cache, live, lost>> /\ pc[t] \in Allocating
    BY <1>2 DEF PoolAllocate
  <2>2. CASE Map(t, TRUE) /\ UNCHANGED evicted
    BY <2>1, <2>2, MapMoves
  <2>3. CASE UNCHANGED <<mapped, held, evicted>>
    BY <2>1, <2>3, NothingMoves
  <2>4. CASE AllocateFailed(t) /\ UNCHANGED mapped
    BY <2>1, <2>4, AllocateFailedMoves
  <2> QED BY <1>2, <2>2, <2>3, <2>4 DEF PoolAllocate
<1>3. CASE Malloc(t)
  <2>1. UNCHANGED <<cache, live, lost>> /\ pc[t] \in Allocating
    BY <1>3 DEF Malloc
  <2>2. CASE Map(t, FALSE) /\ UNCHANGED evicted
    BY <2>1, <2>2, MapMoves
  <2>3. CASE AllocateFailed(t) /\ UNCHANGED mapped
    BY <2>1, <2>3, AllocateFailedMoves
  <2> QED BY <1>3, <2>2, <2>3 DEF Malloc
<1> QED BY <1>1, <1>2, <1>3

LEMMA WorkMoves ==
  ASSUME TypeInv, Ownership, NEW t \in Threads,
         Launch(t) \/ Synchronize(t) \/ DisableReuse(t)
  PROVE  Conserves(t)
<1>1. /\ pc[t] \notin Releasing /\ UNCHANGED <<cache, mapped, lost>>
      /\ pc[t] \in Working /\ op[t].kind \in WithScratch => held[t] # <<>>
  BY DEF Launch, Synchronize, DisableReuse, TypeInv, Shape, ShapeOf
<1>2. CASE Publish(t) /\ pc[t] \in Working
  BY <1>1, <1>2, PublishMoves
<1>3. CASE Fail(t) /\ UNCHANGED live
  BY <1>1, <1>3, FailMoves
<1>4. CASE UNCHANGED <<live, held, evicted>>
  BY <1>1, <1>4, NothingMoves
<1>5. CASE Launch(t)
  BY <1>2, <1>3, <1>4, <1>5 DEF Launch
<1>6. CASE Synchronize(t)
  BY <1>2, <1>3, <1>4, <1>6 DEF Synchronize
<1>7. CASE DisableReuse(t)
  BY <1>3, <1>7 DEF DisableReuse
<1> QED BY <1>5, <1>6, <1>7

LEMMA DropMoves ==
  ASSUME TypeInv, Ownership, NEW t \in Threads,
         Drop(t) \/ CachePush(t)
  PROVE  Conserves(t)
<1> DEFINE block == Head(held[t])
<1>1. /\ pc[t] \in {"drop", "cache_push"} /\ held[t] # <<>>
      /\ held[t] \in Seq(Block) /\ cache \in Seq(Block) /\ evicted[t] = <<>>
      /\ UNCHANGED <<live, mapped, lost>>
  BY DEF Drop, CachePush, TypeInv, TypeOK, Shape, ShapeOf
<1>2. Local(t) /\ OneAddress /\ Reach(t) \subseteq mapped
  BY LocalView
<1>3. /\ block \in Block /\ Tail(held[t]) \in Seq(Block)
      /\ Range(held[t]) = {block} \cup Range(Tail(held[t]))
      /\ IsInjective(Tail(held[t])) /\ block \notin Range(Tail(held[t]))
  BY <1>1, <1>2, TailBlocks DEF Local
<1>4. block \notin Range(cache) /\ Range(Tail(held[t])) \cap Range(cache) = {}
      /\ Private(t) = Range(held[t])
  BY <1>1, <1>2, <1>3, EmptyBlocks DEF Local, Private
<1> HIDE DEF block
<1>5. CASE CachePush(t)
  <2>1. PICK k \in 0..Len(cache) :
          /\ cache' = Append(Kept(k), block)
          /\ Unwind(t, Tail(held[t]), SubSeq(cache, 1, k))
    BY <1>5 DEF CachePush, block
  <2> DEFINE old == SubSeq(cache, 1, k)
  <2>2. /\ Kept(k) \in Seq(Block) /\ old \in Seq(Block)
        /\ Range(cache) = Range(old) \cup Range(Kept(k))
        /\ IsInjective(old) /\ IsInjective(Kept(k))
        /\ Range(old) \cap Range(Kept(k)) = {}
    BY <1>1, <1>2, SplitBlocks DEF Kept, Local
  <2>3. Unwind(t, Tail(held[t]), old)
    BY <2>1
  <2> HIDE DEF old
  <2>4. Range(cache') = Range(Kept(k)) \cup {block} /\ IsInjective(cache')
    BY <1>3, <1>4, <2>1, <2>2, AppendBlocks
  <2>5. held'[t] = Tail(held[t]) /\ evicted'[t] = old
    BY <1>3, <2>2, <2>3, UnwindShape
  <2>6. Private(t)' = Range(Tail(held[t])) \cup Range(old)
    BY <2>5 DEF Private
  <2>7. Local(t)'
    BY <1>1, <1>2, <1>3, <1>4, <2>2, <2>4, <2>5, <2>6 DEF Local
  <2>8. Reach(t)' = Reach(t)
    BY <1>1, <1>3, <1>4, <2>2, <2>4, <2>6 DEF Reach
  <2> QED BY <1>1, <1>2, <2>7, <2>8 DEF Conserves, OneAddress
<1>6. CASE Drop(t) /\ ~Cacheable(block)
  <2>1. Unwind(t, Tail(held[t]), <<block>>) /\ UNCHANGED cache
    BY <1>6 DEF Drop, block
  <2>2. <<block>> \in Seq(Block) /\ Range(<<block>>) = {block}
        /\ IsInjective(<<block>>)
    BY <1>3, SingletonBlocks
  <2>3. held'[t] = Tail(held[t]) /\ evicted'[t] = <<block>>
    BY <1>3, <2>1, <2>2, UnwindShape
  <2>4. Private(t)' = Private(t)
    BY <1>3, <1>4, <2>2, <2>3 DEF Private
  <2>5. Local(t)'
    BY <1>1, <1>2, <1>3, <2>1, <2>2, <2>3, <2>4 DEF Local
  <2>6. Reach(t)' = Reach(t)
    BY <1>1, <2>1, <2>4 DEF Reach
  <2> QED BY <1>1, <1>2, <2>5, <2>6 DEF Conserves, OneAddress
<1>7. CASE Drop(t) /\ Cacheable(block)
  <2>1. UNCHANGED <<cache, held, evicted>>
    BY <1>7 DEF Drop, block
  <2> QED BY <1>1, <2>1, NothingMoves
<1> QED BY <1>5, <1>6, <1>7

\* The head of the evicted blocks leaves the thread, for the driver or for good.
LEMMA HeadLeaves ==
  ASSUME TypeInv, Ownership, NEW t \in Threads, evicted[t] # <<>>,
         Unwind(t, held[t], Tail(evicted[t])), UNCHANGED <<live, cache>>,
         \/ lost' = lost \cup {Head(evicted[t])} /\ UNCHANGED mapped
         \/ mapped' = mapped \ {Head(evicted[t])} /\ UNCHANGED lost
  PROVE  Conserves(t)
<1> DEFINE block == Head(evicted[t])
           rest == Tail(evicted[t])
<1>1. Local(t) /\ OneAddress /\ Reach(t) \subseteq mapped
  BY LocalView
<1>2. held[t] \in Seq(Block) /\ evicted[t] \in Seq(Block)
  BY DEF TypeInv, TypeOK
<1>3. /\ block \in Block /\ rest \in Seq(Block)
      /\ Range(evicted[t]) = {block} \cup Range(rest)
      /\ IsInjective(rest) /\ block \notin Range(rest)
  BY <1>1, <1>2, TailBlocks DEF Local
<1>4. \/ lost' = lost \cup {block} /\ UNCHANGED mapped
      \/ mapped' = mapped \ {block} /\ UNCHANGED lost
  OBVIOUS
<1>5. held'[t] = held[t] /\ evicted'[t] = rest
  BY <1>2, <1>3, UnwindShape
<1> HIDE DEF block, rest
<1>6. Private(t)' = Range(held[t]) \cup Range(rest)
  BY <1>5 DEF Private
<1>7. block \in Private(t) /\ block \notin Private(t)'
      /\ block \notin live \cup Range(cache) \cup lost
      /\ Private(t) = Private(t)' \cup {block}
  BY <1>1, <1>3, <1>6 DEF Local, Private
<1>8. Local(t)'
  BY <1>1, <1>3, <1>4, <1>5, <1>6, <1>7 DEF Local
<1>9. CASE lost' = lost \cup {block} /\ UNCHANGED mapped
  <2>1. Reach(t)' = Reach(t)
    BY <1>7, <1>9 DEF Reach
  <2> QED BY <1>1, <1>8, <1>9, <2>1 DEF Conserves, OneAddress
<1>10. CASE mapped' = mapped \ {block} /\ UNCHANGED lost
  <2>1. Reach(t) = Reach(t)' \cup {block} /\ block \notin Reach(t)'
    BY <1>7, <1>10 DEF Reach
  <2> QED BY <1>1, <1>8, <1>10, <2>1 DEF Conserves, OneAddress
<1> QED BY <1>4, <1>9, <1>10

LEMMA ReleaseMoves ==
  ASSUME TypeInv, Ownership, NEW t \in Threads,
         \/ Release(t) \/ FreeHealth(t) \/ Free(t) \/ FreeAsync(t)
         \/ DisableAfterFree(t)
  PROVE  Conserves(t)
<1>1. pc[t] \in Releasing /\ evicted[t] # <<>> /\ UNCHANGED <<live, cache>>
  BY DEF Release, FreeHealth, Free, FreeAsync, DisableAfterFree,
         TypeInv, Shape, ShapeOf
<1>2. CASE UNCHANGED <<lost, mapped, held, evicted>>
  BY <1>1, <1>2, NothingMoves
<1>3. CASE /\ Unwind(t, held[t], Tail(evicted[t]))
           /\ \/ lost' = lost \cup {Head(evicted[t])} /\ UNCHANGED mapped
              \/ mapped' = mapped \ {Head(evicted[t])} /\ UNCHANGED lost
  BY <1>1, <1>3, HeadLeaves
<1>4. CASE Release(t)
  BY <1>2, <1>3, <1>4 DEF Release
<1>5. CASE FreeHealth(t)
  BY <1>2, <1>3, <1>5 DEF FreeHealth, Released
<1>6. CASE Free(t)
  BY <1>3, <1>6 DEF Free, Released, Unmap
<1>7. CASE FreeAsync(t)
  BY <1>2, <1>3, <1>7 DEF FreeAsync, Released, Unmap
<1>8. CASE DisableAfterFree(t)
  BY <1>3, <1>8 DEF DisableAfterFree, Released
<1> QED BY <1>4, <1>5, <1>6, <1>7, <1>8

LEMMA ReturnMoves ==
  ASSUME TypeInv, Ownership, NEW t \in Threads, Return(t)
  PROVE  Conserves(t)
BY NothingMoves DEF Return

LEMMA ThreadStepMoves ==
  ASSUME TypeInv, Ownership, NEW t \in Threads,
         Begin(t) \/ BeginDrop(t) \/ Step(t)
  PROVE  OnlyThread(t) /\ Ownership'
<1>1. Conserves(t)
  BY BeginMoves, CacheMoves, AllocateMoves, WorkMoves, DropMoves, ReleaseMoves,
     ReturnMoves DEF Step
<1>2. OnlyThread(t)
  BY ThreadStepTypes DEF StepKept
<1> QED BY <1>1, <1>2, OwnershipStep

-----------------------------------------------------------------------------
LEMMA InitOwnership == Init => Ownership
<1> SUFFICES ASSUME Init PROVE Ownership
  OBVIOUS
<1>1. \A t \in Threads : /\ held[t] = <<>> /\ evicted[t] = <<>>
                         /\ Private(t) = {}
  BY EmptyBlocks DEF Init, Private
<1>2. Range(cache) = {} /\ IsInjective(cache) /\ live = {} /\ mapped = {}
      /\ lost = {}
  BY EmptyBlocks DEF Init
<1>3. UNION {Private(t) : t \in Threads} = {}
  BY <1>1
<1>4. SingleOwner
  BY <1>1, <1>2, EmptyBlocks DEF SingleOwner
<1>5. NoLeak
  BY <1>2, <1>3 DEF NoLeak
<1> QED BY <1>4, <1>5 DEF Ownership

LEMMA NextOwnership == TypeInv /\ Ownership /\ [Next]_vars => Ownership'
<1> SUFFICES ASSUME TypeInv, Ownership, [Next]_vars PROVE Ownership'
  OBVIOUS
<1>1. CASE Next
  BY <1>1, ThreadStepMoves DEF Next
<1>2. CASE UNCHANGED vars
  BY <1>2 DEF vars, threadVars, Ownership, SingleOwner, NoLeak, Private
<1> QED BY <1>1, <1>2

LEMMA OwnershipInvariant == Spec => []Ownership
BY InitOwnership, NextOwnership, TypeInvariant, PTL DEF Spec

(***************************************************************************)
(* A block of cuda.rs is reachable from one place only: it is never handed *)
(* out while in use, and never freed twice.                                *)
(***************************************************************************)
THEOREM OneOwner == Spec => []SingleOwner
BY OwnershipInvariant, PTL DEF Ownership

(***************************************************************************)
(* Every block the driver handed out has an owner, and no two blocks have  *)
(* one address: allocation, reuse, eviction, quarantine and every error    *)
(* path of cuda.rs account for each block once.                            *)
(***************************************************************************)
THEOREM NothingLeaks == Spec => []NoLeak
BY OwnershipInvariant, PTL DEF Ownership

USE DEF Allocating, Working, Releasing

-----------------------------------------------------------------------------
Freeing == {"free_health", "free", "free_async"}

\* The device the guards of t would restore now, the outer one last.
Undone(t) ==
  IF guard[t] # NoDevice THEN guard[t]
  ELSE IF inner[t] # NoDevice THEN inner[t] ELSE current[t]

Homing(t) == t \notin strayed => Undone(t) = Home[t]

(***************************************************************************)
(* The guards of an operation and of a release nest: while t works, the    *)
(* device is the operation's and so are its blocks'; while it releases a   *)
(* block, the device is that block's, and only a pooled block goes to a    *)
(* pool; and undoing both guards leads home.                               *)
(***************************************************************************)
DeviceOf(t) ==
  /\ pc[t] \in Allocating \cup Working =>
       /\ current[t] = op[t].device
       /\ \A b \in Touched(t) : b.device = op[t].device
  /\ pc[t] \in Freeing => current[t] = Head(evicted[t]).device
  /\ pc[t] = "free" => ~Head(evicted[t]).pooled
  /\ pc[t] \in {"free_health", "free_async", "disable_after_free"} =>
       Head(evicted[t]).pooled
  /\ inner[t] # NoDevice => pc[t] \in Freeing \cup {"disable_after_free"}
  /\ pc[t] = "idle" => guard[t] = NoDevice
  /\ Homing(t)

DeviceInv == \A t \in Threads : DeviceOf(t)

\* A step of t selects devices and takes guards for t alone.
OnlyGuards(t) ==
  /\ strayed \subseteq strayed' /\ strayed' \subseteq strayed \cup {t}
  /\ \A u \in Threads \ {t} : /\ current'[u] = current[u]
                              /\ guard'[u] = guard[u] /\ inner'[u] = inner[u]

DeviceKept(t) == DeviceOf(t)' /\ OnlyGuards(t)

LEMMA DeviceStep ==
  ASSUME DeviceInv, NEW t \in Threads, OnlyThread(t), DeviceKept(t)
  PROVE  DeviceInv'
<1> SUFFICES ASSUME NEW u \in Threads PROVE DeviceOf(u)'
  BY DEF DeviceInv
<1>1. CASE u = t
  BY <1>1 DEF DeviceKept
<1>2. CASE u # t
  <2>1. /\ pc'[u] = pc[u] /\ op'[u] = op[u] /\ held'[u] = held[u]
        /\ evicted'[u] = evicted[u] /\ current'[u] = current[u]
        /\ guard'[u] = guard[u] /\ inner'[u] = inner[u]
        /\ u \in strayed' <=> u \in strayed
    BY <1>2 DEF OnlyThread, DeviceKept, OnlyGuards
  <2>2. DeviceOf(u)
    BY DEF DeviceInv
  <2> QED BY <2>1, <2>2 DEF DeviceOf, Homing, Undone, Touched
<1> QED BY <1>1, <1>2

-----------------------------------------------------------------------------
(***************************************************************************)
(* What a guard that drops does to the way home.                           *)
(***************************************************************************)
LEMMA LeaveGuardHomes ==
  ASSUME TypeInv, NEW t \in Threads, Homing(t), inner[t] = NoDevice,
         LeaveGuard(t), UNCHANGED inner
  PROVE  Homing(t)' /\ OnlyGuards(t)
<1>1. /\ guard \in [Threads -> Devices \cup {NoDevice}]
      /\ current \in [Threads -> Devices] /\ strayed \subseteq Threads
  BY DEF TypeInv, TypeOK
<1>2. CASE op[t].kind \in HoldsGuard
  BY <1>1, <1>2 DEF LeaveGuard, Homing, Undone, OnlyGuards
<1>3. CASE op[t].kind \notin HoldsGuard
  <2>1. Restore(t, guard[t]) /\ guard' = [guard EXCEPT ![t] = NoDevice]
    BY <1>3 DEF LeaveGuard
  <2>2. CASE guard[t] = NoDevice
    BY <1>1, <2>1, <2>2 DEF Restore, Homing, Undone, OnlyGuards
  <2>3. CASE guard[t] # NoDevice /\ current' = [current EXCEPT ![t] = guard[t]]
             /\ UNCHANGED strayed
    BY <1>1, <2>1, <2>3 DEF Homing, Undone, OnlyGuards
  <2>4. CASE strayed' = strayed \cup {t} /\ UNCHANGED current
    BY <1>1, <2>1, <2>4 DEF Homing, OnlyGuards
  <2> QED BY <2>1, <2>2, <2>3, <2>4 DEF Restore
<1> QED BY <1>2, <1>3

LEMMA InnerGuardHomes ==
  ASSUME TypeInv, NEW t \in Threads, Homing(t), Restore(t, inner[t]),
         inner' = [inner EXCEPT ![t] = NoDevice], UNCHANGED guard
  PROVE  Homing(t)' /\ OnlyGuards(t) /\ inner'[t] = NoDevice
<1>1. /\ inner \in [Threads -> Devices \cup {NoDevice}]
      /\ current \in [Threads -> Devices] /\ strayed \subseteq Threads
  BY DEF TypeInv, TypeOK
<1>2. CASE inner[t] = NoDevice
  BY <1>1, <1>2 DEF Restore, Homing, Undone, OnlyGuards
<1>3. CASE inner[t] # NoDevice /\ current' = [current EXCEPT ![t] = inner[t]]
           /\ UNCHANGED strayed
  BY <1>1, <1>3 DEF Homing, Undone, OnlyGuards
<1>4. CASE strayed' = strayed \cup {t} /\ UNCHANGED current
  BY <1>1, <1>4 DEF Homing, OnlyGuards
<1> QED BY <1>2, <1>3, <1>4 DEF Restore

\* A step that leaves the guards alone and does not change what the device is for.
LEMMA SameGuards ==
  ASSUME DeviceInv, NEW t \in Threads, UNCHANGED <<current, guard, inner, strayed>>
  PROVE  OnlyGuards(t) /\ Homing(t)' /\ current'[t] = current[t]
         /\ inner'[t] = inner[t] /\ guard'[t] = guard[t]
BY DEF OnlyGuards, Homing, Undone, DeviceInv, DeviceOf

-----------------------------------------------------------------------------
(***************************************************************************)
(* The ends of an operation, good or bad.                                  *)
(***************************************************************************)
LEMMA UnwindsOnDevice ==
  ASSUME TypeInv, DeviceInv, NEW t \in Threads, pc[t] \notin Releasing,
         LeaveGuard(t), UNCHANGED inner,
         pc'[t] \in {"release", "drop", "return"}
  PROVE  DeviceKept(t)
<1>1. inner[t] = NoDevice /\ Homing(t)
  BY DEF DeviceInv, DeviceOf, Freeing
<1>2. Homing(t)' /\ OnlyGuards(t)
  BY <1>1, LeaveGuardHomes
<1> QED BY <1>1, <1>2 DEF DeviceKept, DeviceOf, Freeing

LEMMA FailDevice ==
  ASSUME TypeInv, DeviceInv, NEW t \in Threads, pc[t] \notin Releasing,
         Fail(t), UNCHANGED inner
  PROVE  DeviceKept(t)
<1>1. pc'[t] \in {"release", "drop", "return"}
  BY DEF Fail, Unwind, Goto, TypeInv, TypeOK
<1> QED BY <1>1, UnwindsOnDevice DEF Fail

LEMMA PublishDevice ==
  ASSUME TypeInv, DeviceInv, NEW t \in Threads, pc[t] \notin Releasing,
         Publish(t), UNCHANGED inner
  PROVE  DeviceKept(t)
<1>1. pc'[t] \in {"release", "drop", "return"}
  BY DEF Publish, Unwind, Goto, TypeInv, TypeOK
<1> QED BY <1>1, UnwindsOnDevice DEF Publish

\* A block of the operation's device joins those the operation holds.
LEMMA ObtainDevice ==
  ASSUME TypeInv, DeviceInv, NEW t \in Threads, pc[t] \in Allocating,
         NEW block \in Block, block.device = op[t].device, Obtain(t, block),
         UNCHANGED <<current, guard, inner, strayed, evicted>>
  PROVE  DeviceKept(t)
<1>1. /\ OnlyGuards(t) /\ Homing(t)' /\ current'[t] = current[t]
      /\ inner'[t] = inner[t]
  BY SameGuards
<1>2. /\ current[t] = op[t].device /\ inner[t] = NoDevice
      /\ \A b \in Touched(t) : b.device = op[t].device
  BY DEF DeviceInv, DeviceOf, Freeing
<1>3. Range(held'[t]) = Range(held[t]) \cup {block}
  BY ObtainMoves
<1>4. op'[t].device = op[t].device /\ op'[t].inputs = op[t].inputs
  BY DEF Obtain, TypeInv, TypeOK, Op
<1>5. pc'[t] \in {"cache_health", "launch"}
  BY DEF Obtain, Goto, TypeInv, TypeOK
<1>6. \A b \in Touched(t)' : b.device = op'[t].device
  BY <1>2, <1>3, <1>4 DEF Touched
<1> QED BY <1>1, <1>2, <1>4, <1>5, <1>6 DEF DeviceKept, DeviceOf, Freeing

\* A step between two calls of one operation.
LEMMA GoOnDevice ==
  ASSUME TypeInv, DeviceInv, NEW t \in Threads, pc[t] \in Allocating \cup Working,
         UNCHANGED <<held, current, guard, inner, strayed>>,
         op'[t].device = op[t].device, op'[t].inputs = op[t].inputs,
         pc'[t] \in Allocating \cup Working \cup {"disable_reuse"}
  PROVE  DeviceKept(t)
<1>1. /\ OnlyGuards(t) /\ Homing(t)' /\ current'[t] = current[t]
      /\ inner'[t] = inner[t]
  BY SameGuards
<1>2. /\ current[t] = op[t].device /\ inner[t] = NoDevice
      /\ \A b \in Touched(t) : b.device = op[t].device
  BY DEF DeviceInv, DeviceOf, Freeing
<1>3. Touched(t)' = Touched(t)
  BY DEF Touched
<1> QED BY <1>1, <1>2, <1>3 DEF DeviceKept, DeviceOf, Freeing

-----------------------------------------------------------------------------
(***************************************************************************)
(* Each action.                                                            *)
(***************************************************************************)
LEMMA BeginDevice ==
  ASSUME TypeInv, DeviceInv, NEW t \in Threads, Begin(t) \/ BeginDrop(t)
  PROVE  DeviceKept(t)
<1>0. /\ op \in [Threads -> Op] /\ current \in [Threads -> Devices]
      /\ guard \in [Threads -> Devices \cup {NoDevice}]
      /\ pc \in [Threads -> Labels] /\ held[t] = <<>>
      /\ DeviceOf(t) /\ pc[t] = "idle"
  BY DEF Begin, BeginDrop, TypeInv, TypeOK, Shape, ShapeOf, DeviceInv
<1>1. CASE Begin(t)
  <2>1. PICK kind \in OneBlock \cup WithScratch, d \in Devices, bytes \in Sizes :
          \E inputs \in SUBSET {b \in live : b.device = d} :
            /\ Cardinality(inputs) <= IF kind = "pointwise" THEN 3 ELSE 2
            /\ kind \in {"zeros", "upload", "plan"} => inputs = {}
            /\ kind = "sum_rows" => Cardinality(inputs) = 1
            /\ kind = "pointwise" => inputs # {}
            /\ kind \in WithScratch \cup HoldsGuard => bytes # 0
            /\ op' = [op EXCEPT ![t] =
                        [kind |-> kind, device |-> d, bytes |-> bytes,
                         inputs |-> inputs, failed |-> FALSE]]
            /\ current' = [current EXCEPT ![t] = d]
            /\ guard' = [guard EXCEPT ![t] = Previous(t, d)]
    BY <1>1 DEF Begin
  <2>2. PICK inputs \in SUBSET {b \in live : b.device = d} :
          /\ op' = [op EXCEPT ![t] =
                      [kind |-> kind, device |-> d, bytes |-> bytes,
                       inputs |-> inputs, failed |-> FALSE]]
          /\ current' = [current EXCEPT ![t] = d]
          /\ guard' = [guard EXCEPT ![t] = Previous(t, d)]
    BY <2>1
  <2>3. /\ op'[t].device = d /\ op'[t].inputs = inputs /\ current'[t] = d
        /\ guard'[t] = Previous(t, d) /\ pc'[t] = "cache_health"
        /\ UNCHANGED <<held, inner, strayed>>
    BY <1>0, <1>1, <2>2 DEF Begin, Goto
  <2>4. OnlyGuards(t)
    BY <1>0, <2>2, <2>3 DEF OnlyGuards
  <2>5. \A b \in Touched(t)' : b.device = d
    BY <1>0, <2>3, EmptyBlocks DEF Touched
  <2>6. Homing(t)' /\ inner'[t] = NoDevice
    BY <1>0, <2>3, StorageConstants DEF DeviceOf, Homing, Undone, Previous, Freeing
  <2> QED BY <2>3, <2>4, <2>5, <2>6 DEF DeviceKept, DeviceOf, Freeing
<1>2. CASE BeginDrop(t)
  <2>1. pc'[t] = "drop" /\ UNCHANGED <<current, guard, inner, strayed>>
    BY <1>0, <1>2 DEF BeginDrop, Goto
  <2>2. OnlyGuards(t) /\ Homing(t)' /\ inner'[t] = NoDevice
    BY <1>0, <2>1, SameGuards DEF DeviceOf, Freeing
  <2> QED BY <2>1, <2>2 DEF DeviceKept, DeviceOf, Freeing
<1> QED BY <1>1, <1>2

LEMMA CacheDevice ==
  ASSUME TypeInv, DeviceInv, NEW t \in Threads, CacheHealth(t) \/ CacheTake(t)
  PROVE  DeviceKept(t)
<1>1. CASE UNCHANGED <<op, held>> /\ pc'[t] \in Allocating
  BY <1>1, GoOnDevice DEF CacheHealth, CacheTake
<1>2. CASE CacheHealth(t)
  BY <1>1, <1>2 DEF CacheHealth, Goto, TypeInv, TypeOK
<1>3. CASE CacheTake(t)
  <2>1. CASE \A i \in DOMAIN cache : ~Fits(t, cache[i])
    BY <1>1, <1>3, <2>1 DEF CacheTake, IsBestFit, Goto, TypeInv, TypeOK
  <2>2. CASE \E i \in DOMAIN cache : Fits(t, cache[i])
    <3>1. PICK i \in DOMAIN cache : Fits(t, cache[i]) /\ Obtain(t, cache[i])
      BY <1>3, <2>2 DEF CacheTake, IsBestFit
    <3>2. cache[i] \in Block /\ cache[i].device = op[t].device
      BY <3>1 DEF Fits, TypeInv, TypeOK
    <3> QED BY <1>3, <3>1, <3>2, ObtainDevice DEF CacheTake
  <2> QED BY <2>1, <2>2
<1> QED BY <1>2, <1>3

LEMMA MapDevice ==
  ASSUME TypeInv, DeviceInv, NEW t \in Threads, NEW pooled \in BOOLEAN,
         pc[t] \in Allocating, Map(t, pooled),
         UNCHANGED <<current, guard, inner, strayed, evicted>>
  PROVE  DeviceKept(t)
<1>1. PICK p \in Pointers :
        LET block == [device |-> op[t].device, bytes |-> op[t].bytes,
                      ptr |-> p, pooled |-> pooled]
        IN  Obtain(t, block)
  BY DEF Map
<1> DEFINE block == [device |-> op[t].device, bytes |-> op[t].bytes,
                     ptr |-> p, pooled |-> pooled]
<1>2. block \in Block /\ block.device = op[t].device
  BY DEF TypeInv, TypeOK, Shape, ShapeOf, Op, Block
<1>3. Obtain(t, block)
  BY <1>1
<1> HIDE DEF block
<1> QED BY <1>2, <1>3, ObtainDevice

LEMMA AllocateFailedDevice ==
  ASSUME TypeInv, DeviceInv, NEW t \in Threads, pc[t] \in Allocating,
         AllocateFailed(t), UNCHANGED inner
  PROVE  DeviceKept(t)
<1>1. CASE op[t].kind = "sum_rows" /\ held[t] # <<>>
  <2>1. /\ op'[t].device = op[t].device /\ op'[t].inputs = op[t].inputs
        /\ pc'[t] = "synchronize" /\ UNCHANGED <<held, current, guard, strayed>>
    BY <1>1 DEF AllocateFailed, Goto, TypeInv, TypeOK, Op
  <2> QED BY <2>1, GoOnDevice
<1>2. CASE ~(op[t].kind = "sum_rows" /\ held[t] # <<>>)
  BY <1>2, FailDevice DEF AllocateFailed
<1> QED BY <1>1, <1>2

LEMMA AllocateDevice ==
  ASSUME TypeInv, DeviceInv, NEW t \in Threads,
         PoolHealth(t) \/ PoolAllocate(t) \/ Malloc(t)
  PROVE  DeviceKept(t)
<1>1. pc[t] \in Allocating /\ UNCHANGED inner /\ pc \in [Threads -> Labels]
  BY DEF PoolHealth, PoolAllocate, Malloc, TypeInv, TypeOK
<1>2. CASE PoolHealth(t)
  <2>1. CASE op[t].bytes = 0
    BY <1>1, <1>2, <2>1, PublishDevice DEF PoolHealth
  <2>2. CASE op[t].bytes # 0
    BY <1>1, <1>2, <2>2, GoOnDevice DEF PoolHealth, Goto
  <2> QED BY <2>1, <2>2
<1>3. CASE PoolAllocate(t)
  <2>1. CASE Map(t, TRUE) /\ UNCHANGED <<evicted, current, guard, strayed>>
    BY <1>1, <2>1, MapDevice
  <2>2. CASE /\ Goto(t, "malloc")
             /\ UNCHANGED <<mapped, op, held, evicted, current, guard, strayed>>
    BY <1>1, <2>2, GoOnDevice DEF Goto
  <2>3. CASE AllocateFailed(t)
    BY <1>1, <2>3, AllocateFailedDevice
  <2> QED BY <1>3, <2>1, <2>2, <2>3 DEF PoolAllocate
<1>4. CASE Malloc(t)
  BY <1>1, <1>4, MapDevice, AllocateFailedDevice DEF Malloc
<1> QED BY <1>2, <1>3, <1>4

LEMMA WorkDevice ==
  ASSUME TypeInv, DeviceInv, NEW t \in Threads,
         Launch(t) \/ Synchronize(t) \/ DisableReuse(t)
  PROVE  DeviceKept(t)
<1>1. /\ pc[t] \notin Releasing /\ UNCHANGED inner /\ op \in [Threads -> Op]
      /\ pc \in [Threads -> Labels]
  BY DEF Launch, Synchronize, DisableReuse, TypeInv, TypeOK
<1>2. CASE Publish(t) \/ Fail(t)
  BY <1>1, <1>2, PublishDevice, FailDevice
<1>3. CASE /\ Goto(t, "synchronize") \/ Goto(t, "disable_reuse")
           /\ pc[t] \in Working
           /\ UNCHANGED <<held, current, guard, strayed>>
           /\ \/ UNCHANGED op
              \/ \E accepted \in BOOLEAN : op' = [op EXCEPT ![t].failed = ~accepted]
  <2>1. op'[t].device = op[t].device /\ op'[t].inputs = op[t].inputs
    BY <1>1, <1>3 DEF Op
  <2>2. pc'[t] \in Working \cup {"disable_reuse"}
    BY <1>1, <1>3 DEF Goto
  <2> QED BY <1>1, <1>3, <2>1, <2>2, GoOnDevice
<1>4. CASE Launch(t)
  BY <1>2, <1>3, <1>4 DEF Launch
<1>5. CASE Synchronize(t)
  BY <1>2, <1>3, <1>5 DEF Synchronize
<1>6. CASE DisableReuse(t)
  BY <1>2, <1>6 DEF DisableReuse
<1> QED BY <1>4, <1>5, <1>6

LEMMA DropDevice ==
  ASSUME TypeInv, DeviceInv, NEW t \in Threads, Drop(t) \/ CachePush(t)
  PROVE  DeviceKept(t)
<1>1. /\ pc[t] \in {"drop", "cache_push"}
      /\ pc'[t] \in {"release", "drop", "return", "cache_push"}
      /\ UNCHANGED <<current, guard, inner, strayed>>
  BY DEF Drop, CachePush, Unwind, Goto, TypeInv, TypeOK
<1>2. OnlyGuards(t) /\ Homing(t)' /\ inner'[t] = NoDevice
  BY <1>1, SameGuards DEF DeviceInv, DeviceOf, Freeing
<1> QED BY <1>1, <1>2 DEF DeviceKept, DeviceOf, Freeing

LEMMA ReleasedDevice ==
  ASSUME TypeInv, DeviceInv, NEW t \in Threads, Released(t), UNCHANGED guard
  PROVE  DeviceKept(t)
<1>1. pc'[t] \in {"release", "drop", "return"}
  BY DEF Released, Unwind, Goto, TypeInv, TypeOK
<1>2. Homing(t)' /\ OnlyGuards(t) /\ inner'[t] = NoDevice
  BY InnerGuardHomes DEF Released, DeviceInv, DeviceOf
<1> QED BY <1>1, <1>2 DEF DeviceKept, DeviceOf, Freeing

LEMMA ReleaseDevice ==
  ASSUME TypeInv, DeviceInv, NEW t \in Threads,
         \/ Release(t) \/ FreeHealth(t) \/ Free(t) \/ FreeAsync(t)
         \/ DisableAfterFree(t)
  PROVE  DeviceKept(t)
<1>0. /\ pc \in [Threads -> Labels] /\ current \in [Threads -> Devices]
      /\ inner \in [Threads -> Devices \cup {NoDevice}]
      /\ pc[t] \in Releasing /\ UNCHANGED guard /\ DeviceOf(t)
  BY DEF Release, FreeHealth, Free, FreeAsync, DisableAfterFree, TypeInv, TypeOK,
         DeviceInv
<1>1. CASE Released(t)
  BY <1>0, <1>1, ReleasedDevice
<1>2. CASE Release(t)
  <2>1. CASE /\ current' = [current EXCEPT ![t] = Head(evicted[t]).device]
             /\ inner' = [inner EXCEPT ![t] = Previous(t, Head(evicted[t]).device)]
             /\ Goto(t, IF Head(evicted[t]).pooled THEN "free_health" ELSE "free")
             /\ UNCHANGED <<lost, held, evicted>>
    <3>1. /\ current'[t] = Head(evicted'[t]).device
          /\ inner'[t] = Previous(t, Head(evicted[t]).device)
          /\ pc'[t] = IF Head(evicted'[t]).pooled THEN "free_health" ELSE "free"
          /\ UNCHANGED <<guard, strayed>>
      BY <1>0, <1>2, <2>1 DEF Release, Goto
    <3>2. inner[t] = NoDevice
      BY <1>0, <1>2 DEF Release, DeviceOf, Freeing
    <3>3. OnlyGuards(t)
      BY <1>0, <2>1, <3>1 DEF OnlyGuards
    <3>4. Homing(t)'
      BY <1>0, <2>1, <3>1, <3>2, StorageConstants
         DEF DeviceOf, Homing, Undone, Previous
    <3> QED BY <3>1, <3>3, <3>4 DEF DeviceKept, DeviceOf, Freeing
  <2>2. CASE /\ Unwind(t, held[t], Tail(evicted[t]))
             /\ UNCHANGED <<current, inner>>
    <3>1. pc'[t] \in {"release", "drop", "return"} /\ UNCHANGED strayed
      BY <1>0, <1>2, <2>2 DEF Release, Unwind, Goto
    <3>2. OnlyGuards(t) /\ Homing(t)' /\ inner'[t] = NoDevice
      BY <1>0, <1>2, <2>2, <3>1, SameGuards DEF Release, DeviceOf, Freeing
    <3> QED BY <3>1, <3>2 DEF DeviceKept, DeviceOf, Freeing
  <2> QED BY <1>2, <2>1, <2>2 DEF Release
<1>3. CASE FreeHealth(t) /\ healthy
  <2>1. /\ pc'[t] = "free_async"
        /\ UNCHANGED <<held, evicted, current, guard, inner, strayed>>
    BY <1>0, <1>3 DEF FreeHealth, Goto
  <2>2. /\ OnlyGuards(t) /\ Homing(t)' /\ current'[t] = Head(evicted'[t]).device
        /\ Head(evicted'[t]).pooled
    BY <1>0, <1>3, <2>1, SameGuards DEF FreeHealth, DeviceOf, Freeing
  <2> QED BY <2>1, <2>2 DEF DeviceKept, DeviceOf, Freeing
<1>4. CASE FreeAsync(t) /\ ~Released(t)
  <2>1. /\ pc'[t] = "disable_after_free"
        /\ UNCHANGED <<held, evicted, current, guard, inner, strayed>>
    BY <1>0, <1>4 DEF FreeAsync, Goto
  <2>2. OnlyGuards(t) /\ Homing(t)' /\ Head(evicted'[t]).pooled
    BY <1>0, <1>4, <2>1, SameGuards DEF FreeAsync, DeviceOf
  <2> QED BY <2>1, <2>2 DEF DeviceKept, DeviceOf, Freeing
<1> QED BY <1>1, <1>2, <1>3, <1>4 DEF FreeHealth, Free, DisableAfterFree

LEMMA ReturnDevice ==
  ASSUME TypeInv, DeviceInv, NEW t \in Threads, Return(t)
  PROVE  DeviceKept(t)
<1>0. /\ guard \in [Threads -> Devices \cup {NoDevice}]
      /\ current \in [Threads -> Devices] /\ strayed \subseteq Threads
      /\ pc'[t] = "idle" /\ UNCHANGED inner /\ guard'[t] = NoDevice
      /\ guard' = [guard EXCEPT ![t] = NoDevice] /\ Restore(t, guard[t])
  BY DEF Return, Goto, TypeInv, TypeOK
<1>1. Homing(t) /\ inner[t] = NoDevice
  BY DEF Return, DeviceInv, DeviceOf, Freeing
<1>2. Homing(t)' /\ OnlyGuards(t)
  <2>1. CASE guard[t] = NoDevice
    BY <1>0, <1>1, <2>1 DEF Restore, Homing, Undone, OnlyGuards
  <2>2. CASE guard[t] # NoDevice /\ current' = [current EXCEPT ![t] = guard[t]]
             /\ UNCHANGED strayed
    BY <1>0, <1>1, <2>2 DEF Homing, Undone, OnlyGuards
  <2>3. CASE strayed' = strayed \cup {t} /\ UNCHANGED current
    BY <1>0, <2>3 DEF Homing, OnlyGuards
  <2> QED BY <1>0, <2>1, <2>2, <2>3 DEF Restore
<1> QED BY <1>0, <1>1, <1>2 DEF DeviceKept, DeviceOf, Freeing

-----------------------------------------------------------------------------
LEMMA NextDevice == TypeInv /\ DeviceInv /\ [Next]_vars => DeviceInv'
<1> SUFFICES ASSUME TypeInv, DeviceInv, [Next]_vars PROVE DeviceInv'
  OBVIOUS
<1>1. CASE Next
  <2>1. PICK t \in Threads : Begin(t) \/ BeginDrop(t) \/ Step(t)
    BY <1>1 DEF Next
  <2>2. OnlyThread(t)
    BY <2>1, ThreadStepTypes DEF StepKept
  <2>3. DeviceKept(t)
    BY <2>1, BeginDevice, CacheDevice, AllocateDevice, WorkDevice, DropDevice,
       ReleaseDevice, ReturnDevice DEF Step
  <2> QED BY <2>2, <2>3, DeviceStep
<1>2. CASE UNCHANGED vars
  BY <1>2 DEF vars, threadVars, DeviceInv, DeviceOf, Homing, Undone, Touched
<1> QED BY <1>1, <1>2

LEMMA InitDevice == Init => DeviceInv
BY StorageConstants DEF Init, DeviceInv, DeviceOf, Homing, Undone, Freeing

LEMMA DeviceInvariant == Spec => []DeviceInv
BY InitDevice, NextDevice, TypeInvariant, PTL DEF Spec

(***************************************************************************)
(* No driver call is made under the wrong device: not by a release nested  *)
(* in the operation of another device, not on a block another device's     *)
(* operation left in the cache, not after a guard that could not go back.  *)
(***************************************************************************)
THEOREM CallsMadeOnOwner == Spec => []CallsOnOwner
<1>1. DeviceInv => CallsOnOwner
  BY DEF DeviceInv, DeviceOf, CallsOnOwner, Freeing
<1> QED BY <1>1, DeviceInvariant, PTL

(***************************************************************************)
(* An operation, its evictions and its failures included, hands the thread *)
(* back on the device it had, unless the runtime refused to restore it.    *)
(***************************************************************************)
THEOREM ReturnsHome == Spec => []DeviceRestored
<1>1. DeviceInv => DeviceRestored
  BY DEF DeviceInv, DeviceOf, DeviceRestored, Homing, Undone, Freeing
<1> QED BY <1>1, DeviceInvariant, PTL

-----------------------------------------------------------------------------
(***************************************************************************)
(* The bytes of the driver's pools and of the cache.                       *)
(***************************************************************************)
BytesIn(S) == MapThenSumSet(LAMBDA b : b.bytes, S)

LEMMA BytesInAdd ==
  ASSUME NEW S \in SUBSET Block, IsFiniteSet(S), NEW b \in Block, b \notin S
  PROVE  BytesIn(S \cup {b}) = b.bytes + BytesIn(S)
<1> DEFINE T == S \cup {b}
           v == [x \in S |-> x.bytes]
           w == [x \in T |-> x.bytes]
<1>1. IsFiniteSet(T)
  BY FS_AddElement
<1>2. /\ \A x \in S : x.bytes \in Nat /\ v[x] \in Nat /\ w[x] = v[x]
      /\ \A x \in T : x.bytes \in Nat /\ w[x] \in Nat
      /\ w[b] = b.bytes
  BY DEF Block
<1>3. BytesIn(S) = SumOf(v, S)
  BY <1>2, MappedSum DEF BytesIn
<1>4. BytesIn(T) = SumOf(w, T)
  BY <1>1, <1>2, MappedSum DEF BytesIn
<1> HIDE DEF v, w
<1>a. /\ \A x \in S : v[x] \in Int /\ w[x] \in Int
      /\ \A x \in S \cup {b} : w[x] \in Int
  BY <1>2
<1>5. SumOf(w, S) = SumOf(v, S)
  BY <1>2, <1>a, SumSame
<1>6. SumOf(w, S \cup {b}) = w[b] + SumOf(w, S)
  BY <1>a, SumAdd
<1> QED BY <1>2, <1>3, <1>4, <1>5, <1>6

LEMMA BytesInType ==
  ASSUME NEW S \in SUBSET Block, IsFiniteSet(S)
  PROVE  BytesIn(S) \in Nat
<1> DEFINE v == [x \in S |-> x.bytes]
<1>1. \A x \in S : x.bytes \in Nat /\ v[x] \in Nat
  BY DEF Block
<1>2. BytesIn(S) = SumOf(v, S)
  BY <1>1, MappedSum DEF BytesIn
<1> HIDE DEF v
<1> QED BY <1>1, <1>2, SumType

LEMMA BytesInEmpty == BytesIn({}) = 0
<1> DEFINE v == [x \in {} |-> x.bytes]
<1>1. IsFiniteSet({}) /\ \A x \in {} : x.bytes \in Nat
  BY FS_EmptySet
<1>2. BytesIn({}) = SumOf(v, {})
  BY <1>1, MappedSum DEF BytesIn
<1> QED BY <1>2, SumEmpty

LEMMA BytesInRemove ==
  ASSUME NEW S \in SUBSET Block, IsFiniteSet(S), NEW b \in S
  PROVE  /\ BytesIn(S) = b.bytes + BytesIn(S \ {b})
         /\ BytesIn(S \ {b}) \in Nat /\ b.bytes \in Nat
<1>1. /\ IsFiniteSet(S \ {b}) /\ (S \ {b}) \cup {b} = S
      /\ b \in Block /\ S \ {b} \in SUBSET Block
  BY FS_RemoveElement
<1>2. BytesIn((S \ {b}) \cup {b}) = b.bytes + BytesIn(S \ {b})
  BY <1>1, BytesInAdd
<1> QED BY <1>1, <1>2, BytesInType DEF Block

\* Of a cache that holds no block twice, the sum along it is the one over it.
LEMMA BytesOfRange ==
  ASSUME NEW s \in Seq(Block), IsInjective(s)
  PROVE  IsFiniteSet(Range(s)) /\ BytesOf(s) = BytesIn(Range(s))
<1> DEFINE D == 1..Len(s)
           w == [b \in Range(s) |-> b.bytes]
           v == [i \in D |-> s[i].bytes]
           u == [i \in D |-> w[s[i]]]
<1>1. /\ Len(s) \in Nat /\ DOMAIN s = D /\ IsFiniteSet(D)
      /\ Range(s) = {s[i] : i \in D}
      /\ \A i \in D : s[i] \in Block /\ s[i] \in Range(s)
  <2>1. Len(s) \in Nat /\ DOMAIN s = D /\ \A i \in D : s[i] \in Block
    OBVIOUS
  <2>2. IsFiniteSet(D)
    BY <2>1, FS_Interval
  <2> HIDE DEF D
  <2> QED BY <2>1, <2>2 DEF Range
<1>2. /\ \A i \in D : s[i].bytes \in Nat /\ w[s[i]] = s[i].bytes
      /\ \A b \in Range(s) : b.bytes \in Nat
  BY <1>1 DEF Block
<1>3. BytesOf(s) = SumOf(v, D)
  BY <1>1, <1>2, FoldedSum DEF BytesOf
<1>4. u = v
  BY <1>2
<1>5. \A i, j \in D : s[i] = s[j] => i = j
  BY <1>1 DEF IsInjective
<1>6. /\ SumOf(u, D) = SumOf(w, {s[i] : i \in D})
      /\ IsFiniteSet({s[i] : i \in D})
  <2>1. \A i \in D : w[s[i]] \in Int
    BY <1>2
  <2>2. IsFiniteSet(D)
    BY <1>1
  <2> HIDE DEF D, w
  <2> QED BY <1>5, <2>1, <2>2, SumImage
<1>7. BytesIn(Range(s)) = SumOf(w, Range(s))
  BY <1>1, <1>2, <1>6, MappedSum DEF BytesIn
<1> HIDE DEF D, w, v, u
<1> QED BY <1>1, <1>3, <1>4, <1>6, <1>7

-----------------------------------------------------------------------------
(***************************************************************************)
(* What each outcome of a pool call does to the table's figures.  A device *)
(* without an entry has no bytes; a covered pool may keep what is in use.  *)
(***************************************************************************)
Clean(d) == pools[d].state = "absent" => pools[d].active = 0

Covered(d) == pools[d].state = "ready" => pools[d].threshold >= pools[d].active + Slack

\* The call for device d changes the active bytes of no other device.
ActiveBecomes(d, active) ==
  \A e \in Devices : /\ pools'[e].active = IF e = d THEN active ELSE pools[e].active
                     /\ Clean(e) => Clean(e)'

LEMMA OtherPools ==
  ASSUME NEW d \in Devices, NEW after, pools' = [pools EXCEPT ![d] = after],
         pools \in [Devices -> Pool]
  PROVE  pools'[d] = after /\ \A e \in Devices \ {d} : pools'[e] = pools[e]
OBVIOUS

LEMMA GrantsBytes ==
  ASSUME pools \in [Devices -> Pool], NEW d \in Devices, NEW bytes \in Nat,
         Clean(d), PoolGrants(d, bytes)
  PROVE  /\ ActiveBecomes(d, pools[d].active + bytes)
         /\ \A e \in Devices : Covered(e) => Covered(e)'
<1> DEFINE active == Opened(d).active + bytes
           after == [Budgeted(Opened(d), active) EXCEPT !.active = active]
<1>1. pools[d] \in Pool /\ Opened(d) \in Pool /\ active \in Nat
      /\ Opened(d).active = pools[d].active /\ Opened(d).state # "absent"
  BY PoolConstants DEF Opened, Pool, Clean
<1>2. pools'[d] = after /\ \A e \in Devices \ {d} : pools'[e] = pools[e]
  BY OtherPools DEF PoolGrants
<1>3. after.active = active /\ after.threshold = active + Slack
      /\ after.state = Opened(d).state
  BY <1>1 DEF Budgeted, Pool
<1> HIDE DEF active, after
<1> QED BY <1>1, <1>2, <1>3, PoolConstants DEF ActiveBecomes, Clean, Covered, active

LEMMA UnsupportedBytes ==
  ASSUME pools \in [Devices -> Pool], NEW d \in Devices, PoolUnsupported(d)
  PROVE  /\ ActiveBecomes(d, pools[d].active)
         /\ \A e \in Devices : Covered(e) => Covered(e)'
<1>1. /\ pools'[d].active = pools[d].active /\ pools'[d].state = "unsupported"
      /\ \A e \in Devices \ {d} : pools'[e] = pools[e]
  BY DEF PoolUnsupported, Pool
<1> QED BY <1>1 DEF ActiveBecomes, Clean, Covered

LEMMA RefusesBytes ==
  ASSUME pools \in [Devices -> Pool], NEW d \in Devices, NEW bytes \in Nat,
         Clean(d), PoolRefuses(d, bytes)
  PROVE  /\ ActiveBecomes(d, pools[d].active)
         /\ \A e \in Devices : Covered(e) => Covered(e)'
<1>1. CASE UNCHANGED pools
  BY <1>1 DEF ActiveBecomes, Clean, Covered
<1>2. ASSUME NEW after \in {Opened(d), Budgeted(Opened(d), Opened(d).active),
                            Budgeted(Opened(d), Opened(d).active + bytes)},
             pools' = [pools EXCEPT ![d] = after]
      PROVE  /\ ActiveBecomes(d, pools[d].active)
             /\ \A e \in Devices : Covered(e) => Covered(e)'
  <2>1. /\ pools[d] \in Pool /\ Opened(d) \in Pool /\ Opened(d).active \in Nat
        /\ Opened(d).active = pools[d].active /\ Opened(d).state # "absent"
        /\ Covered(d) => Opened(d).threshold >= Opened(d).active + Slack
                          \/ Opened(d).state # "ready"
    BY PoolConstants DEF Opened, Pool, Clean, Covered
  <2>2. pools'[d] = after /\ \A e \in Devices \ {d} : pools'[e] = pools[e]
    BY <1>2, OtherPools
  <2>3. /\ after.active = Opened(d).active /\ after.state = Opened(d).state
        /\ \/ after.threshold = Opened(d).threshold
           \/ after.threshold >= Opened(d).active + Slack
    BY <2>1, PoolConstants DEF Budgeted, Pool
  <2> QED BY <2>1, <2>2, <2>3 DEF ActiveBecomes, Clean, Covered
<1> QED BY <1>1, <1>2 DEF PoolRefuses

LEMMA FreesBytes ==
  ASSUME pools \in [Devices -> Pool], NEW d \in Devices, NEW bytes \in Nat,
         PoolFrees(d, bytes)
  PROVE  /\ ActiveBecomes(d, pools[d].active - bytes)
         /\ \A e \in Devices : Covered(e) => Covered(e)'
<1> DEFINE active == pools[d].active - bytes
           after == [Budgeted(pools[d], active) EXCEPT !.active = active]
<1>1. pools[d] \in Pool /\ active \in Nat /\ pools[d].state = "ready"
  BY DEF PoolFrees, Pool
<1>2. pools'[d] = after /\ \A e \in Devices \ {d} : pools'[e] = pools[e]
  BY OtherPools DEF PoolFrees
<1>3. after.active = active /\ after.threshold = active + Slack
      /\ after.state = "ready"
  BY <1>1 DEF Budgeted, Pool
<1> HIDE DEF active, after
<1> QED BY <1>1, <1>2, <1>3, PoolConstants DEF ActiveBecomes, Clean, Covered, active

LEMMA KeepsBytes ==
  ASSUME pools \in [Devices -> Pool], NEW d \in Devices, NEW bytes \in Nat,
         PoolKeeps(d, bytes)
  PROVE  ActiveBecomes(d, pools[d].active)
<1>1. PICK after \in {pools[d], Budgeted(pools[d], pools[d].active),
                      Budgeted(pools[d], pools[d].active - bytes)} :
        pools' = [pools EXCEPT ![d] = after]
  BY DEF PoolKeeps
<1>2. pools'[d] = after /\ \A e \in Devices \ {d} : pools'[e] = pools[e]
  BY <1>1, OtherPools
<1>3. after.active = pools[d].active /\ after.state = pools[d].state
  BY DEF Budgeted, Pool
<1> QED BY <1>2, <1>3 DEF ActiveBecomes, Clean

-----------------------------------------------------------------------------
(***************************************************************************)
(* The blocks of the driver and the figures of the pools change together.  *)
(***************************************************************************)
Maps == \E b \in Block : /\ b \notin mapped /\ mapped' = mapped \cup {b}
                         /\ IF b.pooled THEN PoolGrants(b.device, b.bytes)
                            ELSE UNCHANGED pools

Unmaps == \E b \in mapped : /\ mapped' = mapped \ {b}
                            /\ IF b.pooled THEN PoolFrees(b.device, b.bytes)
                               ELSE UNCHANGED pools

\* A call of a pool that moves no block; one for a free ends in the flag's store.
Declines(t) ==
  \E d \in Devices, bytes \in Nat :
    \/ PoolUnsupported(d)
    \/ PoolRefuses(d, bytes)
    \/ PoolKeeps(d, bytes) /\ pc'[t] = "disable_after_free"

Accounted(t) ==
  \/ Maps
  \/ Unmaps
  \/ UNCHANGED mapped /\ (UNCHANGED pools \/ Declines(t))

LEMMA MapAccounted ==
  ASSUME TypeInv, NEW t \in Threads, NEW pooled \in BOOLEAN,
         pc[t] \in Allocating, Map(t, pooled),
         IF pooled THEN PoolGrants(op[t].device, op[t].bytes) ELSE UNCHANGED pools
  PROVE  Maps
<1>1. PICK p \in {q \in Pointers : \A b \in mapped : b.ptr # q} :
        LET block == [device |-> op[t].device, bytes |-> op[t].bytes,
                      ptr |-> p, pooled |-> pooled]
        IN  mapped' = mapped \cup {block}
  BY DEF Map
<1> DEFINE block == [device |-> op[t].device, bytes |-> op[t].bytes,
                     ptr |-> p, pooled |-> pooled]
<1>2. /\ block \in Block /\ block.ptr = p /\ block.pooled = pooled
      /\ block.device = op[t].device /\ block.bytes = op[t].bytes
  BY <1>1 DEF TypeInv, TypeOK, Shape, ShapeOf, Op, Block
<1>3. mapped' = mapped \cup {block}
  BY <1>1
<1> HIDE DEF block
<1>4. block \notin mapped
  BY <1>1, <1>2
<1> QED BY <1>2, <1>3, <1>4 DEF Maps

LEMMA AllocateAccounted ==
  ASSUME TypeInv, NEW t \in Threads,
         PoolHealth(t) \/ PoolAllocate(t) \/ Malloc(t)
  PROVE  Accounted(t)
<1>1. /\ pc[t] \in Allocating
      /\ op[t].device \in Devices /\ op[t].bytes \in Nat
  BY DEF PoolHealth, PoolAllocate, Malloc, TypeInv, TypeOK, Shape, ShapeOf, Op
<1>2. CASE PoolHealth(t)
  BY <1>2 DEF PoolHealth, Accounted
<1>3. CASE PoolAllocate(t)
  <2>1. CASE PoolGrants(op[t].device, op[t].bytes) /\ Map(t, TRUE)
    BY <1>1, <2>1, MapAccounted DEF Accounted
  <2>2. CASE PoolUnsupported(op[t].device) /\ UNCHANGED mapped
    BY <1>1, <2>2 DEF Accounted, Declines
  <2>3. CASE PoolRefuses(op[t].device, op[t].bytes) /\ UNCHANGED mapped
    BY <1>1, <2>3 DEF Accounted, Declines
  <2> QED BY <1>3, <2>1, <2>2, <2>3 DEF PoolAllocate
<1>4. CASE Malloc(t)
  <2>1. CASE Map(t, FALSE)
    BY <1>1, <1>4, <2>1, MapAccounted DEF Accounted, Malloc
  <2>2. CASE UNCHANGED mapped
    BY <1>4, <2>2 DEF Accounted, Malloc
  <2> QED BY <1>4, <2>1, <2>2 DEF Malloc
<1> QED BY <1>2, <1>3, <1>4

LEMMA ReleaseAccounted ==
  ASSUME TypeInv, Ownership, DeviceInv, NEW t \in Threads,
         \/ Release(t) \/ FreeHealth(t) \/ Free(t) \/ FreeAsync(t)
         \/ DisableAfterFree(t)
  PROVE  Accounted(t)
<1> DEFINE block == Head(evicted[t])
<1>1. /\ pc[t] \in Releasing /\ evicted[t] # <<>> /\ evicted[t] \in Seq(Block)
      /\ pc \in [Threads -> Labels]
  BY DEF Release, FreeHealth, Free, FreeAsync, DisableAfterFree, TypeInv, TypeOK,
         Shape, ShapeOf
<1>2. block \in Block /\ block \in mapped
  <2>1. block \in Block /\ block \in Private(t)
    BY <1>1, TailBlocks DEF Private
  <2> QED BY <2>1 DEF Ownership, NoLeak
<1>3. block.device \in Devices /\ block.bytes \in Nat
  BY <1>2 DEF Block
<1>4. CASE UNCHANGED <<pools, mapped>>
  BY <1>4 DEF Accounted
<1>5. CASE Free(t) /\ mapped' = mapped \ {block}
  <2>1. ~block.pooled
    BY <1>5 DEF Free, DeviceInv, DeviceOf
  <2>2. UNCHANGED pools
    BY <1>5 DEF Free
  <2> HIDE DEF block
  <2> QED BY <1>2, <1>5, <2>1, <2>2 DEF Accounted, Unmaps
<1>6. CASE FreeAsync(t)
  <2>1. block.pooled
    BY <1>6 DEF FreeAsync, DeviceInv, DeviceOf
  <2>2. CASE PoolFrees(block.device, block.bytes) /\ mapped' = mapped \ {block}
    <3> HIDE DEF block
    <3> QED BY <1>2, <2>1, <2>2 DEF Accounted, Unmaps
  <2>3. CASE /\ PoolKeeps(block.device, block.bytes)
             /\ Goto(t, "disable_after_free") /\ UNCHANGED mapped
    <3>1. pc'[t] = "disable_after_free"
      BY <1>1, <2>3 DEF Goto
    <3> QED BY <1>3, <2>3, <3>1 DEF Accounted, Declines
  <2> QED BY <1>6, <2>2, <2>3 DEF FreeAsync, Unmap
<1> QED BY <1>4, <1>5, <1>6 DEF Release, FreeHealth, Free, Unmap, DisableAfterFree

LEMMA StepAccounted ==
  ASSUME TypeInv, Ownership, DeviceInv, NEW t \in Threads,
         Begin(t) \/ BeginDrop(t) \/ Step(t)
  PROVE  Accounted(t)
<1>1. CASE UNCHANGED <<pools, mapped>>
  BY <1>1 DEF Accounted
<1> QED BY <1>1, AllocateAccounted, ReleaseAccounted
           DEF Step, Begin, BeginDrop, CacheHealth, CacheTake, Launch,
               Synchronize, DisableReuse, Drop, CachePush, Return

-----------------------------------------------------------------------------
PooledOn(d) == {b \in mapped : b.device = d /\ b.pooled}

Balanced == \A d \in Devices : pools[d].active = BytesIn(PooledOn(d)) /\ Clean(d)

Account == IsFiniteSet(mapped) /\ Balanced

LEMMA AccountStep ==
  ASSUME TypeInv, Account, NEW t \in Threads, Accounted(t)
  PROVE  Account'
<1>1. mapped \in SUBSET Block /\ pools \in [Devices -> Pool]
  BY DEF TypeInv, TypeOK
<1>2. ASSUME NEW d \in Devices
      PROVE  /\ PooledOn(d) \in SUBSET Block /\ PooledOn(d) \subseteq mapped
             /\ IsFiniteSet(PooledOn(d)) /\ BytesIn(PooledOn(d)) \in Nat
             /\ pools[d].active = BytesIn(PooledOn(d)) /\ Clean(d)
  <2>1. PooledOn(d) \in SUBSET mapped
    BY DEF PooledOn
  <2>2. IsFiniteSet(PooledOn(d))
    BY <2>1, FS_Subset DEF Account
  <2> QED BY <1>1, <2>1, <2>2, BytesInType DEF Account, Balanced
<1>3. CASE Maps
  <2>1. PICK b \in Block : /\ b \notin mapped /\ mapped' = mapped \cup {b}
                          /\ IF b.pooled THEN PoolGrants(b.device, b.bytes)
                             ELSE UNCHANGED pools
    BY <1>3 DEF Maps
  <2>2. b.device \in Devices /\ b.bytes \in Nat /\ IsFiniteSet(mapped')
    BY <2>1, FS_AddElement DEF Block, Account
  <2>3. ASSUME NEW d \in Devices
        PROVE  pools'[d].active = BytesIn(PooledOn(d)') /\ Clean(d)'
    <3>1. CASE ~b.pooled
      <4>1. PooledOn(d)' = PooledOn(d) /\ UNCHANGED pools
        BY <2>1, <3>1 DEF PooledOn
      <4> QED BY <1>2, <4>1 DEF Clean
    <3>2. CASE b.pooled /\ d # b.device
      <4>1. PooledOn(d)' = PooledOn(d)
        BY <2>1, <3>2 DEF PooledOn
      <4> QED BY <1>1, <1>2, <2>1, <2>2, <3>2, <4>1, GrantsBytes DEF ActiveBecomes
    <3>3. CASE b.pooled /\ d = b.device
      <4>1. PooledOn(d)' = PooledOn(d) \cup {b} /\ b \notin PooledOn(d)
        BY <2>1, <3>3 DEF PooledOn
      <4>2. BytesIn(PooledOn(d)') = b.bytes + BytesIn(PooledOn(d))
        BY <1>2, <4>1, BytesInAdd
      <4>3. pools'[d].active = pools[d].active + b.bytes /\ Clean(d)'
        BY <1>1, <1>2, <2>1, <2>2, <3>3, GrantsBytes DEF ActiveBecomes
      <4> QED BY <1>2, <2>2, <4>2, <4>3
    <3> QED BY <3>1, <3>2, <3>3
  <2> QED BY <2>2, <2>3 DEF Account, Balanced
<1>4. CASE Unmaps
  <2>1. PICK b \in mapped : /\ mapped' = mapped \ {b}
                           /\ IF b.pooled THEN PoolFrees(b.device, b.bytes)
                              ELSE UNCHANGED pools
    BY <1>4 DEF Unmaps
  <2>2. b.device \in Devices /\ b.bytes \in Nat /\ IsFiniteSet(mapped')
    BY <1>1, <2>1, FS_RemoveElement DEF Block, Account
  <2>3. ASSUME NEW d \in Devices
        PROVE  pools'[d].active = BytesIn(PooledOn(d)') /\ Clean(d)'
    <3>1. CASE ~b.pooled
      <4>1. PooledOn(d)' = PooledOn(d) /\ UNCHANGED pools
        BY <2>1, <3>1 DEF PooledOn
      <4> QED BY <1>2, <4>1 DEF Clean
    <3>2. CASE b.pooled /\ d # b.device
      <4>1. PooledOn(d)' = PooledOn(d)
        BY <2>1, <3>2 DEF PooledOn
      <4> QED BY <1>1, <1>2, <2>1, <2>2, <3>2, <4>1, FreesBytes DEF ActiveBecomes
    <3>3. CASE b.pooled /\ d = b.device
      <4>1. PooledOn(d)' = PooledOn(d) \ {b} /\ b \in PooledOn(d)
        BY <2>1, <3>3 DEF PooledOn
      <4>2. BytesIn(PooledOn(d)) = b.bytes + BytesIn(PooledOn(d)')
            /\ BytesIn(PooledOn(d)') \in Nat
        BY <1>2, <4>1, BytesInRemove
      <4>3. pools'[d].active = pools[d].active - b.bytes /\ Clean(d)'
        BY <1>1, <1>2, <2>1, <2>2, <3>3, FreesBytes DEF ActiveBecomes
      <4> QED BY <1>2, <2>2, <4>2, <4>3
    <3> QED BY <3>1, <3>2, <3>3
  <2> QED BY <2>2, <2>3 DEF Account, Balanced
<1>5. CASE UNCHANGED mapped /\ (UNCHANGED pools \/ Declines(t))
  <2>1. \A d \in Devices : PooledOn(d)' = PooledOn(d)
    BY <1>5 DEF PooledOn
  <2>2. CASE UNCHANGED pools
    BY <1>5, <2>1, <2>2 DEF Account, Balanced, Clean
  <2>3. ASSUME NEW d \in Devices, NEW bytes \in Nat,
               PoolUnsupported(d) \/ PoolRefuses(d, bytes) \/ PoolKeeps(d, bytes)
        PROVE  ActiveBecomes(d, pools[d].active)
    BY <1>1, <1>2, <2>3, UnsupportedBytes, RefusesBytes, KeepsBytes
  <2>4. CASE Declines(t)
    <3>1. PICK d \in Devices : ActiveBecomes(d, pools[d].active)
      BY <2>3, <2>4 DEF Declines
    <3>2. \A e \in Devices : pools'[e].active = pools[e].active /\ Clean(e)'
      BY <1>2, <3>1 DEF ActiveBecomes
    <3> QED BY <1>5, <2>1, <3>2 DEF Account, Balanced
  <2> QED BY <1>5, <2>2, <2>4
<1> QED BY <1>3, <1>4, <1>5 DEF Accounted

-----------------------------------------------------------------------------
(***************************************************************************)
(* The cache within its bounds: a block enters only where there is room,   *)
(* and one that leaves makes some.                                         *)
(***************************************************************************)
LEMMA AppendBytes ==
  ASSUME NEW s \in Seq(Block), NEW b \in Block
  PROVE  BytesOf(Append(s, b)) = BytesOf(s) + b.bytes
<1> DEFINE c == Append(s, b)
           n == Len(s) + 1
           v == [i \in DOMAIN s |-> s[i].bytes]
           w == [i \in DOMAIN c |-> c[i].bytes]
<1>1. /\ c \in Seq(Block) /\ Len(c) = n /\ c[n] = b /\ Len(s) \in Nat
      /\ \A i \in 1..Len(s) : c[i] = s[i]
  OBVIOUS
<1>2. /\ DOMAIN s = 1..Len(s) /\ DOMAIN c = DOMAIN s \cup {n} /\ n \notin DOMAIN s
  BY <1>1
<1> HIDE DEF c, n
<1>3. IsFiniteSet(DOMAIN s) /\ IsFiniteSet(DOMAIN c)
  <2>1. IsFiniteSet(1..Len(s))
    BY <1>1, FS_Interval
  <2>2. IsFiniteSet(DOMAIN s)
    BY <1>2, <2>1
  <2>3. IsFiniteSet(DOMAIN s \cup {n})
    BY <2>2, FS_AddElement
  <2> QED BY <1>2, <2>2, <2>3
<1>4. /\ \A i \in DOMAIN s : s[i].bytes \in Nat /\ v[i] \in Nat /\ w[i] = v[i]
      /\ \A i \in DOMAIN c : c[i].bytes \in Nat /\ w[i] \in Nat
      /\ w[n] = b.bytes
  <2>1. /\ \A i \in DOMAIN s : s[i] \in Block /\ c[i] = s[i] /\ i \in DOMAIN c
        /\ \A i \in DOMAIN c : c[i] \in Block
        /\ n \in DOMAIN c
    BY <1>1, <1>2
  <2>2. \A x \in Block : x.bytes \in Nat
    BY DEF Block
  <2> QED BY <1>1, <2>1, <2>2
<1>5. BytesOf(s) = SumOf(v, DOMAIN s) /\ SumOf(v, DOMAIN s) \in Nat
  <2>1. BytesOf(s) = SumOf(v, DOMAIN s)
    BY <1>3, <1>4, FoldedSum DEF BytesOf
  <2> HIDE DEF v
  <2> QED BY <1>3, <1>4, <2>1, SumType
<1>6. BytesOf(c) = SumOf(w, DOMAIN c)
  BY <1>3, <1>4, FoldedSum DEF BytesOf
<1> HIDE DEF v, w
<1>a. /\ \A i \in DOMAIN s : v[i] \in Int /\ w[i] \in Int
      /\ \A i \in DOMAIN s \cup {n} : w[i] \in Int
  BY <1>2, <1>4
<1>7. SumOf(w, DOMAIN s) = SumOf(v, DOMAIN s)
  BY <1>3, <1>4, <1>a, SumSame
<1>8. SumOf(w, DOMAIN s \cup {n}) = w[n] + SumOf(w, DOMAIN s)
  BY <1>2, <1>3, <1>a, SumAdd
<1>9. b.bytes \in Nat
  BY DEF Block
<1> QED BY <1>2, <1>4, <1>5, <1>6, <1>7, <1>8, <1>9 DEF c

LEMMA RemoveBytes ==
  ASSUME NEW s \in Seq(Block), IsInjective(s), NEW i \in DOMAIN s
  PROVE  /\ BytesOf(RemoveAt(s, i)) <= BytesOf(s)
         /\ Len(RemoveAt(s, i)) <= Len(s)
<1> DEFINE r == RemoveAt(s, i)
<1>1. /\ r \in Seq(Block) /\ s[i] \in Block /\ Range(s) = {s[i]} \cup Range(r)
      /\ IsInjective(r) /\ s[i] \notin Range(r)
  BY RemoveBlocks
<1>2. Len(r) <= Len(s)
  BY DEF RemoveAt
<1> HIDE DEF r
<1>3. /\ BytesOf(s) = BytesIn(Range(s)) /\ BytesOf(r) = BytesIn(Range(r))
      /\ IsFiniteSet(Range(s))
  BY <1>1, BytesOfRange
<1>4. /\ Range(s) \in SUBSET Block /\ s[i] \in Range(s)
      /\ Range(s) \ {s[i]} = Range(r)
  <2>1. Range(s) \in SUBSET Block
    BY DEF Range
  <2> QED BY <1>1, <2>1
<1>5. /\ BytesIn(Range(s)) = s[i].bytes + BytesIn(Range(r))
      /\ BytesIn(Range(r)) \in Nat /\ s[i].bytes \in Nat
  BY <1>3, <1>4, BytesInRemove
<1>6. BytesOf(r) <= BytesOf(s)
  BY <1>3, <1>5
<1> QED BY <1>2, <1>6 DEF r

LEMMA CacheStep ==
  ASSUME TypeInv, Ownership, CacheBounded, NEW t \in Threads,
         Begin(t) \/ BeginDrop(t) \/ Step(t)
  PROVE  CacheBounded'
<1>0. /\ cache \in Seq(Block) /\ IsInjective(cache) /\ held \in [Threads -> Seq(Block)]
  BY DEF TypeInv, TypeOK, Ownership, SingleOwner
<1>1. CASE UNCHANGED cache
  BY <1>1 DEF CacheBounded
<1>2. ASSUME NEW i \in DOMAIN cache, cache' = RemoveAt(cache, i)
      PROVE  CacheBounded'
  <2>1. BytesOf(cache') <= BytesOf(cache) /\ Len(cache') <= Len(cache)
    BY <1>0, <1>2, RemoveBytes
  <2>2. /\ BytesOf(cache) \in Nat /\ BytesOf(cache') \in Nat
        /\ Len(cache) \in Nat /\ Len(cache') \in Nat
    <3>1. cache' \in Seq(Block) /\ IsInjective(cache')
      BY <1>0, <1>2, RemoveBlocks
    <3>2. \A s \in Seq(Block) : IsInjective(s) => BytesOf(s) \in Nat /\ Len(s) \in Nat
      <4> SUFFICES ASSUME NEW s \in Seq(Block), IsInjective(s)
                   PROVE  BytesOf(s) \in Nat
        OBVIOUS
      <4>1. Range(s) \in SUBSET Block
        BY DEF Range
      <4> QED BY <4>1, BytesOfRange, BytesInType
    <3> QED BY <1>0, <3>1, <3>2
  <2> QED BY <2>1, <2>2, StorageConstants DEF CacheBounded
<1>3. ASSUME NEW k \in 0..Len(cache), HasRoom(k, Head(held[t]).bytes),
             cache' = Append(Kept(k), Head(held[t])), CachePush(t)
      PROVE  CacheBounded'
  <2>1. Head(held[t]) \in Block /\ Head(held[t]).bytes \in Nat
    <3>1. held[t] # <<>> /\ held[t] \in Seq(Block)
      BY <1>0, <1>3 DEF CachePush, TypeInv, Shape, ShapeOf
    <3>2. Head(held[t]) \in Block
      BY <3>1, TailBlocks
    <3> QED BY <3>2 DEF Block
  <2>2. Kept(k) \in Seq(Block)
    BY <1>0, SplitBlocks DEF Kept
  <2>3. BytesOf(cache') = BytesOf(Kept(k)) + Head(held[t]).bytes
    BY <1>3, <2>1, <2>2, AppendBytes
  <2>4. Len(cache') = Len(Kept(k)) + 1
    BY <1>3, <2>2
  <2>5. Len(Kept(k)) < MaxEntries /\ BytesOf(Kept(k)) <= CacheBytes - Head(held[t]).bytes
    BY <1>3 DEF HasRoom
  <2>6. BytesOf(Kept(k)) \in Nat /\ Len(Kept(k)) \in Nat
    <3>1. IsInjective(Kept(k)) /\ Range(Kept(k)) \in SUBSET Block
      BY <1>0, <2>2, SplitBlocks DEF Kept, Range
    <3> QED BY <2>2, <3>1, BytesOfRange, BytesInType
  <2> QED BY <2>1, <2>3, <2>4, <2>5, <2>6, StorageConstants DEF CacheBounded
<1>4. CASE CachePush(t)
  BY <1>3, <1>4 DEF CachePush
<1>5. CASE CacheTake(t)
  BY <1>1, <1>2, <1>5 DEF CacheTake
<1> QED BY <1>1, <1>4, <1>5
        DEF Step, Begin, BeginDrop, CacheHealth, PoolHealth, PoolAllocate, Malloc,
            Launch, Synchronize, DisableReuse, Drop, Release, FreeHealth, Free,
            FreeAsync, DisableAfterFree, Return

-----------------------------------------------------------------------------
LEMMA ThresholdStep ==
  ASSUME TypeInv, Account, ThresholdCoversLive, NEW t \in Threads,
         Begin(t) \/ BeginDrop(t) \/ Step(t), OnlyThread(t), Accounted(t)
  PROVE  ThresholdCoversLive'
<1>0. pools \in [Devices -> Pool] /\ mapped \subseteq Block /\ \A d \in Devices : Clean(d)
      /\ healthy \in BOOLEAN
  BY DEF TypeInv, TypeOK, Account, Balanced
<1>1. ~healthy => ~healthy'
  BY <1>0 DEF Step, Begin, BeginDrop, CacheHealth, CacheTake, PoolHealth, PoolAllocate,
     Malloc, Launch, Synchronize, DisableReuse, Drop, CachePush, Release,
     FreeHealth, Free, FreeAsync, DisableAfterFree, Return
<1>2. pc[t] = "disable_after_free" => ~healthy'
  BY DEF Step, Begin, BeginDrop, CacheHealth, CacheTake, PoolHealth, PoolAllocate,
     Malloc, Launch, Synchronize, DisableReuse, Drop, CachePush, Release,
     FreeHealth, Free, FreeAsync, DisableAfterFree, Return
<1>3. \/ pc'[t] = "disable_after_free"
      \/ \A d \in Devices : Covered(d) => Covered(d)'
  <2>1. CASE UNCHANGED pools
    BY <2>1 DEF Covered
  <2>2. CASE Maps
    BY <1>0, <2>1, <2>2, GrantsBytes DEF Maps, Block
  <2>3. CASE Unmaps
    <3>1. PICK b \in mapped : IF b.pooled THEN PoolFrees(b.device, b.bytes)
                              ELSE UNCHANGED pools
      BY <2>3 DEF Unmaps
    <3>2. b.device \in Devices /\ b.bytes \in Nat
      BY <1>0, <3>1 DEF Block
    <3> QED BY <1>0, <2>1, <3>1, <3>2, FreesBytes
  <2>4. CASE Declines(t)
    BY <1>0, <2>4, UnsupportedBytes, RefusesBytes DEF Declines
  <2> QED BY <2>1, <2>2, <2>3, <2>4 DEF Accounted
<1>4. CASE ~healthy
  BY <1>1, <1>4 DEF ThresholdCoversLive
<1>5. ASSUME NEW u \in Threads, pc[u] = "disable_after_free"
      PROVE  ThresholdCoversLive'
  BY <1>2, <1>5 DEF OnlyThread, ThresholdCoversLive
<1>6. CASE \A d \in Devices : Covered(d)
  BY <1>3, <1>6 DEF Covered, ThresholdCoversLive
<1> QED BY <1>4, <1>5, <1>6 DEF ThresholdCoversLive, Covered

-----------------------------------------------------------------------------
ReuseInv == Account /\ CacheBounded /\ ThresholdCoversLive

LEMMA InitReuse == Init => ReuseInv
<1> SUFFICES ASSUME Init PROVE ReuseInv
  OBVIOUS
<1>1. Account
  <2>1. \A d \in Devices : PooledOn(d) = {} /\ pools[d].active = 0
    BY DEF Init, PoolInit, NoPool, PooledOn
  <2>2. \A d \in Devices : BytesIn(PooledOn(d)) = 0
    BY <2>1, BytesInEmpty
  <2>3. Balanced
    BY <2>1, <2>2 DEF Balanced, Clean
  <2>4. IsFiniteSet(mapped)
    BY FS_EmptySet DEF Init
  <2> QED BY <2>3, <2>4 DEF Account
<1>2. CacheBounded
  <2>1. BytesOf(<<>>) = 0
    <3>1. <<>> \in Seq(Block) /\ IsInjective(<<>>) /\ Range(<<>>) = {}
      BY EmptyBlocks
    <3> QED BY <3>1, BytesOfRange, BytesInEmpty
  <2> QED BY <2>1, StorageConstants DEF Init, CacheBounded
<1>3. ThresholdCoversLive
  BY DEF Init, PoolInit, NoPool, ThresholdCoversLive
<1> QED BY <1>1, <1>2, <1>3 DEF ReuseInv

LEMMA NextReuse ==
  TypeInv /\ Ownership /\ DeviceInv /\ ReuseInv /\ [Next]_vars => ReuseInv'
<1> SUFFICES ASSUME TypeInv, Ownership, DeviceInv, ReuseInv, [Next]_vars
             PROVE  ReuseInv'
  OBVIOUS
<1>1. CASE Next
  <2>1. PICK t \in Threads : Begin(t) \/ BeginDrop(t) \/ Step(t)
    BY <1>1 DEF Next
  <2>2. OnlyThread(t) /\ Accounted(t)
    BY <2>1, ThreadStepTypes, StepAccounted DEF StepKept
  <2> QED BY <2>1, <2>2, AccountStep, CacheStep, ThresholdStep DEF ReuseInv
<1>2. CASE UNCHANGED vars
  <2>1. UNCHANGED <<pools, healthy, cache, mapped, pc>>
    BY <1>2 DEF vars, threadVars
  <2>2. Account'
    BY <2>1 DEF ReuseInv, Account, Balanced, Clean, PooledOn
  <2>3. CacheBounded'
    BY <2>1 DEF ReuseInv, CacheBounded
  <2>4. ThresholdCoversLive'
    BY <2>1 DEF ReuseInv, ThresholdCoversLive
  <2> QED BY <2>2, <2>3, <2>4 DEF ReuseInv
<1> QED BY <1>1, <1>2

LEMMA ReuseInvariant == Spec => []ReuseInv
BY InitReuse, NextReuse, TypeInvariant, OwnershipInvariant, DeviceInvariant, PTL
   DEF Spec

(***************************************************************************)
(* The cache keeps to its documented bounds, a pool's active bytes are     *)
(* those of its blocks through every reuse, eviction, quarantine and       *)
(* failure, and while reuse is on the driver may keep what is in use.      *)
(***************************************************************************)
THEOREM ReuseIsAccounted == Spec => []ReuseAccounted
<1>1. ReuseInv => ReuseAccounted
  BY DEF ReuseInv, ReuseAccounted, Account, Balanced, PoolBudget, BytesIn, PooledOn
<1> QED BY <1>1, ReuseInvariant, PTL

-----------------------------------------------------------------------------
\* u knows of a failure and has yet to clear CACHE_HEALTHY.
Pending(u) ==
  \/ pc[u] = "disable_reuse"
  \/ pc[u] = "synchronize" /\ op[u].kind # "upload" /\ op[u].failed

InputsLive == \A t \in Threads : op[t].inputs \subseteq live

(***************************************************************************)
(* The flag is down, or the blocks in doubt are still in the hands of the  *)
(* operation that failed: it drops nothing before it clears the flag, and  *)
(* the borrows of its inputs keep anyone else from dropping those.         *)
(***************************************************************************)
FailuresKnown ==
  \A b \in disclosed :
    ~healthy \/ \E u \in Threads : b \in Touched(u) /\ Pending(u)

\* A block on its way into the cache, past the load of the flag, is not in doubt.
PushClean ==
  \A t \in Threads : pc[t] = "cache_push" => Head(held[t]) \notin disclosed

DoubtInv == InputsLive /\ FailuresKnown /\ DisclosedNotReused /\ PushClean

-----------------------------------------------------------------------------
(***************************************************************************)
(* The borrows of an operation stay among the published blocks.            *)
(***************************************************************************)
LEMMA StepInputs ==
  ASSUME TypeInv, NEW t \in Threads, Step(t)
  PROVE  live \subseteq live' /\ op'[t].inputs \in {op[t].inputs, {}}
<1>1. op \in [Threads -> Op]
  BY DEF TypeInv, TypeOK
<1>2. ASSUME NEW block, Obtain(t, block)
      PROVE  op'[t].inputs = op[t].inputs
  BY <1>1, <1>2 DEF Obtain, Op
<1>3. CASE CacheTake(t) \/ PoolAllocate(t) \/ Malloc(t)
  <2>1. live' = live
    BY <1>3 DEF CacheTake, PoolAllocate, Malloc
  <2>2. CASE UNCHANGED op
    BY <2>1, <2>2
  <2>3. CASE \E block : Obtain(t, block)
    BY <1>2, <2>1, <2>3
  <2>4. CASE op' = [op EXCEPT ![t].failed = TRUE]
    BY <1>1, <2>1, <2>4 DEF Op
  <2> QED BY <1>3, <2>2, <2>3, <2>4 DEF CacheTake, PoolAllocate, Malloc, Map,
                                         AllocateFailed
<1>4. CASE PoolHealth(t)
  BY <1>4 DEF PoolHealth, Publish
<1>5. CASE Launch(t)
  <2>1. live \subseteq live'
    BY <1>5 DEF Launch, Publish
  <2>2. \/ UNCHANGED op
        \/ \E accepted \in BOOLEAN : op' = [op EXCEPT ![t].failed = ~accepted]
    BY <1>5 DEF Launch
  <2> QED BY <1>1, <2>1, <2>2 DEF Op
<1>6. CASE Synchronize(t)
  BY <1>6 DEF Synchronize, Publish
<1>7. CASE Return(t)
  BY <1>1, <1>7 DEF Return, NoOp
<1>8. CASE CacheHealth(t) \/ DisableReuse(t) \/ Drop(t) \/ CachePush(t)
           \/ Release(t) \/ FreeHealth(t) \/ Free(t) \/ FreeAsync(t) \/ DisableAfterFree(t)
  BY <1>8 DEF CacheHealth, DisableReuse, Drop, CachePush, Release, FreeHealth, Free,
              FreeAsync, DisableAfterFree
<1> QED BY <1>3, <1>4, <1>5, <1>6, <1>7, <1>8 DEF Step

LEMMA InputsStep ==
  ASSUME TypeInv, InputsLive, NEW t \in Threads, OnlyThread(t),
         Begin(t) \/ BeginDrop(t) \/ Step(t)
  PROVE  InputsLive'
<1>1. CASE Begin(t)
  <2>1. op'[t].inputs \subseteq live /\ UNCHANGED live
    <3>1. PICK kind \in OneBlock \cup WithScratch, d \in Devices, bytes \in Sizes :
            \E inputs \in SUBSET {b \in live : b.device = d} :
              /\ Cardinality(inputs) <= IF kind = "pointwise" THEN 3 ELSE 2
              /\ kind \in {"zeros", "upload", "plan"} => inputs = {}
              /\ kind = "sum_rows" => Cardinality(inputs) = 1
              /\ kind = "pointwise" => inputs # {}
              /\ kind \in WithScratch \cup HoldsGuard => bytes # 0
              /\ op' = [op EXCEPT ![t] =
                          [kind |-> kind, device |-> d, bytes |-> bytes,
                           inputs |-> inputs, failed |-> FALSE]]
              /\ current' = [current EXCEPT ![t] = d]
              /\ guard' = [guard EXCEPT ![t] = Previous(t, d)]
      BY <1>1 DEF Begin
    <3>2. PICK inputs \in SUBSET {b \in live : b.device = d} :
              op' = [op EXCEPT ![t] =
                       [kind |-> kind, device |-> d, bytes |-> bytes,
                        inputs |-> inputs, failed |-> FALSE]]
      BY <3>1
    <3> QED BY <1>1, <3>2 DEF Begin, TypeInv, TypeOK
  <2> QED BY <2>1 DEF InputsLive, OnlyThread
<1>2. CASE BeginDrop(t)
  <2>1. PICK b \in live \ Borrowed : live' = live \ {b}
    BY <1>2 DEF BeginDrop
  <2>2. op'[t].inputs = {}
    BY <1>2 DEF BeginDrop, NoOp, TypeInv, TypeOK
  <2>3. \A u \in Threads : b \notin op[u].inputs
    BY <2>1 DEF Borrowed
  <2> QED BY <2>1, <2>2, <2>3 DEF InputsLive, OnlyThread
<1>3. CASE Step(t)
  BY <1>3, StepInputs DEF InputsLive, OnlyThread
<1> QED BY <1>1, <1>2, <1>3

-----------------------------------------------------------------------------
(***************************************************************************)
(* What each step of t does about failures: a new doubt is its own and is  *)
(* pending, a pending one lasts until the flag is down, only a block t has *)
(* taken the lock for goes into the cache, and only one it owns, under a   *)
(* flag it sees up, back to a pool.                                        *)
(***************************************************************************)
Pends(t) == Pending(t)' /\ Touched(t)' = Touched(t)

Confident(t) == healthy /\ disclosed' = disclosed /\ ~Pending(t)

Cautious(t) ==
  /\ healthy' => healthy
  /\ disclosed' \subseteq disclosed \/ (disclosed' \subseteq disclosed \cup Touched(t) /\ Pends(t))
  /\ Pending(t) => ~healthy' \/ Pends(t)
  /\ \/ Range(cache') \subseteq Range(cache)
     \/ /\ pc[t] = "cache_push" /\ disclosed' = disclosed
        /\ Range(cache') \subseteq Range(cache) \cup {Head(held[t])}
  /\ pc'[t] = "free_async" => Confident(t) /\ Head(evicted'[t]) \in Private(t)

LEMMA QuietSteps ==
  ASSUME TypeInv, NEW t \in Threads, ShapeOf(t)', evicted'[t] = <<>>,
         UNCHANGED <<healthy, cache, disclosed>>, ~Pending(t)
  PROVE  Cautious(t)
BY DEF Cautious, ShapeOf

LEMMA AllocateCautious ==
  ASSUME TypeInv, NEW t \in Threads, ShapeOf(t)',
         \/ Begin(t) \/ BeginDrop(t) \/ CacheHealth(t) \/ CacheTake(t)
         \/ PoolHealth(t) \/ PoolAllocate(t) \/ Malloc(t)
  PROVE  Cautious(t)
<1>1. /\ pc[t] \in Allocating \cup {"idle"} /\ evicted[t] = <<>> /\ ~Pending(t)
      /\ UNCHANGED <<healthy, disclosed>>
  BY DEF Begin, BeginDrop, CacheHealth, CacheTake, PoolHealth, PoolAllocate,
         Malloc, Pending, TypeInv, Shape, ShapeOf
<1>2. evicted'[t] = <<>>
  <2>1. CASE UNCHANGED evicted
    BY <1>1, <2>1
  <2>2. CASE Publish(t) /\ PoolHealth(t) /\ op[t].bytes = 0
    <3>1. op[t].kind \in WithScratch => held[t] # <<>>
      BY <2>2 DEF PoolHealth, TypeInv, Shape, ShapeOf
    <3> QED BY <2>2, <3>1, PublishTypes
  <2>3. CASE Fail(t)
    BY <2>3, FailTypes
  <2> QED BY <2>1, <2>2, <2>3 DEF Begin, BeginDrop, CacheHealth, CacheTake,
               PoolHealth, PoolAllocate, Malloc, AllocateFailed
<1>3. Range(cache') \subseteq Range(cache)
  <2>1. CASE UNCHANGED cache
    BY <2>1
  <2>2. CASE \E i \in DOMAIN cache : cache' = RemoveAt(cache, i)
    BY <2>2, RemoveBlocks DEF TypeInv, TypeOK
  <2> QED BY <2>1, <2>2 DEF Begin, BeginDrop, CacheHealth, CacheTake,
               PoolHealth, PoolAllocate, Malloc
<1> QED BY <1>1, <1>2, <1>3 DEF Cautious, ShapeOf

LEMMA WorkCautious ==
  ASSUME TypeInv, NEW t \in Threads, ShapeOf(t)',
         Launch(t) \/ Synchronize(t) \/ DisableReuse(t)
  PROVE  Cautious(t)
<1>1. /\ pc[t] \in Working \cup {"disable_reuse"} /\ evicted[t] = <<>>
      /\ op[t] \in Op /\ op \in [Threads -> Op]
      /\ pc \in [Threads -> Labels] /\ UNCHANGED cache
      /\ pc[t] \in Working => (op[t].kind \in WithScratch => held[t] # <<>>)
  BY DEF Launch, Synchronize, DisableReuse, TypeInv, TypeOK, Shape, ShapeOf
<1>2. ASSUME (Publish(t) /\ pc[t] \in Working) \/ Fail(t)
      PROVE  pc'[t] \notin {"disable_reuse", "synchronize"}
  BY <1>1, <1>2 DEF Publish, Fail, Unwind, Goto
<1>3. ASSUME (Publish(t) /\ pc[t] \in Working) \/ Fail(t)
      PROVE  evicted'[t] = <<>>
  BY <1>1, <1>3, PublishTypes, FailTypes
<1>4. CASE Launch(t)
  <2>1. pc[t] = "launch" /\ ~Pending(t) /\ UNCHANGED healthy
    BY <1>4 DEF Launch, Pending
  <2>2. CASE UNCHANGED disclosed
    <3>1. evicted'[t] = <<>>
      BY <1>1, <1>3, <1>4, <2>1 DEF Launch
    <3> QED BY <1>1, <2>1, <2>2, <3>1, QuietSteps
  <2>3. CASE disclosed' # disclosed
    <3>1. /\ op[t].kind \notin {"zeros", "upload"}
          /\ op' = [op EXCEPT ![t].failed = TRUE]
          /\ disclosed' = disclosed \cup Touched(t)
          /\ pc' = [pc EXCEPT ![t] = "synchronize"]
          /\ UNCHANGED <<held, evicted>>
      BY <1>4, <2>3 DEF Launch, Goto
    <3>2. op'[t].failed /\ op'[t].kind # "upload"
          /\ op'[t].inputs = op[t].inputs /\ pc'[t] = "synchronize"
      BY <1>1, <3>1 DEF Op
    <3>3. Pends(t)
      BY <3>1, <3>2 DEF Pends, Pending, Touched
    <3> QED BY <1>1, <2>1, <3>1, <3>2, <3>3 DEF Cautious
  <2> QED BY <2>2, <2>3
<1>5. CASE Synchronize(t)
  <2>1. pc[t] = "synchronize" /\ UNCHANGED <<healthy, op>>
    BY <1>5 DEF Synchronize
  <2>2. CASE Publish(t) \/ Fail(t)
    <3>1. ~Pending(t) /\ UNCHANGED disclosed
      <4>1. pc'[t] # "disable_reuse"
        BY <1>1, <1>2, <2>1, <2>2
      <4> QED BY <1>1, <1>5, <2>1, <4>1 DEF Synchronize, Pending, Goto
    <3>2. evicted'[t] = <<>>
      BY <1>1, <1>3, <2>1, <2>2
    <3> QED BY <1>1, <2>1, <3>1, <3>2, QuietSteps
  <2>3. CASE /\ Goto(t, "disable_reuse")
             /\ UNCHANGED <<live, held, evicted, current, guard, strayed>>
    <3>1. Pends(t)
      BY <1>1, <2>1, <2>3 DEF Pends, Pending, Touched, Goto
    <3>2. disclosed' \subseteq disclosed \cup Touched(t)
      BY <1>5 DEF Synchronize
    <3> QED BY <1>1, <2>1, <2>3, <3>1, <3>2 DEF Cautious, Goto
  <2> QED BY <1>5, <2>2, <2>3 DEF Synchronize
<1>6. CASE DisableReuse(t)
  <2>1. evicted'[t] = <<>> /\ healthy' = FALSE /\ UNCHANGED disclosed
    BY <1>3, <1>6 DEF DisableReuse
  <2> QED BY <1>1, <2>1 DEF Cautious, ShapeOf
<1> QED BY <1>4, <1>5, <1>6

LEMMA DropCautious ==
  ASSUME TypeInv, NEW t \in Threads, Drop(t) \/ CachePush(t)
  PROVE  Cautious(t)
<1> DEFINE block == Head(held[t])
<1>1. /\ ~Pending(t) /\ held[t] # <<>> /\ held[t] \in Seq(Block)
      /\ cache \in Seq(Block) /\ pc \in [Threads -> Labels]
      /\ UNCHANGED <<healthy, disclosed>>
  BY DEF Drop, CachePush, Pending, TypeInv, TypeOK, Shape, ShapeOf
<1>2. block \in Block
  BY <1>1, TailBlocks
<1>3. pc'[t] # "free_async"
  BY <1>1 DEF Drop, CachePush, Unwind, Goto
<1>4. CASE CachePush(t)
  <2>1. pc[t] = "cache_push"
        /\ \E k \in 0..Len(cache) : cache' = Append(Kept(k), block)
    BY <1>4 DEF CachePush
  <2>2. PICK k \in 0..Len(cache) : cache' = Append(Kept(k), block)
    BY <2>1
  <2>3. Kept(k) \in Seq(Block) /\ Range(Kept(k)) \subseteq Range(cache)
    BY <1>1, SplitBlocks DEF Kept
  <2>4. Range(cache') = Range(Kept(k)) \cup {block}
    BY <1>2, <2>2, <2>3, AppendBlocks
  <2> QED BY <1>1, <1>3, <2>1, <2>3, <2>4 DEF Cautious
<1>5. CASE Drop(t)
  BY <1>1, <1>3, <1>5 DEF Drop, Cautious
<1> QED BY <1>4, <1>5

LEMMA ReleaseCautious ==
  ASSUME TypeInv, NEW t \in Threads,
         \/ Release(t) \/ FreeHealth(t) \/ Free(t) \/ FreeAsync(t)
         \/ DisableAfterFree(t)
  PROVE  Cautious(t)
<1>1. /\ pc[t] \in Releasing /\ ~Pending(t) /\ UNCHANGED cache
      /\ evicted[t] # <<>> /\ evicted[t] \in Seq(Block)
      /\ pc \in [Threads -> Labels] /\ healthy \in BOOLEAN
  BY DEF Release, FreeHealth, Free, FreeAsync, DisableAfterFree, Pending,
         TypeInv, TypeOK, Shape, ShapeOf
<1>2. (healthy' => healthy) /\ disclosed' \subseteq disclosed
  BY <1>1 DEF Release, FreeHealth, Free, FreeAsync, DisableAfterFree, Unmap
<1>3. ASSUME pc'[t] = "free_async"
      PROVE  Confident(t) /\ Head(evicted'[t]) \in Private(t)
  <2>1. Head(evicted[t]) \in Private(t)
    BY <1>1, TailBlocks DEF Private
  <2>2. ASSUME Unwind(t, held[t], Tail(evicted[t]))
        PROVE  FALSE
    BY <1>1, <1>3, <2>2 DEF Unwind, Goto
  <2>3. FreeHealth(t) /\ healthy
    BY <1>1, <1>3, <2>2 DEF Release, FreeHealth, Free, FreeAsync,
         DisableAfterFree, Released, Goto
  <2>4. UNCHANGED <<evicted, disclosed>>
    BY <2>3 DEF FreeHealth
  <2> QED BY <1>1, <2>1, <2>3, <2>4 DEF Confident
<1> QED BY <1>1, <1>2, <1>3 DEF Cautious

LEMMA ReturnCautious ==
  ASSUME TypeInv, NEW t \in Threads, ShapeOf(t)', Return(t)
  PROVE  Cautious(t)
<1>1. /\ evicted'[t] = <<>> /\ ~Pending(t)
      /\ UNCHANGED <<healthy, cache, disclosed>>
  BY DEF Return, Pending, TypeInv, Shape, ShapeOf
<1> QED BY <1>1, QuietSteps

LEMMA StepCautious ==
  ASSUME TypeInv, NEW t \in Threads, Begin(t) \/ BeginDrop(t) \/ Step(t)
  PROVE  Cautious(t)
<1>1. ShapeOf(t)'
  BY ThreadStepTypes DEF StepKept
<1> QED BY <1>1, AllocateCautious, WorkCautious, DropCautious, ReleaseCautious,
           ReturnCautious DEF Step

(***************************************************************************)
(* The one way past the load of the flag: t has the lock to itself, saw    *)
(* the flag up, and has no failure on its hands.                           *)
(***************************************************************************)
Enters(t) ==
  /\ pc[t] = "drop" /\ CacheLock(t) /\ Confident(t)
  /\ held[t] # <<>> /\ held'[t] = held[t]

LEMMA UnwindEnters ==
  ASSUME TypeInv, NEW t \in Threads,
         \/ Fail(t) \/ Publish(t) \/ Released(t)
         \/ \E own, out : Unwind(t, own, out)
         \/ \E label \in Labels \ {"cache_push"} : Goto(t, label)
  PROVE  pc'[t] # "cache_push"
<1>1. pc \in [Threads -> Labels]
  BY DEF TypeInv, TypeOK
<1>2. ASSUME NEW own, NEW out, Unwind(t, own, out) PROVE pc'[t] # "cache_push"
  BY <1>1, <1>2 DEF Unwind, Goto
<1> QED BY <1>1, <1>2 DEF Fail, Publish, Released, Goto

LEMMA ObtainEnters ==
  ASSUME TypeInv, NEW t \in Threads, NEW block, Obtain(t, block)
  PROVE  pc'[t] # "cache_push"
BY UnwindEnters DEF Obtain, Labels

LEMMA StepEnters ==
  ASSUME TypeInv, NEW t \in Threads, Begin(t) \/ BeginDrop(t) \/ Step(t),
         pc'[t] = "cache_push"
  PROVE  Enters(t)
<1>1. CASE \/ Begin(t) \/ BeginDrop(t) \/ CacheHealth(t) \/ Return(t)
           \/ DisableReuse(t) \/ DisableAfterFree(t)
  BY <1>1, UnwindEnters DEF Begin, BeginDrop, CacheHealth, Return, DisableReuse,
     DisableAfterFree, Labels
<1>2. CASE CacheTake(t) \/ PoolAllocate(t) \/ Malloc(t)
  BY <1>2, UnwindEnters, ObtainEnters
     DEF CacheTake, PoolAllocate, Malloc, Map, AllocateFailed, Labels
<1>3. CASE PoolHealth(t)
  BY <1>3, UnwindEnters DEF PoolHealth, Labels
<1>4. CASE Launch(t) \/ Synchronize(t)
  BY <1>4, UnwindEnters DEF Launch, Synchronize, Labels
<1>5. CASE Release(t) \/ FreeHealth(t) \/ Free(t) \/ FreeAsync(t)
  BY <1>5, UnwindEnters DEF Release, FreeHealth, Free, FreeAsync, Labels
<1>6. CASE CachePush(t)
  BY <1>6, UnwindEnters DEF CachePush
<1>7. CASE Drop(t)
  <2>1. Cacheable(Head(held[t])) /\ UNCHANGED held
    BY <1>7, UnwindEnters DEF Drop
  <2>2. pc[t] = "drop" /\ CacheLock(t) /\ disclosed' = disclosed /\ held[t] # <<>>
    BY <1>7 DEF Drop, TypeInv, Shape, ShapeOf
  <2> QED BY <2>1, <2>2 DEF Enters, Confident, Cacheable, Pending
<1> QED BY <1>1, <1>2, <1>3, <1>4, <1>5, <1>6, <1>7 DEF Step

-----------------------------------------------------------------------------
\* A thread with no failure on its hands owns nothing in doubt.
LEMMA OwnBlocksUndoubted ==
  ASSUME Ownership, InputsLive, FailuresKnown, NEW t \in Threads,
         healthy, ~Pending(t), NEW b \in Private(t)
  PROVE  b \notin disclosed
<1> SUFFICES ASSUME b \in disclosed PROVE FALSE
  OBVIOUS
<1>1. PICK u \in Threads : b \in Touched(u) /\ Pending(u)
  BY DEF FailuresKnown
<1>2. b \notin op[u].inputs
  BY DEF InputsLive, Ownership, SingleOwner
<1>3. b \in Private(u) /\ u # t
  BY <1>1, <1>2 DEF Touched, Private
<1> QED BY <1>3 DEF Ownership, SingleOwner

LEMMA FailuresKnownStep ==
  ASSUME FailuresKnown, NEW t \in Threads, OnlyThread(t), Cautious(t)
  PROVE  FailuresKnown'
<1>1. ASSUME NEW b \in disclosed', healthy'
      PROVE  \E u \in Threads : b \in Touched(u)' /\ Pending(u)'
  <2>1. \A u \in Threads \ {t} : Pending(u) = Pending(u)' /\ Touched(u) = Touched(u)'
    BY DEF OnlyThread, Pending, Touched
  <2>2. CASE b \in Touched(t) /\ Pends(t)
    BY <2>2 DEF Pends
  <2>3. CASE b \in disclosed
    <3>1. PICK u \in Threads : b \in Touched(u) /\ Pending(u)
      BY <1>1, <2>3 DEF FailuresKnown, Cautious
    <3>2. CASE u = t
      <4>1. Pends(t)
        BY <1>1, <3>1, <3>2 DEF Cautious
      <4> QED BY <3>1, <3>2, <4>1 DEF Pends
    <3>3. CASE u # t
      BY <2>1, <3>1, <3>3
    <3> QED BY <3>2, <3>3
  <2> QED BY <1>1, <2>2, <2>3 DEF Cautious
<1> QED BY <1>1 DEF FailuresKnown

LEMMA NotReusedStep ==
  ASSUME TypeInv, Ownership, DoubtInv, NEW t \in Threads, OnlyThread(t),
         Cautious(t), pc'[t] = "cache_push" => Enters(t)
  PROVE  DisclosedNotReused' /\ PushClean'
<1>1. Touched(t) \cap Range(cache) = {}
      /\ \A u \in Threads \ {t} : Touched(t) \cap Private(u) = {}
  <2>1. op[t].inputs \subseteq live /\ Range(held[t]) \subseteq Private(t)
    BY DEF DoubtInv, InputsLive, Private
  <2> QED BY <2>1 DEF Touched, Ownership, SingleOwner
<1>2. disclosed' \subseteq disclosed \cup Touched(t)
  BY DEF Cautious
<1>3. Confident(t) => Private(t) \cap disclosed' = {}
  BY OwnBlocksUndoubted DEF Confident, DoubtInv
<1>4. disclosed' \cap Range(cache') = {}
  <2>1. CASE Range(cache') \subseteq Range(cache)
    BY <1>1, <1>2, <2>1 DEF DoubtInv, DisclosedNotReused
  <2>2. CASE /\ pc[t] = "cache_push" /\ disclosed' = disclosed
             /\ Range(cache') \subseteq Range(cache) \cup {Head(held[t])}
    BY <2>2 DEF DoubtInv, DisclosedNotReused, PushClean
  <2> QED BY <2>1, <2>2 DEF Cautious
<1>5. ASSUME NEW u \in Threads, pc'[u] = "free_async"
      PROVE  Head(evicted'[u]) \notin disclosed'
  <2>1. CASE u = t
    BY <1>3, <1>5, <2>1 DEF Cautious
  <2>2. CASE u # t
    <3>1. pc[u] = "free_async" /\ evicted'[u] = evicted[u]
      BY <1>5, <2>2 DEF OnlyThread
    <3>2. evicted[u] # <<>> /\ evicted[u] \in Seq(Block)
      BY <3>1 DEF TypeInv, TypeOK, Shape, ShapeOf
    <3>3. Head(evicted[u]) \in Private(u)
      BY <3>2, TailBlocks DEF Private
    <3> QED BY <1>1, <1>2, <2>2, <3>1, <3>3 DEF DoubtInv, DisclosedNotReused
  <2> QED BY <2>1, <2>2
<1>6. ASSUME NEW u \in Threads, pc'[u] = "cache_push"
      PROVE  Head(held'[u]) \notin disclosed'
  <2>1. ASSUME held[u] # <<>> PROVE Head(held[u]) \in Private(u)
    <3>1. held[u] \in Seq(Block)
      BY DEF TypeInv, TypeOK
    <3> QED BY <2>1, <3>1, TailBlocks DEF Private
  <2>2. CASE u = t
    BY <1>3, <1>6, <2>1, <2>2 DEF Enters
  <2>3. CASE u # t
    <3>1. pc[u] = "cache_push" /\ held'[u] = held[u]
      BY <1>6, <2>3 DEF OnlyThread
    <3>2. held[u] # <<>>
      BY <3>1 DEF TypeInv, Shape, ShapeOf
    <3>3. Head(held[u]) \notin disclosed
      BY <3>1 DEF DoubtInv, PushClean
    <3> QED BY <1>1, <1>2, <2>1, <2>3, <3>1, <3>2, <3>3
  <2> QED BY <2>2, <2>3
<1> QED BY <1>4, <1>5, <1>6 DEF DisclosedNotReused, PushClean

LEMMA NextDoubt == TypeInv /\ Ownership /\ DoubtInv /\ [Next]_vars => DoubtInv'
<1> SUFFICES ASSUME TypeInv, Ownership, DoubtInv, [Next]_vars PROVE DoubtInv'
  OBVIOUS
<1>1. CASE Next
  <2>1. PICK t \in Threads : Begin(t) \/ BeginDrop(t) \/ Step(t)
    BY <1>1 DEF Next
  <2>2. OnlyThread(t) /\ Cautious(t)
    BY <2>1, ThreadStepMoves, StepCautious
  <2>3. InputsLive'
    BY <2>1, <2>2, InputsStep DEF DoubtInv
  <2>4. pc'[t] = "cache_push" => Enters(t)
    BY <2>1, StepEnters
  <2> QED BY <2>2, <2>3, <2>4, FailuresKnownStep, NotReusedStep DEF DoubtInv
<1>2. CASE UNCHANGED vars
  BY <1>2 DEF vars, threadVars, DoubtInv, InputsLive, FailuresKnown, Touched,
              Pending, DisclosedNotReused, PushClean
<1> QED BY <1>1, <1>2

LEMMA InitDoubt == Init => DoubtInv
BY EmptyBlocks DEF Init, NoOp, DoubtInv, InputsLive, FailuresKnown, DisclosedNotReused,
                   PushClean

(***************************************************************************)
(* A block of a kernel, a copy between blocks, a sum of rows, a compiled   *)
(* launch or a plan's upload that failed is never found in the cache and   *)
(* never returned to a pool, in whatever order the threads get to look.    *)
(* ARCHITECTURE.md promises it of every launch and completion; a fill and  *)
(* an upload from the host are outside `disclosed`, since the code breaks  *)
(* the promise for them (FailureDisablesReuse).                            *)
(***************************************************************************)
THEOREM NoReuseAfterFailure == Spec => []DisclosedNotReused
BY InitDoubt, NextDoubt, TypeInvariant, OwnershipInvariant, PTL
   DEF Spec, DoubtInv

-----------------------------------------------------------------------------
\* CACHE's mutex is one thread's at a time.
OneLock ==
  \A t, u \in Threads : pc[t] = "cache_push" /\ pc[u] = "cache_push" => t = u

LEMMA NextOneLock == TypeInv /\ OneLock /\ [Next]_vars => OneLock'
<1> SUFFICES ASSUME TypeInv, OneLock, [Next]_vars PROVE OneLock'
  OBVIOUS
<1>1. CASE Next
  <2>1. PICK t \in Threads : Begin(t) \/ BeginDrop(t) \/ Step(t)
    BY <1>1 DEF Next
  <2>2. OnlyThread(t)
    BY <2>1, ThreadStepTypes DEF StepKept
  <2>3. pc'[t] = "cache_push" => \A u \in Threads \ {t} : pc[u] # "cache_push"
    BY <2>1, StepEnters DEF Enters, CacheLock
  <2> QED BY <2>2, <2>3 DEF OneLock, OnlyThread
<1>2. CASE UNCHANGED vars
  BY <1>2 DEF vars, threadVars, OneLock
<1> QED BY <1>1, <1>2

LEMMA OneLockInvariant == Spec => []OneLock
<1>1. Init => OneLock
  BY DEF Init, OneLock
<1> QED BY <1>1, NextOneLock, TypeInvariant, PTL DEF Spec

(***************************************************************************)
(* CACHE_HEALTHY is never set again, and of all the drops under way when   *)
(* it is cleared at most one still puts its block into the cache: that     *)
(* which held the lock with the flag already loaded.                       *)
(***************************************************************************)
THEOREM DisabledForGood == Spec => ReuseStaysDisabled
<1> DEFINE A == ~healthy =>
                  /\ ~healthy'
                  /\ Range(cache') \subseteq Range(cache) \cup Returning
                  /\ Returning' \subseteq Returning
                  /\ \A a, b \in Returning : a = b
<1>1. TypeInv /\ OneLock /\ [Next]_vars => [A]_vars
  <2> SUFFICES ASSUME TypeInv, OneLock, Next, ~healthy
               PROVE  /\ ~healthy'
                      /\ Range(cache') \subseteq Range(cache) \cup Returning
                      /\ Returning' \subseteq Returning
                      /\ \A a, b \in Returning : a = b
    OBVIOUS
  <2>1. PICK t \in Threads : Begin(t) \/ BeginDrop(t) \/ Step(t)
    BY DEF Next
  <2>2. Cautious(t) /\ OnlyThread(t)
    BY <2>1, StepCautious, ThreadStepTypes DEF StepKept
  <2>3. pc'[t] # "cache_push"
    BY <2>1, StepEnters DEF Enters, Confident
  <2>4. pc[t] = "cache_push" => Head(held[t]) \in Returning
    BY DEF Returning
  <2>5. ~healthy' /\ Range(cache') \subseteq Range(cache) \cup Returning
    BY <2>2, <2>4 DEF Cautious
  <2>6. Returning' \subseteq Returning
    BY <2>2, <2>3 DEF Returning, OnlyThread
  <2>7. \A a, b \in Returning : a = b
    BY DEF Returning, OneLock
  <2> QED BY <2>5, <2>6, <2>7
<1> QED BY <1>1, TypeInvariant, OneLockInvariant, PTL DEF Spec, ReuseStaysDisabled

-----------------------------------------------------------------------------
(***************************************************************************)
(* The storage implements BlockProtocol.  Flow is what a step of t may do  *)
(* to the places of the blocks: they move by way of what t holds, and one  *)
(* in doubt is given back only if no pool would hand it out again.         *)
(***************************************************************************)
Flow(t) ==
  /\ live' \subseteq live \cup Private(t)
  /\ live \subseteq live' \cup Private(t)'
  /\ Range(cache') \subseteq Range(cache) \cup Private(t)
  /\ Range(cache) \subseteq Range(cache') \cup Private(t)'
  /\ lost \subseteq lost' /\ lost' \subseteq lost \cup Private(t)
  /\ mapped' \subseteq mapped \cup Private(t)'
  /\ mapped \subseteq mapped' \cup Private(t)
  /\ mapped \subseteq mapped' \/ mapped' \subseteq mapped
  /\ disclosed' \subseteq disclosed \cup Touched(t)
  /\ disclosed \subseteq disclosed' \cup (mapped \ mapped')
  /\ disclosed' \cap (mapped \ mapped') = {}
  /\ \A b \in (mapped \ mapped') \cap disclosed : ~b.pooled

LEMMA QuietFlow ==
  ASSUME NEW t \in Threads, UNCHANGED <<live, cache, lost, mapped>>,
         disclosed' \in {disclosed, disclosed \cup Touched(t)}
  PROVE  Flow(t)
BY DEF Flow

LEMMA PublishFlow ==
  ASSUME TypeInv, NEW t \in Threads, Publish(t),
         op[t].kind \in WithScratch => held[t] # <<>>,
         UNCHANGED <<cache, lost, mapped>>,
         disclosed' \in {disclosed, disclosed \cup Touched(t)}
  PROVE  Flow(t)
<1>1. held[t] \in Seq(Block)
  BY DEF TypeInv, TypeOK
<1>2. op[t].kind \in WithScratch => Range(Front(held[t])) \subseteq Range(held[t])
  BY <1>1, FrontBlocks
<1>3. live \subseteq live' /\ live' \subseteq live \cup Range(held[t])
  BY <1>2 DEF Publish
<1> QED BY <1>3 DEF Flow, Private

LEMMA BeginFlow ==
  ASSUME TypeInv, NEW t \in Threads, Begin(t) \/ BeginDrop(t)
  PROVE  Flow(t)
<1>1. CASE Begin(t)
  BY <1>1, QuietFlow DEF Begin
<1>2. CASE BeginDrop(t)
  <2>1. PICK b \in live : /\ live' = live \ {b}
                          /\ held' = [held EXCEPT ![t] = <<b>>]
    BY <1>2 DEF BeginDrop
  <2>2. b \in Block /\ held'[t] = <<b>>
    BY <2>1 DEF TypeInv, TypeOK
  <2>3. b \in Private(t)'
    BY <2>2, SingletonBlocks DEF Private
  <2> QED BY <1>2, <2>1, <2>3 DEF BeginDrop, Flow
<1> QED BY <1>1, <1>2

LEMMA CacheFlow ==
  ASSUME TypeInv, NEW t \in Threads, CacheHealth(t) \/ CacheTake(t)
  PROVE  Flow(t)
<1>1. CASE UNCHANGED cache
  BY <1>1, QuietFlow DEF CacheHealth, CacheTake
<1>2. ASSUME NEW i \in DOMAIN cache, cache' = RemoveAt(cache, i),
             Obtain(t, cache[i]), CacheTake(t)
      PROVE  Flow(t)
  <2>1. cache[i] \in Block /\ Range(cache) = {cache[i]} \cup Range(cache')
    BY <1>2, RemoveBlocks DEF TypeInv, TypeOK
  <2>2. cache[i] \in Private(t)'
    BY <1>2, <2>1, ObtainMoves DEF Private
  <2> QED BY <1>2, <2>1, <2>2 DEF CacheTake, Flow
<1> QED BY <1>1, <1>2 DEF CacheHealth, CacheTake

LEMMA MapFlow ==
  ASSUME TypeInv, NEW t \in Threads, NEW pooled \in BOOLEAN,
         pc[t] \in Allocating, Map(t, pooled),
         UNCHANGED <<live, cache, lost, disclosed>>
  PROVE  Flow(t)
<1>1. PICK p \in Pointers :
        LET block == [device |-> op[t].device, bytes |-> op[t].bytes,
                      ptr |-> p, pooled |-> pooled]
        IN  mapped' = mapped \cup {block} /\ Obtain(t, block)
  BY DEF Map
<1> DEFINE block == [device |-> op[t].device, bytes |-> op[t].bytes,
                     ptr |-> p, pooled |-> pooled]
<1>2. block \in Block
  BY DEF TypeInv, TypeOK, Shape, ShapeOf, Op, Block
<1>3. mapped' = mapped \cup {block} /\ Obtain(t, block)
  BY <1>1
<1> HIDE DEF block
<1>4. block \in Private(t)'
  BY <1>2, <1>3, ObtainMoves DEF Private
<1> QED BY <1>3, <1>4 DEF Flow

LEMMA AllocateFlow ==
  ASSUME TypeInv, NEW t \in Threads,
         PoolHealth(t) \/ PoolAllocate(t) \/ Malloc(t)
  PROVE  Flow(t)
<1>1. /\ pc[t] \in Allocating /\ UNCHANGED <<cache, lost, disclosed>>
      /\ (PoolAllocate(t) \/ Malloc(t)) => UNCHANGED live
  BY DEF PoolHealth, PoolAllocate, Malloc
<1>2. CASE PoolHealth(t)
  <2>1. CASE op[t].bytes = 0
    <3>1. op[t].kind \in WithScratch => held[t] # <<>>
      BY <1>2, <2>1 DEF PoolHealth, TypeInv, Shape, ShapeOf
    <3> QED BY <1>2, <2>1, <3>1, PublishFlow DEF PoolHealth
  <2>2. CASE op[t].bytes # 0
    BY <1>2, <2>2, QuietFlow DEF PoolHealth
  <2> QED BY <2>1, <2>2
<1>3. CASE PoolAllocate(t) \/ Malloc(t)
  <2>1. CASE UNCHANGED mapped
    BY <1>1, <1>3, <2>1, QuietFlow
  <2>2. CASE \E pooled \in BOOLEAN : Map(t, pooled)
    BY <1>1, <1>3, <2>2, MapFlow
  <2> QED BY <1>3, <2>1, <2>2 DEF PoolAllocate, Malloc
<1> QED BY <1>2, <1>3

LEMMA WorkFlow ==
  ASSUME TypeInv, NEW t \in Threads,
         Launch(t) \/ Synchronize(t) \/ DisableReuse(t)
  PROVE  Flow(t)
<1>1. /\ UNCHANGED <<cache, mapped, lost>>
      /\ pc[t] \in Working => (op[t].kind \in WithScratch => held[t] # <<>>)
  BY DEF Launch, Synchronize, DisableReuse, TypeInv, Shape, ShapeOf
<1>2. disclosed' \in {disclosed, disclosed \cup Touched(t)}
  BY DEF Launch, Synchronize, DisableReuse
<1>3. CASE UNCHANGED live
  BY <1>1, <1>2, <1>3, QuietFlow
<1>4. CASE Publish(t) /\ pc[t] \in Working
  BY <1>1, <1>2, <1>4, PublishFlow
<1> QED BY <1>3, <1>4 DEF Launch, Synchronize, DisableReuse

LEMMA DropFlow ==
  ASSUME TypeInv, NEW t \in Threads, Drop(t) \/ CachePush(t)
  PROVE  Flow(t)
<1> DEFINE block == Head(held[t])
<1>1. /\ held[t] # <<>> /\ held[t] \in Seq(Block) /\ cache \in Seq(Block)
      /\ UNCHANGED <<live, mapped, lost, disclosed>>
  BY DEF Drop, CachePush, TypeInv, TypeOK, Shape, ShapeOf
<1>2. block \in Block /\ block \in Private(t) /\ Tail(held[t]) \in Seq(Block)
  BY <1>1, TailBlocks DEF Private
<1>3. CASE UNCHANGED cache
  BY <1>1, <1>3, QuietFlow
<1>4. ASSUME NEW k \in 0..Len(cache), cache' = Append(Kept(k), block),
             Unwind(t, Tail(held[t]), SubSeq(cache, 1, k))
      PROVE  Flow(t)
  <2> DEFINE old == SubSeq(cache, 1, k)
  <2>1. /\ Kept(k) \in Seq(Block) /\ old \in Seq(Block)
        /\ Range(cache) = Range(old) \cup Range(Kept(k))
    BY <1>1, SplitBlocks DEF Kept
  <2>2. Unwind(t, Tail(held[t]), old)
    BY <1>4
  <2> HIDE DEF old, block
  <2>3. Range(cache') = Range(Kept(k)) \cup {block}
    BY <1>2, <1>4, <2>1, AppendBlocks
  <2>4. evicted'[t] = old
    BY <1>2, <2>1, <2>2, UnwindShape
  <2>5. Range(old) \subseteq Private(t)'
    BY <2>4 DEF Private
  <2> QED BY <1>1, <1>2, <2>1, <2>3, <2>5 DEF Flow
<1> QED BY <1>3, <1>4 DEF Drop, CachePush

LEMMA ReleaseFlow ==
  ASSUME TypeInv, Ownership, DeviceInv, DisclosedNotReused, NEW t \in Threads,
         \/ Release(t) \/ FreeHealth(t) \/ Free(t) \/ FreeAsync(t)
         \/ DisableAfterFree(t)
  PROVE  Flow(t)
<1> DEFINE block == Head(evicted[t])
<1>1. /\ pc[t] \in Releasing /\ evicted[t] # <<>> /\ evicted[t] \in Seq(Block)
      /\ UNCHANGED <<live, cache>>
  BY DEF Release, FreeHealth, Free, FreeAsync, DisableAfterFree, TypeInv, TypeOK,
         Shape, ShapeOf
<1>2. block \in Private(t)
  BY <1>1, TailBlocks DEF Private
<1>3. CASE UNCHANGED <<lost, mapped, disclosed>>
  BY <1>1, <1>3, QuietFlow
<1>4. CASE lost' = lost \cup {block} /\ UNCHANGED <<mapped, disclosed>>
  <2> HIDE DEF block
  <2> QED BY <1>1, <1>2, <1>4 DEF Flow
<1>5. ASSUME Unmap(block), UNCHANGED lost, Free(t) \/ FreeAsync(t)
      PROVE  Flow(t)
  <2>1. block \in disclosed => ~block.pooled
    BY <1>5 DEF Free, FreeAsync, DeviceInv, DeviceOf, DisclosedNotReused
  <2> HIDE DEF block
  <2>2. mapped' = mapped \ {block} /\ disclosed' = disclosed \ {block}
    BY <1>5 DEF Unmap
  <2>3. block \in mapped
    BY <1>2 DEF Ownership, NoLeak
  <2> QED BY <1>1, <1>2, <1>5, <2>1, <2>2, <2>3 DEF Flow
<1> QED BY <1>3, <1>4, <1>5
        DEF Release, FreeHealth, Free, FreeAsync, DisableAfterFree

LEMMA StepFlow ==
  ASSUME TypeInv, Ownership, DeviceInv, DisclosedNotReused, NEW t \in Threads,
         Begin(t) \/ BeginDrop(t) \/ Step(t)
  PROVE  Flow(t)
<1>1. CASE Return(t)
  BY <1>1, QuietFlow DEF Return
<1> QED BY <1>1, BeginFlow, CacheFlow, AllocateFlow, WorkFlow, DropFlow, ReleaseFlow
           DEF Step

DoubtWithin == disclosed \subseteq mapped

\* Where a block is in its life, and where the block of an address is.
Place(b) ==
  CASE b \in live -> "published"
    [] b \in Range(cache) -> "cached"
    [] b \in lost -> "retired"
    [] b \in mapped \ (live \cup Range(cache) \cup lost) -> "private"
    [] OTHER -> "driver"

PhaseOf(p) ==
  CASE p \in Addresses(live) -> "published"
    [] p \in Addresses(Range(cache)) -> "cached"
    [] p \in Addresses(lost) -> "retired"
    [] p \in Addresses(mapped \ (live \cup Range(cache) \cup lost)) -> "private"
    [] OTHER -> "driver"

Places == live \cup Range(cache) \cup lost \subseteq mapped

PhasesArePlaces ==
  /\ Places
  /\ \A b \in mapped : PhaseOf(b.ptr) = Place(b)
  /\ \A p : p \notin Addresses(mapped) => PhaseOf(p) = "driver"

LEMMA PhaseIsPlace == Ownership => PhasesArePlaces
<1> SUFFICES ASSUME Ownership PROVE PhasesArePlaces
  OBVIOUS
<1>1. Places
  BY DEF Ownership, NoLeak, Places
<1>2. ASSUME NEW b \in mapped, NEW S \in SUBSET mapped
      PROVE  b.ptr \in Addresses(S) <=> b \in S
  BY <1>2 DEF Ownership, NoLeak, Addresses
<1>3. ASSUME NEW b \in mapped PROVE PhaseOf(b.ptr) = Place(b)
  <2>1. /\ b.ptr \in Addresses(live) <=> b \in live
        /\ b.ptr \in Addresses(Range(cache)) <=> b \in Range(cache)
        /\ b.ptr \in Addresses(lost) <=> b \in lost
    BY <1>1, <1>2 DEF Places
  <2>2. b.ptr \in Addresses(mapped \ (live \cup Range(cache) \cup lost))
          <=> b \in mapped \ (live \cup Range(cache) \cup lost)
    BY <1>2
  <2> QED BY <2>1, <2>2 DEF PhaseOf, Place
<1>4. ASSUME NEW p, p \notin Addresses(mapped) PROVE PhaseOf(p) = "driver"
  <2>1. \A S \in SUBSET mapped : p \notin Addresses(S)
    BY <1>4 DEF Addresses
  <2>2. /\ p \notin Addresses(live) /\ p \notin Addresses(Range(cache))
        /\ p \notin Addresses(lost)
        /\ p \notin Addresses(mapped \ (live \cup Range(cache) \cup lost))
    BY <1>1, <2>1 DEF Places
  <2> QED BY <2>2 DEF PhaseOf
<1> QED BY <1>1, <1>3, <1>4 DEF PhasesArePlaces

LEMMA PhaseIsPlaceNext == Ownership' => PhasesArePlaces'
BY PhaseIsPlace, PTL

\* A block in the hands of one thread is in no other place.
PrivateIsPlace ==
  \A t \in Threads : \A b \in Private(t) :
    /\ b \in mapped /\ b \notin live \cup Range(cache) \cup lost
    /\ Place(b) = "private"

LEMMA PrivatePlace == Ownership => PrivateIsPlace
<1> SUFFICES ASSUME Ownership, NEW t \in Threads, NEW b \in Private(t)
             PROVE  /\ b \in mapped /\ b \notin live \cup Range(cache) \cup lost
                    /\ Place(b) = "private"
  BY DEF PrivateIsPlace
<1>1. b \in mapped /\ b \notin live \cup Range(cache) \cup lost
  BY DEF Ownership, NoLeak, SingleOwner
<1> QED BY <1>1 DEF Place

LEMMA PrivatePlaceNext == Ownership' => PrivateIsPlace'
BY PrivatePlace, PTL

LEMMA PlaceMoves ==
  ASSUME Ownership, Ownership', NEW t \in Threads, Flow(t), NEW b
  PROVE  Place(b)' = Place(b) \/ <<Place(b), Place(b)'>> \in Protocol!Edges
<1>1. b \in Private(t) => Place(b) = "private"
  BY PrivatePlace DEF PrivateIsPlace
<1>2. b \in Private(t)' => Place(b)' = "private"
  BY PrivatePlaceNext DEF PrivateIsPlace
<1>3. Places /\ Places'
  BY DEF Ownership, NoLeak, Places
<1>4. /\ live \cap Range(cache) = {} /\ lost \cap (live \cup Range(cache)) = {}
      /\ live' \cap Range(cache') = {}
      /\ lost' \cap (live' \cup Range(cache')) = {}
  BY DEF Ownership, SingleOwner
<1>5. CASE b \in Private(t) \/ b \in Private(t)'
  <2>1. CASE b \in Private(t)
    BY <1>1, <2>1 DEF Place, Protocol!Edges
  <2>2. CASE b \in Private(t)' /\ b \notin Private(t)
    BY <1>2, <1>3, <2>2 DEF Flow, Place, Places, Protocol!Edges
  <2> QED BY <1>5, <2>1, <2>2
<1>6. CASE b \notin Private(t) /\ b \notin Private(t)'
  <2>1. /\ b \in live <=> b \in live'
        /\ b \in Range(cache) <=> b \in Range(cache')
        /\ b \in lost <=> b \in lost'
        /\ b \in mapped <=> b \in mapped'
    BY <1>6 DEF Flow
  <2> QED BY <2>1 DEF Place
<1> QED BY <1>5, <1>6

\* What failed work may touch is in use, so a block new in doubt is, too.
LEMMA DoubtArises ==
  ASSUME Ownership, InputsLive, NEW t \in Threads, NEW b \in Touched(t)
  PROVE  b \in mapped /\ Place(b) \in {"private", "published"}
<1>1. CASE b \in live
  BY <1>1 DEF Place, Ownership, NoLeak, SingleOwner
<1>2. CASE b \in Private(t)
  BY <1>2, PrivatePlace DEF PrivateIsPlace
<1> QED BY <1>1, <1>2 DEF Touched, Private, InputsLive

Orderly == Addresses({b \in mapped : b.pooled})

\* The move of one address, by where its block was and is.
AddressMove(p) ==
  /\ PhaseOf(p)' = PhaseOf(p) \/ <<PhaseOf(p), PhaseOf(p)'>> \in Protocol!Edges
  /\ (PhaseOf(p) # "driver" /\ PhaseOf(p)' # "driver") =>
       (p \in Orderly' <=> p \in Orderly)
  /\ p \in Addresses(disclosed') \ Addresses(disclosed) =>
       PhaseOf(p) \in {"private", "published"}
  /\ p \in Addresses(disclosed) \ Addresses(disclosed') => PhaseOf(p)' = "driver"
  /\ p \in Addresses(disclosed) =>
       /\ PhaseOf(p)' # "cached"
       /\ PhaseOf(p)' = "driver" => p \notin Orderly

LEMMA Unmapped ==
  ASSUME Ownership, Ownership', DoubtWithin, DoubtWithin',
         NEW t \in Threads, Flow(t), NEW b \in mapped \ mapped'
  PROVE  AddressMove(b.ptr)
<1> DEFINE p == b.ptr
<1>1. Place(b)' = "driver" /\ Place(b) # "driver"
  <2>1. Places'
    BY DEF Ownership, NoLeak, Places
  <2> QED BY <2>1 DEF Place, Places
<1>2. Place(b) = "private"
  BY <1>1, PlaceMoves DEF Protocol!Edges
<1>3. mapped' \subseteq mapped /\ \A a \in mapped : a.ptr = p => a = b
  BY DEF Flow, Ownership, NoLeak
<1>4. p \notin Addresses(mapped')
  BY <1>3 DEF Addresses
<1>5. PhaseOf(p) = "private"
  BY <1>2, PhaseIsPlace DEF PhasesArePlaces
<1>6. PhaseOf(p)' = "driver"
  BY <1>4, PhaseIsPlaceNext DEF PhasesArePlaces
<1>7. p \in Addresses(disclosed) => b \in disclosed
  BY <1>3 DEF DoubtWithin, Addresses
<1>8. p \in Addresses(disclosed) => p \notin Orderly
  <2>1. b \in disclosed => ~b.pooled
    BY DEF Flow
  <2> QED BY <1>3, <1>7, <2>1 DEF Orderly, Addresses
<1> HIDE DEF p
<1>9. AddressMove(p)
  BY <1>5, <1>6, <1>8 DEF AddressMove, Protocol!Edges
<1> QED BY <1>9 DEF p

LEMMA Remaining ==
  ASSUME Ownership, Ownership', DoubtWithin, DoubtWithin', InputsLive,
         DisclosedNotReused', NEW t \in Threads, Flow(t),
         NEW b \in mapped \cap mapped'
  PROVE  AddressMove(b.ptr)
<1> DEFINE p == b.ptr
<1>1. /\ \A a \in mapped : a.ptr = p => a = b
      /\ \A a \in mapped' : a.ptr = p => a = b
  BY DEF Ownership, NoLeak
<1>2. PhaseOf(p) = Place(b)
  BY PhaseIsPlace DEF PhasesArePlaces
<1>3. PhaseOf(p)' = Place(b)'
  BY PhaseIsPlaceNext DEF PhasesArePlaces
<1>4. Place(b)' = Place(b) \/ <<Place(b), Place(b)'>> \in Protocol!Edges
  BY PlaceMoves
<1>5. p \in Orderly' <=> p \in Orderly
  BY <1>1 DEF Orderly, Addresses
<1>6. /\ p \in Addresses(disclosed) <=> b \in disclosed
      /\ p \in Addresses(disclosed') <=> b \in disclosed'
  BY <1>1 DEF DoubtWithin, Addresses
<1>7. b \in disclosed => b \in disclosed'
  BY DEF Flow
<1>8. b \in disclosed' \ disclosed => Place(b) \in {"private", "published"}
  BY DoubtArises DEF Flow
<1>9. b \in disclosed' => Place(b)' # "cached"
  <2>1. b \in disclosed' => b \notin Range(cache')
    BY DEF DisclosedNotReused
  <2> QED BY <2>1 DEF Place
<1>10. Place(b)' # "driver"
  BY DEF Place
<1> HIDE DEF p
<1>11. AddressMove(p)
  BY <1>2, <1>3, <1>4, <1>5, <1>6, <1>7, <1>8, <1>9, <1>10 DEF AddressMove
<1> QED BY <1>11 DEF p

LEMMA AddressMoves ==
  ASSUME Ownership, Ownership', DoubtWithin, DoubtWithin', InputsLive,
         DisclosedNotReused', NEW t \in Threads, Flow(t), NEW p
  PROVE  AddressMove(p)
<1>1. CASE \E b \in mapped : b.ptr = p
  BY <1>1, Unmapped, Remaining
<1>2. CASE p \notin Addresses(mapped)
  <2>1. PhaseOf(p) = "driver"
    BY <1>2, PhaseIsPlace DEF PhasesArePlaces
  <2>2. p \notin Addresses(disclosed) /\ p \notin Addresses(disclosed')
    BY <1>2, DoubtArises DEF Flow, DoubtWithin, Addresses
  <2>3. CASE \E b \in mapped' : b.ptr = p
    <3>1. PICK b \in mapped' : b.ptr = p
      BY <2>3
    <3>2. b \notin mapped
      BY <1>2, <3>1 DEF Addresses
    <3>3. b \in Private(t)'
      BY <3>2 DEF Flow
    <3>4. Place(b)' = "private"
      BY <3>3, PrivatePlaceNext DEF PrivateIsPlace
    <3>5. PhaseOf(p)' = Place(b)'
      BY <3>1, PhaseIsPlaceNext DEF PhasesArePlaces
    <3> QED BY <2>1, <2>2, <3>4, <3>5 DEF AddressMove, Protocol!Edges
  <2>4. CASE p \notin Addresses(mapped')
    <3>1. PhaseOf(p)' = "driver"
      BY <2>4, PhaseIsPlaceNext DEF PhasesArePlaces
    <3> QED BY <2>1, <2>2, <3>1 DEF AddressMove
  <2> QED BY <2>3, <2>4 DEF Addresses
<1> QED BY <1>1, <1>2 DEF Addresses

LEMMA NextStory ==
  /\ TypeInv /\ Ownership /\ DeviceInv /\ DoubtInv /\ DoubtInv' /\ Ownership'
  /\ DoubtWithin /\ [Next]_vars
  => DoubtWithin' /\ (UNCHANGED vars \/ \A p : AddressMove(p))
<1> SUFFICES ASSUME TypeInv, Ownership, DeviceInv, DoubtInv, DoubtInv',
                    Ownership', DoubtWithin, [Next]_vars
             PROVE  DoubtWithin' /\ (UNCHANGED vars \/ \A p : AddressMove(p))
  OBVIOUS
<1>1. CASE UNCHANGED vars
  BY <1>1 DEF vars, threadVars, DoubtWithin
<1>2. CASE Next
  <2>1. PICK t \in Threads : Begin(t) \/ BeginDrop(t) \/ Step(t)
    BY <1>2 DEF Next
  <2>2. Flow(t)
    BY <2>1, StepFlow DEF DoubtInv
  <2>3. InputsLive /\ DisclosedNotReused /\ DisclosedNotReused'
    BY DEF DoubtInv
  <2>4. DoubtWithin'
    <3>1. Touched(t) \subseteq mapped
      BY <2>3, DoubtArises
    <3> QED BY <2>2, <3>1 DEF Flow, DoubtWithin
  <2>5. \A p : AddressMove(p)
    BY <2>2, <2>3, <2>4, AddressMoves
  <2> QED BY <2>4, <2>5
<1> QED BY <1>1, <1>2

LEMMA MoveIsProtocol ==
  ASSUME \A p : AddressMove(p), TypeInv, TypeInv'
  PROVE  Protocol!Next
<1> DEFINE F == [p \in Pointers |-> PhaseOf(p)]
<1>1. \A p \in Pointers : PhaseOf(p)' \in Protocol!Phases
  BY DEF PhaseOf, Protocol!Phases
<1>2. /\ Orderly' \subseteq Pointers /\ Addresses(disclosed') \subseteq Pointers
  BY DEF TypeInv, TypeOK, Orderly, Addresses, Block
<1>3. ASSUME NEW p \in Pointers PROVE Protocol!Move(p)
  <2>1. AddressMove(p)
    OBVIOUS
  <2> QED BY <2>1 DEF AddressMove, PhaseOf, Orderly, Protocol!Move,
                 Protocol!SuspicionLasts, Protocol!SuspectIsNotReused, Addresses
<1> QED BY <1>1, <1>2, <1>3 DEF Protocol!Next, PhaseOf, Orderly, Addresses

LEMMA InitIsProtocol == Init => Protocol!Init /\ DoubtWithin
<1> SUFFICES ASSUME Init PROVE Protocol!Init /\ DoubtWithin
  OBVIOUS
<1>1. Range(cache) = {}
  BY EmptyBlocks DEF Init
<1>2. /\ DoubtWithin /\ Addresses(disclosed) = {} /\ Addresses(live) = {}
      /\ Addresses(lost) = {} /\ Addresses(Range(cache)) = {}
      /\ Addresses(mapped \ (live \cup Range(cache) \cup lost)) = {}
      /\ Addresses({b \in mapped : b.pooled}) = {}
  BY <1>1 DEF Init, DoubtWithin, Addresses
<1> QED BY <1>2 DEF Protocol!Init

\* The variables of BlockProtocol, of a state of the storage.
Story == <<[p \in Pointers |-> PhaseOf(p)], Orderly, Addresses(disclosed)>>

LEMMA SameStory == UNCHANGED vars => UNCHANGED Story
<1> SUFFICES ASSUME UNCHANGED vars PROVE UNCHANGED Story
  OBVIOUS
<1>1. UNCHANGED <<live, cache, lost, mapped, disclosed>>
  BY DEF vars, threadVars
<1>2. /\ [p \in Pointers |-> PhaseOf(p)]' = [p \in Pointers |-> PhaseOf(p)]
      /\ Orderly' = Orderly /\ Addresses(disclosed)' = Addresses(disclosed)
  BY <1>1 DEF PhaseOf, Orderly, Addresses
<1> QED BY <1>2 DEF Story

(***************************************************************************)
(* The storage of cuda.rs implements BlockProtocol: whatever the threads   *)
(* do, each address leads one of the lives the protocol allows, its block  *)
(* stays in its pool, and a block of failed work, other than a fill or an  *)
(* upload from the host, comes back to the driver only where the driver    *)
(* waits for that work.                                                    *)
(***************************************************************************)
THEOREM StorageImplementsProtocol == Spec => ImplementsProtocol
<1>1. Init => DoubtInv /\ DoubtWithin /\ Protocol!Init
  BY InitDoubt, InitIsProtocol
<1>2. /\ TypeInv /\ Ownership /\ DeviceInv /\ DoubtInv
      /\ TypeInv' /\ Ownership' /\ DoubtInv' /\ DoubtWithin /\ [Next]_vars
      => DoubtWithin' /\ [Protocol!Next]_Story
  BY NextStory, MoveIsProtocol, SameStory
<1>3. Spec => Protocol!Init /\ [][Protocol!Next]_Story
  BY <1>1, <1>2, NextDoubt, TypeInvariant, OwnershipInvariant,
     DeviceInvariant, PTL DEF Spec
<1> QED
  BY <1>3, PTL
  DEF ImplementsProtocol, Protocol!Spec, Story, PhaseOf, Orderly

=============================================================================
