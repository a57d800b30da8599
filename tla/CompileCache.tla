----------------------------- MODULE CompileCache -----------------------------
(***************************************************************************)
(* What the default backend of torch.compile keeps for one function        *)
(* (implementation and _publish_preparation of _compile_pointwise.py,      *)
(* NativeEagerCompileCache of _compiler_state.py): logical entries with    *)
(* their lowerings, executors, and prepared plans with a byte budget.  The *)
(* maps are Python dictionaries, so their order is that of insertion: the  *)
(* oldest first.  A call holds the cache's lock from its first look-up to  *)
(* its last publication.                                                   *)
(***************************************************************************)
EXTENDS Integers, Sequences, SequencesExt, FiniteSetsExt

CONSTANTS Calls,          \* calls of the function: [key, abi, code, shape, bytes]
          RecompileLimit,
          PreparedBytes   \* _PREPARED_CACHE_BYTES

ASSUME CacheConstants ==
  RecompileLimit \in Nat /\ PreparedBytes \in Nat /\ \A c \in Calls : c.bytes \in Nat

VARIABLES graphs,         \* the keys of the logical entries
          lowerings,      \* the abis each entry has a lowering for
          executors,      \* the code keys
          prepared,       \* [code, shape, bytes]
          prepared_bytes

cacheVars == <<graphs, lowerings, executors, prepared, prepared_bytes>>

Empty ==
  /\ graphs' = <<>>
  /\ lowerings' = [k \in {} |-> <<>>]
  /\ executors' = <<>>
  /\ prepared' = <<>>
  /\ prepared_bytes' = 0

CacheInit ==
  /\ graphs = <<>>
  /\ lowerings = [k \in {} |-> <<>>]
  /\ executors = <<>>
  /\ prepared = <<>>
  /\ prepared_bytes = 0

---------------------------------------------------------------------------
Recent(map) == SubSeq(map, Max({1, Len(map) - RecompileLimit + 1}), Len(map))

\* pop(item, None)
Popped(map, item) ==
  LET at == {i \in DOMAIN map : map[i] = item}
  IN  IF at = {} THEN map ELSE RemoveAt(map, Max(at))

\* Moved to the end, or added there; then the oldest go.
Published(map, item) ==
  IF map # <<>> /\ Last(map) = item THEN map ELSE Recent(Append(Popped(map, item), item))

Bytes(plans) == FoldSeq(LAMBDA plan, sum : plan.bytes + sum, 0, plans)

\* Mutant: a plan stays when its executor goes.
WithoutExecutor(plans, codes) == plans

\* The plans whose executor is gone go with it.
WithExecutor(plans, codes) ==
  LET kept[n \in 0..Len(plans)] ==
        IF n = 0 THEN <<>>
        ELSE IF plans[n].code \in ToSet(codes) THEN Append(kept[n - 1], plans[n]) ELSE kept[n - 1]
  IN  kept[Len(plans)]

\* A plan for this executor and shape that is there is used again; the bytes
\* of one that is prepared are those of its allocations.
Preparation(c) ==
  LET at == {i \in DOMAIN prepared : prepared[i].code = c.code /\ prepared[i].shape = c.shape}
  IN  IF at = {} THEN [code |-> c.code, shape |-> c.shape, bytes |-> c.bytes]
      ELSE prepared[Max(at)]

\* Published if it fits the budget by itself, as the newest.
Retained(plans, plan) ==
  IF plan.bytes > PreparedBytes \/ (plans # <<>> /\ Last(plans) = plan) THEN plans
  ELSE Append(Popped(plans, plan), plan)

\* The oldest plans go until number and bytes are within their limits.
Trimmed(plans) ==
  LET fits(n) == Len(plans) - n <= RecompileLimit
                 /\ Bytes(SubSeq(plans, n + 1, Len(plans))) <= PreparedBytes
  IN  SubSeq(plans, Min({n \in 0..Len(plans) : fits(n)}) + 1, Len(plans))

\* The running count: what is dropped or replaced is subtracted.
_publish_preparation(plan, codes) ==
  LET backed == WithExecutor(prepared, codes)
      retained == Retained(backed, plan)
      trimmed == Trimmed(retained)
  IN  /\ prepared' = trimmed
      /\ prepared_bytes' = prepared_bytes - (Bytes(prepared) - Bytes(backed))
                                          + (Bytes(retained) - Bytes(backed))
                                          - (Bytes(retained) - Bytes(trimmed))

\* A call that succeeds.  One that fails, at whatever step, publishes nothing;
\* nor does one for which there is no entry when there are too many already.
compiled(c) ==
  /\ c.key \in ToSet(graphs) \/ Len(graphs) < RecompileLimit
  /\ graphs' = Published(graphs, c.key)
  /\ lowerings' = LET entry == IF c.key \in DOMAIN lowerings THEN lowerings[c.key] ELSE <<>>
                  IN  [k \in ToSet(graphs') |->
                         IF k = c.key THEN Published(entry, c.abi) ELSE lowerings[k]]
  /\ executors' = Published(executors, c.code)
  /\ _publish_preparation(Preparation(c), executors')

\* reset_compile_caches, which waits for the lock of the cache.
clear == Empty

CacheStep == (\E c \in Calls : compiled(c)) \/ clear

---------------------------------------------------------------------------
\* Between calls, whatever was called and in whichever order: a prepared plan
\* never outlives the executor it was prepared by; the running count of bytes
\* is that of the plans there are, and within the budget; every map is within
\* the recompile limit and holds an entry once; and the newest entries are
\* those of one call, so that repeating it compiles and prepares nothing (a
\* plan larger than the whole budget is never kept).
CacheConsistent ==
  /\ \A i \in DOMAIN prepared : prepared[i].code \in ToSet(executors)
  /\ prepared_bytes = Bytes(prepared) /\ prepared_bytes <= PreparedBytes
  /\ \A map \in {graphs, executors} \cup {lowerings[k] : k \in DOMAIN lowerings} :
       Len(map) <= RecompileLimit /\ IsInjective(map)
  /\ Len(prepared) <= RecompileLimit
  /\ \A i, j \in DOMAIN prepared :
       prepared[i].code = prepared[j].code /\ prepared[i].shape = prepared[j].shape => i = j
  /\ graphs # <<>> =>
       \E c \in Calls :
         /\ Last(graphs) = c.key /\ Last(lowerings[c.key]) = c.abi /\ Last(executors) = c.code
         /\ c.bytes <= PreparedBytes =>
              prepared # <<>> /\ Last(prepared).code = c.code /\ Last(prepared).shape = c.shape
=============================================================================
