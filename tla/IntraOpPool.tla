----------------------------- MODULE IntraOpPool ------------------------------
(***************************************************************************)
(* src/parallel.rs and its client, dimension_sum of src/reduction.rs: one  *)
(* process-wide pool of workers, replaced by set_num_threads at any time.  *)
(* A sum fetches an Arc of the pool, cuts its outputs into jobs by the     *)
(* size of that pool, sums the first tile itself and waits for the rest.   *)
(***************************************************************************)
EXTENDS RowSums

CONSTANTS Callers,             \* threads that sum or set the number of threads
          Pools,               \* the thread pools that may be built
          NoPool,
          MaxThreads,          \* bound: the largest number set_num_threads is asked for
          Sums(_),             \* the sums a caller makes: [width, count, reduce_stride, output_stride]
          ParallelElements,    \* least number of elements of a parallel sum: 256 * 1024 in the code
          Avx2                 \* whether the processor has AVX2

ASSUME PoolConstants == NoPool \notin Pools /\ MaxThreads \in Nat /\ Avx2 \in BOOLEAN

ASSUME SumConstants ==
  \A t \in Callers : \A sum \in Sums(t) :
    /\ sum.width \in Nat /\ sum.count \in Nat
    /\ sum.reduce_stride \in Nat /\ sum.output_stride \in Nat

VARIABLES POOL,        \* the configured pool, or NoPool for one thread
          workers,     \* the number of workers of each pool that exists
          call,        \* what each caller is doing
          jobs         \* the jobs spawned and not finished: [caller, tile]

poolVars == <<POOL, workers, call, jobs>>

Idle == [at |-> "idle"]

PoolInit ==
  /\ POOL = NoPool
  /\ workers = [p \in {} |-> 0]
  /\ call = [t \in Callers |-> Idle]
  /\ jobs = {}

get_num_threads(p) == IF p = NoPool THEN 1 ELSE workers[p] + 1

\* The Arcs: the configured pool, and those calls hold.
Owners(p) == {t \in Callers : call[t].at \in {"retiring", "summing"} /\ call[t].pool = p}

---------------------------------------------------------------------------
(* set_num_threads.  Everything up to the replacement happens under the    *)
(* write lock; the old pool is dropped after it.                           *)

\* Asked for zero threads, for the number there are already, or for a pool
\* that cannot be built, the call returns and nothing has changed: a stutter.
SetThreads(t, threads) ==
  /\ call[t] = Idle
  /\ threads \notin {0, get_num_threads(POOL)}
  /\ \E p \in IF threads = 1 THEN {NoPool} ELSE Pools \ DOMAIN workers :
       /\ POOL' = p
       /\ workers' = IF p = NoPool THEN workers
                     ELSE [q \in DOMAIN workers \cup {p} |->
                             IF q = p THEN threads - 1 ELSE workers[q]]
  /\ call' = [call EXCEPT ![t] = [at |-> "retiring", pool |-> POOL]]
  /\ UNCHANGED jobs

\* Mutant: the pool that was replaced is destroyed with the first Arc.
DroppedAtOnce(t, p) ==
  IF p = NoPool \/ POOL = p THEN workers ELSE [q \in DOMAIN workers \ {p} |-> workers[q]]

\* The last Arc destroys the pool.
Dropped(t, p) ==
  IF p = NoPool \/ POOL = p \/ Owners(p) # {t} THEN workers
  ELSE [q \in DOMAIN workers \ {p} |-> workers[q]]

DropOld(t) ==
  /\ call[t].at = "retiring"
  /\ workers' = Dropped(t, call[t].pool)
  /\ call' = [call EXCEPT ![t] = Idle]
  /\ UNCHANGED <<POOL, jobs>>

---------------------------------------------------------------------------
(* dimension_sum.                                                          *)

\* A sum is split if it is large, has several outputs, there is a pool, and
\* more than one tile.
Split(sum, p) ==
  /\ sum.count * sum.width >= ParallelElements
  /\ sum.width > 1
  /\ p # NoPool
  /\ grain(sum.width, sum, get_num_threads(p)) < sum.width

\* The pool a sum holds: nothing keeps the Arc of one it does not use.
Fetched(sum) == IF Split(sum, POOL) THEN POOL ELSE NoPool

Cut(sum, p) ==
  IF p = NoPool THEN {[start |-> 0, len |-> sum.width]}
  ELSE Tiles(sum.width, grain(sum.width, sum, get_num_threads(p)))

BeginSum(t, sum) ==
  /\ call[t] = Idle
  /\ LET p == Fetched(sum)
         tiles == Cut(sum, p)
     IN  /\ jobs' = jobs \cup {[caller |-> t, tile |-> tile] : tile \in {u \in tiles : u.start # 0}}
         /\ call' = [call EXCEPT ![t] = [at |-> "summing", sum |-> sum, pool |-> p,
                                         split |-> p # NoPool, first |-> FALSE, done |-> {}]]
  /\ UNCHANGED <<POOL, workers>>

\* The caller sums the first tile, in any order with the jobs.
SumFirst(t) ==
  /\ call[t].at = "summing"
  /\ ~call[t].first
  /\ \E tile \in Cut(call[t].sum, call[t].pool) :
       /\ tile.start = 0
       /\ call' = [call EXCEPT ![t].first = TRUE, ![t].done = @ \cup {tile}]
  /\ UNCHANGED <<POOL, workers, jobs>>

\* A worker of the pool the job was given to runs it: the pool must exist.
RunJob(job) ==
  /\ job \in jobs
  /\ call[job.caller].pool \in DOMAIN workers
  /\ jobs' = jobs \ {job}
  /\ call' = [call EXCEPT ![job.caller].done = @ \cup {job.tile}]
  /\ UNCHANGED <<POOL, workers>>

Joined(t) == call[t].first /\ \A job \in jobs : job.caller # t

\* The scope ends once its jobs have, and the Arc is dropped.
EndSum(t) ==
  /\ call[t].at = "summing"
  /\ Joined(t)
  /\ workers' = Dropped(t, call[t].pool)
  /\ call' = [call EXCEPT ![t] = Idle]
  /\ UNCHANGED <<POOL, jobs>>

PoolStep(t) ==
  \/ \E threads \in 0..MaxThreads : SetThreads(t, threads)
  \/ \E sum \in Sums(t) : BeginSum(t, sum)
  \/ DropOld(t) \/ SumFirst(t) \/ EndSum(t)
  \/ \E job \in jobs : job.caller = t /\ RunJob(job)

---------------------------------------------------------------------------
(* Properties.                                                             *)

\* A pool exists as long as anybody uses it: the one that is configured, and
\* the one of each sum and each job, however often set_num_threads replaces it
\* in between; and no pool outlives its last user.
PoolOutlivesUse ==
  DOMAIN workers = {p \in Pools : POOL = p \/ Owners(p) # {}}

\* The addresses of output o of a sum.
Row(sum, o) == {o * sum.output_stride + k * sum.reduce_stride : k \in 0..(sum.count - 1)}

InSerialOrder(order, sum, o) ==
  /\ order = dispatch_layout(o * sum.output_stride, o, sum.width, sum)
  /\ Cardinality(Reads(order)) = sum.count
  /\ Addresses(order) = Row(sum, o)

OrderOf(c, tile, o) ==
  IF c.split THEN reduce(Avx2, tile, o - tile.start, c.sum.width, c.sum)
  ELSE dimension_sum_serial(Avx2, o * c.sum.output_stride, o, c.sum.width, c.sum)

\* When a sum returns, one job has written each output, and has added all the
\* elements of its row once, in the order in which the portable kernel of a
\* single thread adds them: neither the number of threads when the call began,
\* nor a change of it during the call, nor the processor changes a result.
SumsInSerialOrder ==
  \A t \in Callers :
    (call[t].at = "summing" /\ Joined(t)) =>
      \A o \in 0..(call[t].sum.width - 1) :
        \E tile \in call[t].done :
          /\ {u \in call[t].done : o \in u.start..(u.start + u.len - 1)} = {tile}
          /\ InSerialOrder(OrderOf(call[t], tile, o), call[t].sum, o)
=============================================================================
