------------------------------ MODULE CudaPool ------------------------------
(***************************************************************************)
(* The private stream-ordered memory pools of src/src/cuda/pool.rs: one    *)
(* pool per device, created by the first allocation that needs it.  Each   *)
(* operator below is one call of Api::allocate or Api::free with one of    *)
(* its outcomes; the whole call runs under the `devices` mutex, so it is a *)
(* single step of whoever makes it.  CudaStorage extends this module and   *)
(* decides who calls and what becomes of the memory.                       *)
(*                                                                         *)
(* The driver is external: any of its calls may fail.  A device of         *)
(* PoolDevices reports memory-pool support, any other device does not; a   *)
(* runtime without the pool symbols is the case PoolDevices = {}.          *)
(***************************************************************************)
EXTENDS Integers

CONSTANTS Devices,      \* device ordinals
          PoolDevices,  \* the devices that report memory-pool support
          Slack         \* unused bytes a pool may keep: 256 MiB in the code

ASSUME PoolConstants == PoolDevices \subseteq Devices /\ Slack \in Nat

VARIABLE pools          \* the `devices` table, "absent" where it has no entry

(***************************************************************************)
(* active: bytes handed out and not returned, cached blocks included.      *)
(* threshold: the release threshold last accepted by the driver.           *)
(***************************************************************************)
Pool == [state : {"absent", "unsupported", "ready"},
         active : Nat, threshold : Nat]

NoPool == [state |-> "absent", active |-> 0, threshold |-> 0]

PoolInit == pools = [d \in Devices |-> NoPool]

\* The table entry after create_pool succeeded, or the entry found.
Opened(d) ==
  IF pools[d].state = "absent"
  THEN [state |-> "ready", active |-> 0, threshold |-> Slack]
  ELSE pools[d]

\* Mutant: the threshold keeps its first value.
BudgetedOnce(pool, active) == pool

\* Api::threshold accepted by the driver: `active` bytes and the slack.
Budgeted(pool, active) == [pool EXCEPT !.threshold = active + Slack]

-----------------------------------------------------------------------------
\* allocate returns Some: the threshold is raised first, then the bytes count.
PoolGrants(d, bytes) ==
  /\ d \in PoolDevices
  /\ LET active == Opened(d).active + bytes
     IN  pools' = [pools EXCEPT ![d] =
                     [Budgeted(Opened(d), active) EXCEPT !.active = active]]

\* allocate returns None, and remembers that the device has no pools.
PoolUnsupported(d) ==
  /\ d \notin PoolDevices
  /\ pools' = [pools EXCEPT ![d].state = "unsupported"]

(***************************************************************************)
(* allocate returns Err: the support query or the creation failed (nothing *)
(* is recorded), the threshold could not be raised (a new pool stays), or  *)
(* the allocation failed and the threshold was put back, a call whose own  *)
(* status is ignored.                                                      *)
(***************************************************************************)
PoolRefuses(d, bytes) ==
  \/ pools[d].state = "absent" /\ UNCHANGED pools
  \/ /\ d \in PoolDevices
     /\ \E after \in {Opened(d),
                      Budgeted(Opened(d), Opened(d).active),
                      Budgeted(Opened(d), Opened(d).active + bytes)} :
          pools' = [pools EXCEPT ![d] = after]

\* free returns 0; `expect` panics unless the pool exists and holds the bytes.
PoolFrees(d, bytes) ==
  LET active == pools[d].active - bytes
  IN  /\ pools[d].state = "ready" /\ active >= 0
      /\ pools' = [pools EXCEPT ![d] =
                     [Budgeted(@, active) EXCEPT !.active = active]]

(***************************************************************************)
(* free returns an error: the threshold could not be lowered, or freeAsync *)
(* failed and the threshold was put back, again without a check.           *)
(***************************************************************************)
PoolKeeps(d, bytes) ==
  /\ pools[d].state = "ready" /\ pools[d].active >= bytes
  /\ \E after \in {pools[d],
                   Budgeted(pools[d], pools[d].active),
                   Budgeted(pools[d], pools[d].active - bytes)} :
       pools' = [pools EXCEPT ![d] = after]
=============================================================================
