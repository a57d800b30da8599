----------------------------- MODULE ProcessState -----------------------------
(***************************************************************************)
(* The state that operations run under and that outlives them: the grad    *)
(* mode of each thread, the pool of intra-op workers, pools of leased      *)
(* buffers, the caches of compiled functions, and the stack of modes that  *)
(* may override what Python calls.  The five share no variable, so         *)
(* whatever an interleaving of them does to one of them that one also does *)
(* alone: a behaviour takes the steps of one of the five, chosen when it   *)
(* starts.  The last comes twice: one call of many, and a few calls nested *)
(* in the handlers of each other.                                          *)
(***************************************************************************)
EXTENDS GradMode, IntraOpPool, BufferLeases, CompileCache, TorchFunction

CONSTANTS
  ArgumentCalls, ArgumentModes,   \* the calls made alone, within these modes or none
  ModeCalls, MaxModeCalls, MaxFrames   \* those nested: which, how many, and how deep

ASSUME EnteredModes == ArgumentModes \subseteq Modes

ASSUME CallsMade ==
  /\ \A calls \in ArgumentCalls : \A c \in calls : Callable(c)
  /\ \A calls \in ModeCalls : \A c \in calls : Callable(c)

VARIABLE component

vars == <<component, gradVars, poolVars, leaseVars, cacheVars, torchVars>>

Init ==
  /\ component \in {"grad mode", "pool", "leases", "cache", "arguments", "modes"}
  /\ GradInit /\ PoolInit /\ LeaseInit /\ CacheInit /\ TorchInit

GradModeStep ==
  /\ component = "grad mode"
  /\ \E t \in Threads : GradStep(t)
  /\ UNCHANGED <<component, poolVars, leaseVars, cacheVars, torchVars>>

IntraOpPoolStep ==
  /\ component = "pool"
  /\ \E t \in Callers : PoolStep(t)
  /\ UNCHANGED <<component, gradVars, leaseVars, cacheVars, torchVars>>

BufferLeasesStep ==
  /\ component = "leases"
  /\ LeaseStep
  /\ UNCHANGED <<component, gradVars, poolVars, cacheVars, torchVars>>

CompileCacheStep ==
  /\ component = "cache"
  /\ CacheStep
  /\ UNCHANGED <<component, gradVars, poolVars, leaseVars, torchVars>>

TorchFunctionStep ==
  /\ \/ component = "arguments" /\ TorchStep(ArgumentCalls, 1, ArgumentModes, 2)
     \/ component = "modes" /\ TorchStep(ModeCalls, MaxModeCalls, Modes, MaxFrames)
  /\ UNCHANGED <<component, gradVars, poolVars, leaseVars, cacheVars>>

Next ==
  GradModeStep \/ IntraOpPoolStep \/ BufferLeasesStep \/ CompileCacheStep \/ TorchFunctionStep

Spec == Init /\ [][Next]_vars
=============================================================================
