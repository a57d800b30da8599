----------------------------- MODULE GraphReplay -----------------------------
(***************************************************************************)
(* The graph replay cache of src/src/cuda/replay.rs and its one client,    *)
(* launch_add called by CudaFloat32Storage::add: additions with the same   *)
(* arguments in the same context relaunch one executable graph.  The cache *)
(* shares each executable with its callers through an Arc.  Everything     *)
(* `get` does happens under the CACHE lock and is one step, but the        *)
(* executable it evicts is dropped after the lock.                         *)
(*                                                                         *)
(* The driver is external: building a graph, a launch or a wait may fail,  *)
(* and so may the destruction of an executable.  A context that was just   *)
(* pushed can be popped.                                                   *)
(***************************************************************************)
EXTENDS Integers, Sequences, SequencesExt

CONSTANTS Threads,
          Contexts,     \* the primary contexts, one per device
          Args,         \* operand addresses and element count, as one value
          Graphs,       \* handles of executables the driver may return
          Limit,        \* LIMIT: 64 in the code
          Home,         \* the context each thread is in on its own
          None          \* no executable

ASSUME ReplayConstants ==
  /\ Limit \in Nat \ {0} /\ None \notin Graphs
  /\ Home \in [Threads -> Contexts]

VARIABLES
  seen,         \* CACHE.seen: recent keys and how often they were asked for
  entries,      \* CACHE.entries: keys and their executables, oldest first
  built,        \* external: what each handle was built from, Free if nothing
  pc,           \* where each addition is
  key,          \* the key of each addition
  kept,         \* the Arc each addition holds, `keepalive` in the code
  retired,      \* the Arc of an evicted entry on its way out
  forgotten,    \* executables with an Arc given to mem::forget
  stranded,     \* ghost: executables the driver refused to destroy
  stack,        \* external: the driver's context stack of each thread
  flying,       \* ghost: what each thread launched and has not waited for
  doubtful,     \* ghost: executables of work that may never have completed
  asked         \* ghost: how often each key was asked for, up to 3

vars == <<seen, entries, built, pc, key, kept, retired, forgotten, stranded,
          stack, flying, doubtful, asked>>

\* A function handle belongs to one context, so a key does too.
Key == [context : Contexts, args : Args]
Free == [state |-> "free"]

Init ==
  /\ seen = <<>> /\ entries = <<>>
  /\ built = [g \in Graphs |-> Free]
  /\ pc = [t \in Threads |-> "idle"]
  /\ key = [t \in Threads |-> None]
  /\ kept = [t \in Threads |-> None] /\ retired = [t \in Threads |-> None]
  /\ forgotten = {} /\ stranded = {}
  /\ stack = [t \in Threads |-> <<Home[t]>>]
  /\ flying = [t \in Threads |-> None] /\ doubtful = {}
  /\ asked = [k \in Key |-> 0]

-----------------------------------------------------------------------------
Goto(t, label) == pc' = [pc EXCEPT ![t] = label]

\* The context the thread is in, and the stack once it is in another.
Current(t) == Last(stack[t])
Switched(contexts, context) == Append(Front(contexts), context)

Upto3(n) == IF n < 3 THEN n ELSE 3

Cached == {entries[i].graph : i \in DOMAIN entries}
IsEntry(t, i) == entries[i].key = key[t] /\ \A j \in 1..(i - 1) : entries[j].key # key[t]
IsSeen(t, i) == seen[i].key = key[t] /\ \A j \in 1..(i - 1) : seen[j].key # key[t]

\* Someone other than t still has an Arc of g.
Shared(t, g) ==
  \/ g \in Cached \cup forgotten
  \/ \E u \in Threads \ {t} : g \in {kept[u], retired[u]}

\* Mutant: the context pushed for the destruction stays.
StillPushed(contexts) == contexts
Popped(contexts) == Front(contexts)

\* Mutant: the executable is not destroyed with its last Arc.
DropArcOnly(t, g) == UNCHANGED <<built, stranded, stack>>

(***************************************************************************)
(* t drops its Arc of g.  The last one destroys the executable inside the  *)
(* executable's own context; if that cannot be entered it is stranded.     *)
(***************************************************************************)
DropArc(t, g) ==
  IF Shared(t, g)
  THEN UNCHANGED <<built, stranded, stack>>
  ELSE \/ /\ built' = [built EXCEPT ![g] = Free]
          /\ stack' = [stack EXCEPT ![t] = Popped(Append(@, built[g].context))]
          /\ UNCHANGED stranded
       \/ /\ stranded' = stranded \cup {g}
          /\ UNCHANGED <<built, stack>>

-----------------------------------------------------------------------------
\* add: the arguments are checked, the output allocated, the device guarded.
Begin(t) ==
  /\ pc[t] = "idle"
  /\ \E k \in Key :
       /\ key' = [key EXCEPT ![t] = k]
       /\ stack' = [stack EXCEPT ![t] = Switched(@, k.context)]
  /\ Goto(t, "get")
  /\ UNCHANGED <<seen, entries, built, kept, retired, forgotten, stranded,
                 flying, doubtful, asked>>

\* get returns a clone of the entry's Arc.
Hit(t) ==
  /\ \E i \in DOMAIN entries :
       IsEntry(t, i) /\ kept' = [kept EXCEPT ![t] = entries[i].graph]
  /\ Goto(t, "acquire")
  /\ UNCHANGED <<seen, entries, built, retired>>

\* A key not seen lately is remembered; the kernel is launched directly.
Unseen(t) ==
  /\ \A i \in DOMAIN seen : seen[i].key # key[t]
  /\ seen' = Append(IF Len(seen) = Limit THEN Tail(seen) ELSE seen,
                    [key |-> key[t], hits |-> 1])
  /\ Goto(t, "wait")
  /\ UNCHANGED <<entries, built, kept, retired>>

\* Mutant: the second request builds.
RepeatedOnce(hits) == hits >= 2
Repeated(hits) == hits >= 3

Full == Len(entries) = Limit

(***************************************************************************)
(* A key seen before is counted.  The third request builds an executable,  *)
(* which may push out the oldest entry; if the driver cannot build one,    *)
(* the kernel is launched directly, now and at the next request.           *)
(***************************************************************************)
Counted(t) ==
  \E i \in DOMAIN seen :
    LET hits == Upto3(seen[i].hits + 1) IN
    /\ IsSeen(t, i)
    /\ seen' = [seen EXCEPT ![i].hits = hits]
    /\ \/ /\ Goto(t, "wait")
          /\ UNCHANGED <<entries, built, kept, retired>>
       \/ /\ Repeated(hits)
          /\ \E g \in {h \in Graphs : built[h] = Free} :
               /\ built' = [built EXCEPT ![g] =
                              [state |-> "built", key |-> key[t],
                               context |-> Current(t)]]
               /\ entries' = Append(IF Full THEN Tail(entries) ELSE entries,
                                    [key |-> key[t], graph |-> g])
               /\ kept' = [kept EXCEPT ![t] = g]
               /\ retired' = [retired EXCEPT ![t] =
                                IF Full THEN Head(entries).graph ELSE None]
               /\ Goto(t, IF Full THEN "retire" ELSE "acquire")

\* replay::get, under the CACHE lock.
Get(t) ==
  /\ pc[t] = "get"
  /\ asked' = [asked EXCEPT ![key[t]] = Upto3(@ + 1)]
  /\ \/ Hit(t)
     \/ /\ \A i \in DOMAIN entries : entries[i].key # key[t]
        /\ Unseen(t) \/ Counted(t)
  /\ UNCHANGED <<key, forgotten, stranded, stack, flying, doubtful>>

\* No graph API, or no kernel: the wait follows a direct launch or none.
Bypass(t) ==
  /\ pc[t] = "get"
  /\ Goto(t, "wait")
  /\ UNCHANGED <<seen, entries, built, key, kept, retired, forgotten, stranded,
                 stack, flying, doubtful, asked>>

\* drop(retired), after the lock.
Retire(t) ==
  /\ pc[t] = "retire"
  /\ DropArc(t, retired[t])
  /\ retired' = [retired EXCEPT ![t] = None]
  /\ Goto(t, "acquire")
  /\ UNCHANGED <<seen, entries, key, kept, forgotten, flying, doubtful, asked>>

\* Mutant: the lock's guard is forgotten along with the Arc.
LockForgotten(t) ==
  /\ kept[t] \notin forgotten
  /\ \A u \in Threads \ {t} : ~(pc[u] = "submit" /\ kept[u] = kept[t])

\* No other thread is inside the launch of the same executable.
LaunchLock(t) == \A u \in Threads \ {t} : ~(pc[u] = "submit" /\ kept[u] = kept[t])

\* Replay::launch: the executable's launch_lock is free.
Acquire(t) ==
  /\ pc[t] = "acquire"
  /\ LaunchLock(t)
  /\ Goto(t, "submit")
  /\ UNCHANGED <<seen, entries, built, key, kept, retired, forgotten, stranded,
                 stack, flying, doubtful, asked>>

\* Mutant: the Arc is gone when launch_add returns.
SubmitAndDrop(t) ==
  /\ pc[t] = "submit"
  /\ flying' = [flying EXCEPT ![t] = kept[t]]
  /\ DropArc(t, kept[t])
  /\ kept' = [kept EXCEPT ![t] = None]
  /\ Goto(t, "wait")
  /\ UNCHANGED <<seen, entries, key, retired, forgotten, doubtful, asked>>

\* cuGraphLaunch, whatever its status, and the lock is released.
Submit(t) ==
  /\ pc[t] = "submit"
  /\ flying' = [flying EXCEPT ![t] = kept[t]]
  /\ Goto(t, "wait")
  /\ UNCHANGED <<seen, entries, built, key, kept, retired, forgotten, stranded,
                 stack, doubtful, asked>>

\* Mutant: the Arc is dropped like any other.
DroppedInDoubt(t) == Goto(t, "drop") /\ UNCHANGED <<kept, forgotten>>

\* mem::forget of the Arc, if there is one.
Forget(t) ==
  /\ kept' = [kept EXCEPT ![t] = None]
  /\ forgotten' = forgotten \cup ({kept[t]} \ {None})
  /\ Goto(t, "leave")

\* add waits for the stream, after a launch of either kind and its failures.
Wait(t) ==
  /\ pc[t] = "wait"
  /\ flying' = [flying EXCEPT ![t] = None]
  /\ \/ /\ Goto(t, IF kept[t] = None THEN "leave" ELSE "drop")
        /\ UNCHANGED <<kept, forgotten, doubtful>>
     \/ /\ doubtful' = doubtful \cup ({flying[t]} \ {None})
        /\ Forget(t)
  /\ UNCHANGED <<seen, entries, built, key, retired, stranded, stack, asked>>

\* drop(replay).
Drop(t) ==
  /\ pc[t] = "drop"
  /\ DropArc(t, kept[t])
  /\ kept' = [kept EXCEPT ![t] = None]
  /\ Goto(t, "leave")
  /\ UNCHANGED <<seen, entries, key, retired, forgotten, flying, doubtful, asked>>

\* The device guard drops.
Leave(t) ==
  /\ pc[t] = "leave"
  /\ stack' = [stack EXCEPT ![t] = Switched(@, Home[t])]
  /\ key' = [key EXCEPT ![t] = None]
  /\ Goto(t, "idle")
  /\ UNCHANGED <<seen, entries, built, kept, retired, forgotten, stranded,
                 flying, doubtful, asked>>

Step(t) ==
  \/ Get(t) \/ Bypass(t) \/ Retire(t) \/ Acquire(t) \/ Submit(t) \/ Wait(t)
  \/ Drop(t) \/ Leave(t)

Next == \E t \in Threads : Begin(t) \/ Step(t)

Spec == Init /\ [][Next]_vars

\* A thread inside an addition is scheduled; a free lock need not be won.
FairSpec == Spec /\ \A t \in Threads : WF_vars(Step(t))

-----------------------------------------------------------------------------
(***************************************************************************)
(* Properties.                                                             *)
(***************************************************************************)

(***************************************************************************)
(* Last ownership is released only after all callers have waited: an       *)
(* executable that is cached, about to be launched, running, or of unknown *)
(* completion is not destroyed, whoever evicts it.                         *)
(***************************************************************************)
InUse ==
  Cached \cup doubtful \cup ({kept[t] : t \in Threads} \ {None})
         \cup ({flying[t] : t \in Threads} \ {None})

InUseNotDestroyed == \A g \in InUse : built[g] # Free

(***************************************************************************)
(* A launch replays what was asked for, in the context it was built in,    *)
(* also right after this thread destroyed an executable of another one.    *)
(***************************************************************************)
LaunchesWhatWasAsked ==
  \A t \in Threads : pc[t] = "submit" =>
    /\ built[kept[t]].key = key[t]
    /\ built[kept[t]].context = Current(t)
    /\ Current(t) = key[t].context

(***************************************************************************)
(* Both lists stay within LIMIT and name a key, and an executable, once,   *)
(* although several threads may ask for one key for the third time; and    *)
(* "Build only repeated keys": not before the third request of all threads.*)
(***************************************************************************)
ReplayBounded ==
  /\ Len(seen) <= Limit /\ Len(entries) <= Limit
  /\ \A i, j \in DOMAIN seen : seen[i].key = seen[j].key => i = j
  /\ \A i, j \in DOMAIN entries :
       entries[i].key = entries[j].key \/ entries[i].graph = entries[j].graph
         => i = j
  /\ \A g \in Graphs : built[g] # Free => asked[built[g].key] = 3

(***************************************************************************)
(* Every executable the driver has belongs to the cache or an addition; or *)
(* it is quarantined, or could not be destroyed.                           *)
(***************************************************************************)
NoneLeaks ==
  \A g \in Graphs : built[g] # Free =>
    \/ g \in Cached \cup forgotten \cup stranded
    \/ \E t \in Threads : g \in {kept[t], retired[t]}

(***************************************************************************)
(* An addition returns once the other threads have stopped adding.  While  *)
(* they go on, the launch lock may pass it by: std's Mutex is not fair.    *)
(***************************************************************************)
AdditionsReturn ==
  \A t \in Threads :
    <>[](\A u \in Threads \ {t} : pc[u] = "idle")
      => (pc[t] # "idle" ~> pc[t] = "idle")
=============================================================================
