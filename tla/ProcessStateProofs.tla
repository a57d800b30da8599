------------------------- MODULE ProcessStateProofs -------------------------
(***************************************************************************)
(* What ProcessState keeps true of each of its components, for every       *)
(* number of threads, pools, buffers, calls and modes.                     *)
(***************************************************************************)
EXTENDS ProcessState, RowSumsProofs

-----------------------------------------------------------------------------
(***************************************************************************)
(* A step of one component leaves the variables of the others alone.       *)
(***************************************************************************)
LEMMA OneComponent ==
  [Next]_vars => /\ [\E t \in Threads : GradStep(t)]_gradVars
                 /\ [\E t \in Callers : PoolStep(t)]_poolVars
                 /\ [LeaseStep]_leaseVars
                 /\ [CacheStep]_cacheVars
BY DEF Next, vars, GradModeStep, IntraOpPoolStep, BufferLeasesStep,
       CompileCacheStep, TorchFunctionStep

-----------------------------------------------------------------------------
(***************************************************************************)
(* Leased buffers.                                                         *)
(***************************************************************************)
LeaseTypes ==
  /\ pointer \in Seq({"held", "freed", "null"})
  /\ available \in Seq(DOMAIN pointer)
  /\ DOMAIN live \subseteq DOMAIN pointer
  /\ \A b \in DOMAIN live : live[b] \in DOMAIN leases
  /\ leases \in Seq([buffer : Nat, released : BOOLEAN])
  /\ closed \in BOOLEAN
  /\ frees \in Seq(Nat) /\ DOMAIN frees = DOMAIN pointer

LeaseInv == LeaseTypes /\ LeasesExclusive

\* The pool has allocated nothing yet: it has nothing to lease either.
LEMMA NothingLeased ==
  ASSUME LeaseInv, pointer = <<>>
  PROVE  /\ DOMAIN live = {} /\ available = <<>>
         /\ \A l \in DOMAIN leases : leases[l].released
<1>1. DOMAIN pointer = {}
  OBVIOUS
<1>2. DOMAIN live = {}
  BY <1>1 DEF LeaseInv, LeaseTypes
<1>3. available = <<>>
  BY <1>1 DEF LeaseInv, LeaseTypes
<1>4. \A l \in DOMAIN leases : leases[l].released
  BY <1>2 DEF LeaseInv, LeasesExclusive, Active
<1> QED BY <1>2, <1>3, <1>4

LEMMA PreallocateLeases ==
  ASSUME LeaseInv, NEW capacity \in 0..Buffers,
         preallocate(capacity) \/ PreallocateFails(capacity)
  PROVE  LeaseInv'
<1>0. capacity \in Nat
  BY LeaseConstants
<1>1. /\ DOMAIN live = {} /\ available = <<>>
      /\ \A l \in DOMAIN leases : leases[l].released
  BY NothingLeased DEF preallocate, PreallocateFails
<1>2. CASE preallocate(capacity)
  <2>1. /\ pointer' = [i \in 1..capacity |-> "held"]
        /\ frees' = [i \in 1..capacity |-> 0]
        /\ available' = [i \in 1..capacity |-> i]
    BY <1>0, <1>2 DEF preallocate, Allocated, LeaseInv, LeaseTypes
  <2>2. LeaseTypes'
    BY <1>0, <1>1, <1>2, <2>1 DEF preallocate, LeaseInv, LeaseTypes
  <2>3. IsInjective(available')
    BY <1>0, <2>1 DEF IsInjective
  <2>4. LeasesExclusive'
    BY <1>0, <1>1, <1>2, <2>1, <2>3 DEF preallocate, LeasesExclusive, LeaseInv
  <2> QED BY <2>2, <2>4 DEF LeaseInv
<1>3. CASE PreallocateFails(capacity)
  <2>1. LeaseTypes'
    BY <1>0, <1>1, <1>3 DEF PreallocateFails, LeaseInv, LeaseTypes
  <2>2. LeasesExclusive'
    BY <1>0, <1>1, <1>3 DEF PreallocateFails, LeasesExclusive, LeaseInv, IsInjective
  <2> QED BY <2>1, <2>2 DEF LeaseInv
<1> QED BY <1>2, <1>3
\* A buffer nobody leases gets the new lease, and the others keep theirs.
NewLease(b, l) ==
  /\ leases' \in Seq([buffer : Nat, released : BOOLEAN])
  /\ DOMAIN leases' = DOMAIN leases \cup {l} /\ l \notin DOMAIN leases
  /\ leases'[l] = [buffer |-> b, released |-> FALSE]
  /\ \A k \in DOMAIN leases : leases'[k] = leases[k]
  /\ DOMAIN live' = DOMAIN live \cup {b} /\ live'[b] = l
  /\ \A c \in DOMAIN live : live'[c] = live[c]

LEMMA HandOutLease ==
  ASSUME LeaseInv, NEW b \in Nat, b \notin DOMAIN live, HandOut(b)
  PROVE  NewLease(b, Len(leases) + 1)
<1>1. /\ leases \in Seq([buffer : Nat, released : BOOLEAN])
      /\ leases' = Append(leases, [buffer |-> b, released |-> FALSE])
  BY DEF HandOut, LeaseInv, LeaseTypes
<1>2. live' = [c \in DOMAIN live \cup {b} |->
                 IF c = b THEN Len(leases) + 1 ELSE live[c]]
  BY DEF HandOut
<1>3. /\ DOMAIN live' = DOMAIN live \cup {b} /\ live'[b] = Len(leases) + 1
      /\ \A c \in DOMAIN live : live'[c] = live[c]
  BY <1>2
<1> QED BY <1>1, <1>3 DEF NewLease

\* What LeasesExclusive says of leases alone.
LeaseFacts ==
  /\ \A b \in DOMAIN live : leases[live[b]] = [buffer |-> b, released |-> FALSE]
  /\ \A l \in DOMAIN leases : ~leases[l].released => Active(l)

LEMMA HandOutFacts ==
  ASSUME LeaseInv, NEW b \in Nat, b \notin DOMAIN live, NEW l, NewLease(b, l)
  PROVE  LeaseFacts'
<1>1. ASSUME NEW c \in DOMAIN live'
      PROVE  leases'[live'[c]] = [buffer |-> c, released |-> FALSE]
  <2>1. CASE c \in DOMAIN live
    <3>1. leases[live[c]] = [buffer |-> c, released |-> FALSE]
      BY <2>1 DEF LeaseInv, LeasesExclusive
    <3> QED BY <2>1, <3>1 DEF LeaseInv, LeaseTypes, NewLease
  <2>2. CASE c = b
    BY <2>2 DEF NewLease
  <2> QED BY <2>1, <2>2 DEF NewLease
<1>2. ASSUME NEW k \in DOMAIN leases', ~leases'[k].released PROVE Active(k)'
  <2>1. CASE k \in DOMAIN leases
    <3>1. leases[k].buffer \in DOMAIN live /\ live[leases[k].buffer] = k
      BY <1>2, <2>1 DEF LeaseInv, LeasesExclusive, Active, NewLease
    <3> QED BY <2>1, <3>1 DEF Active, NewLease
  <2>2. CASE k = l
    BY <2>2 DEF Active, NewLease
  <2> QED BY <2>1, <2>2 DEF NewLease
<1> QED BY <1>1, <1>2 DEF LeaseFacts

LEMMA AcquireLeases ==
  ASSUME LeaseInv, AcquireIdle \/ AcquireNew \/ AcquireFails
  PROVE  LeaseInv'
<1>0. pointer \in Seq({"held", "freed", "null"}) /\ frees \in Seq(Nat)
      /\ DOMAIN frees = DOMAIN pointer
      /\ available \in Seq(DOMAIN pointer) /\ DOMAIN pointer = 1..Len(pointer)
      /\ Len(frees) = Len(pointer)
  BY DEF LeaseInv, LeaseTypes
<1>1. CASE AcquireIdle
  <2> DEFINE b == Last(available)
  <2>1. /\ b \in DOMAIN pointer /\ Front(available) \in Seq(DOMAIN pointer)
        /\ Range(available) = {b} \cup Range(Front(available))
        /\ IsInjective(Front(available)) /\ b \notin Range(Front(available))
    BY <1>0, <1>1, FrontBlocks DEF AcquireIdle, LeaseInv, LeasesExclusive
  <2>2. \A c \in Range(available) : c \notin DOMAIN live /\ pointer[c] = "held"
    BY DEF LeaseInv, LeasesExclusive, Range
  <2>3. HandOut(b) /\ b \notin DOMAIN live /\ b \in Nat /\ pointer[b] = "held"
    BY <1>0, <1>1, <2>1, <2>2 DEF AcquireIdle
  <2> HIDE DEF b
  <2>0. PICK l : NewLease(b, l)
    BY <2>3, HandOutLease
  <2>4. LeaseFacts'
    BY <2>0, <2>3, HandOutFacts
  <2>5. LeaseTypes'
    BY <1>0, <1>1, <2>0, <2>1 DEF NewLease, AcquireIdle, LeaseInv, LeaseTypes
  <2>6. DOMAIN live' = DOMAIN live \cup {b}
    BY <2>0 DEF NewLease
  <2>7. \A c \in Range(available') : c \notin DOMAIN live' /\ pointer'[c] = "held"
    BY <1>1, <2>1, <2>2, <2>6 DEF AcquireIdle
  <2>8. LeasesExclusive'
    BY <1>1, <2>1, <2>3, <2>4, <2>6, <2>7
    DEF AcquireIdle, LeaseInv, LeasesExclusive, LeaseFacts, Range
  <2> QED BY <2>5, <2>8 DEF LeaseInv
<1>2. CASE AcquireNew
  <2> DEFINE b == Len(pointer) + 1
  <2>1. /\ pointer' \in Seq({"held", "freed", "null"}) /\ frees' \in Seq(Nat)
        /\ DOMAIN pointer' = DOMAIN pointer \cup {b} /\ pointer'[b] = "held"
        /\ \A c \in DOMAIN pointer : pointer'[c] = pointer[c]
        /\ DOMAIN frees' = DOMAIN pointer' /\ frees'[b] = 0
        /\ \A c \in DOMAIN pointer : frees'[c] = frees[c]
    <3>1. /\ pointer' = pointer \o <<"held">> \o <<>>
          /\ frees' = frees \o <<0>>
      BY <1>2 DEF AcquireNew, Allocated
    <3> QED BY <1>0, <3>1
  <2>2. HandOut(b) /\ b \in Nat /\ b \notin DOMAIN pointer /\ b \notin DOMAIN live
    BY <1>0, <1>2 DEF AcquireNew, LeaseInv, LeaseTypes
  <2> HIDE DEF b
  <2>0. PICK l : NewLease(b, l)
    BY <2>2, HandOutLease
  <2>3. LeaseFacts'
    BY <2>0, <2>2, HandOutFacts
  <2>4. DOMAIN live' = DOMAIN live \cup {b}
    BY <2>0 DEF NewLease
  <2>5. LeaseTypes'
    BY <1>0, <1>2, <2>0, <2>1 DEF NewLease, AcquireNew, LeaseInv, LeaseTypes
  <2>6. LeasesExclusive'
    BY <1>0, <1>2, <2>1, <2>2, <2>3, <2>4
    DEF AcquireNew, LeaseInv, LeaseTypes, LeasesExclusive, LeaseFacts
  <2> QED BY <2>5, <2>6 DEF LeaseInv
<1>3. CASE AcquireFails
  <2> DEFINE b == Len(pointer) + 1
  <2>1. /\ pointer' \in Seq({"held", "freed", "null"}) /\ frees' \in Seq(Nat)
        /\ DOMAIN pointer' = DOMAIN pointer \cup {b} /\ pointer'[b] = "null"
        /\ \A c \in DOMAIN pointer : pointer'[c] = pointer[c]
        /\ DOMAIN frees' = DOMAIN pointer' /\ frees'[b] = 0
        /\ \A c \in DOMAIN pointer : frees'[c] = frees[c]
    <3>1. /\ pointer' = pointer \o <<>> \o <<"null">>
          /\ frees' = frees \o <<0>>
      BY <1>3 DEF AcquireFails, Allocated
    <3> QED BY <1>0, <3>1
  <2> HIDE DEF b
  <2>2. LeaseTypes'
    BY <1>3, <2>1 DEF AcquireFails, LeaseInv, LeaseTypes
  <2>3. LeasesExclusive'
    BY <1>0, <1>3, <2>1
    DEF AcquireFails, LeaseInv, LeaseTypes, LeasesExclusive, Active
  <2> QED BY <2>2, <2>3 DEF LeaseInv
<1> QED BY <1>1, <1>2, <1>3
\* Closing buffers frees those that hold memory, and frees them once.
Freed(bs) ==
  /\ pointer' \in Seq({"held", "freed", "null"}) /\ frees' \in Seq(Nat)
  /\ DOMAIN pointer' = DOMAIN pointer /\ DOMAIN frees' = DOMAIN pointer
  /\ \A b \in DOMAIN pointer :
       /\ pointer'[b] = "held" <=> pointer[b] = "held" /\ b \notin bs
       /\ frees'[b] = IF pointer'[b] = "freed" THEN 1 ELSE 0

LEMMA CloseFrees ==
  ASSUME LeaseInv, NEW bs, CloseBuffers(bs)
  PROVE  Freed(bs)
<1>1. /\ DOMAIN pointer = 1..Len(pointer) /\ Len(pointer) \in Nat
      /\ DOMAIN frees = DOMAIN pointer
      /\ \A b \in DOMAIN pointer : pointer[b] \in {"held", "freed", "null"}
      /\ \A b \in DOMAIN pointer : frees[b] \in Nat
      /\ \A b \in DOMAIN pointer : frees[b] = IF pointer[b] = "freed" THEN 1 ELSE 0
  BY DEF LeaseInv, LeaseTypes, LeasesExclusive
<1> DEFINE freed == {b \in bs \cap DOMAIN pointer : pointer[b] = "held"}
<1>2. /\ pointer' = [b \in DOMAIN pointer |-> IF b \in freed THEN "freed" ELSE pointer[b]]
      /\ frees' = [b \in DOMAIN pointer |-> IF b \in freed THEN frees[b] + 1 ELSE frees[b]]
  BY <1>1 DEF CloseBuffers
<1>3. pointer' \in Seq({"held", "freed", "null"}) /\ frees' \in Seq(Nat)
  BY <1>1, <1>2
<1> QED BY <1>1, <1>2, <1>3 DEF Freed

LEMMA CloseLeases ==
  ASSUME LeaseInv, close
  PROVE  LeaseInv'
<1>1. Freed(NotLeased(DOMAIN pointer))
  BY CloseFrees DEF close
<1>2. LeaseTypes'
  BY <1>1 DEF close, Freed, LeaseInv, LeaseTypes
<1>3. LeasesExclusive'
  BY <1>1 DEF close, Freed, NotLeased, LeaseInv, LeaseTypes, LeasesExclusive,
              Active, IsInjective
<1> QED BY <1>2, <1>3 DEF LeaseInv

LEMMA SurrenderLeases ==
  ASSUME LeaseInv, NEW l \in DOMAIN leases, Surrender(l)
  PROVE  LeaseInv'
<1> DEFINE b == leases[l].buffer
<1>1. Freed({b}) /\ surrendered' = surrendered \cup {b}
      /\ UNCHANGED <<available, live, leases, closed>>
  BY CloseFrees DEF Surrender
<1>2. b \in DOMAIN live
  BY DEF Surrender, LeaseInv, LeasesExclusive, Active
<1> HIDE DEF b
<1>3. LeaseTypes'
  BY <1>1 DEF Freed, LeaseInv, LeaseTypes
<1>4. LeasesExclusive'
  BY <1>1, <1>2 DEF Freed, LeaseInv, LeaseTypes, LeasesExclusive, Active
<1> QED BY <1>3, <1>4 DEF LeaseInv

LEMMA ReleaseLeases ==
  ASSUME LeaseInv, NEW l \in DOMAIN leases, release(l)
  PROVE  LeaseInv'
<1> DEFINE b == leases[l].buffer
<1>0. /\ leases \in Seq([buffer : Nat, released : BOOLEAN])
      /\ DOMAIN live \subseteq DOMAIN pointer /\ available \in Seq(DOMAIN pointer)
  BY DEF LeaseInv, LeaseTypes
<1>1. b \in DOMAIN live /\ live[b] = l /\ b \in DOMAIN pointer
  BY <1>0 DEF release, Active
<1>2. /\ leases' \in Seq([buffer : Nat, released : BOOLEAN])
      /\ DOMAIN leases' = DOMAIN leases /\ leases'[l].released
      /\ \A k \in DOMAIN leases \ {l} : leases'[k] = leases[k]
  <2>1. leases' = [leases EXCEPT ![l].released = TRUE]
    BY DEF release
  <2>2. DOMAIN leases = 1..Len(leases) /\ Len(leases) \in Nat
    BY <1>0
  <2> DEFINE R == [buffer : Nat, released : BOOLEAN]
             after == [leases[l] EXCEPT !.released = TRUE]
  <2>0. leases \in Seq(R)
    BY <1>0
  <2>3. \A k \in DOMAIN leases : leases[k] \in R
    <3> HIDE DEF R
    <3> QED BY <2>0, <2>2
  <2>4. after \in R /\ after.released
    BY <2>3
  <2>5. leases' = [leases EXCEPT ![l] = after]
    BY <2>1
  <2> HIDE DEF R, after
  <2>6. leases' \in Seq(R)
    BY <2>0, <2>2, <2>3, <2>4, <2>5
  <2> QED BY <2>4, <2>5, <2>6 DEF R
<1>3. /\ DOMAIN live' = DOMAIN live \ {b}
      /\ \A c \in DOMAIN live' : live'[c] = live[c]
      /\ GiveBack(b) /\ UNCHANGED <<closed, surrendered>>
  BY DEF release
<1> HIDE DEF b
<1>4. LeaseFacts'
  <2>1. ASSUME NEW c \in DOMAIN live'
        PROVE  leases'[live'[c]] = [buffer |-> c, released |-> FALSE]
    <3>1. /\ leases[live[c]] = [buffer |-> c, released |-> FALSE]
          /\ leases[live[b]] = [buffer |-> b, released |-> FALSE]
          /\ live[c] \in DOMAIN leases
      BY <1>1, <1>3 DEF LeaseInv, LeaseTypes, LeasesExclusive
    <3>2. live[c] # l
      BY <1>1, <1>3, <3>1
    <3> QED BY <1>2, <1>3, <3>1, <3>2
  <2>2. ASSUME NEW k \in DOMAIN leases', ~leases'[k].released PROVE Active(k)'
    <3>1. k # l /\ leases'[k] = leases[k] /\ k \in DOMAIN leases
      BY <1>2, <2>2
    <3>2. leases[k].buffer \in DOMAIN live /\ live[leases[k].buffer] = k
      BY <2>2, <3>1 DEF LeaseInv, LeasesExclusive, Active
    <3>3. leases[k].buffer # b
      BY <1>1, <3>1, <3>2
    <3> QED BY <1>3, <3>1, <3>2, <3>3 DEF Active
  <2> QED BY <2>1, <2>2 DEF LeaseFacts
<1>5. CASE UNCHANGED <<pointer, frees, available>> /\ pointer[b] # "held"
  <2>1. LeaseTypes'
    BY <1>2, <1>3, <1>5 DEF LeaseInv, LeaseTypes
  <2>2. LeasesExclusive'
    BY <1>3, <1>4, <1>5 DEF LeaseInv, LeasesExclusive, LeaseFacts
  <2> QED BY <2>1, <2>2 DEF LeaseInv
<1>6. CASE closed /\ CloseBuffers({b}) /\ UNCHANGED available
  <2>0. Freed({b})
    BY <1>6, CloseFrees
  <2>1. LeaseTypes'
    BY <1>2, <1>3, <1>6, <2>0 DEF Freed, LeaseInv, LeaseTypes
  <2>2. \A c \in DOMAIN live' : pointer'[c] = "held" \/ c \in surrendered'
    BY <1>0, <1>3, <2>0 DEF Freed, LeaseInv, LeasesExclusive
  <2>3. ASSUME NEW i \in DOMAIN available'
        PROVE  available'[i] \notin DOMAIN live' /\ pointer'[available'[i]] = "held"
    <3>1. available[i] \in DOMAIN pointer \ DOMAIN live /\ pointer[available[i]] = "held"
      BY <1>0, <1>6, <2>3 DEF LeaseInv, LeasesExclusive
    <3> QED BY <1>1, <1>3, <1>6, <2>0, <3>1 DEF Freed
  <2>4. \A c \in DOMAIN pointer' : pointer'[c] = "held" => c \in DOMAIN live'
    BY <1>3, <1>6, <2>0 DEF Freed, LeaseInv, LeasesExclusive
  <2>5. LeasesExclusive'
    BY <1>4, <1>6, <2>0, <2>2, <2>3, <2>4
    DEF Freed, LeaseInv, LeasesExclusive, LeaseFacts
  <2> QED BY <2>1, <2>5 DEF LeaseInv
<1>7. CASE /\ pointer[b] = "held" /\ ~closed
           /\ available' = Append(available, b) /\ UNCHANGED <<pointer, frees>>
  <2>1. \A c \in Range(available) : c \notin DOMAIN live /\ pointer[c] = "held"
    BY DEF LeaseInv, LeasesExclusive, Range
  <2>2. b \notin Range(available) /\ IsInjective(available)
    BY <1>1, <2>1 DEF LeaseInv, LeasesExclusive
  <2>3. /\ available' \in Seq(DOMAIN pointer) /\ IsInjective(available')
        /\ Range(available') = Range(available) \cup {b}
    BY <1>0, <1>1, <1>7, <2>2, AppendBlocks
  <2>4. \A c \in Range(available') : c \notin DOMAIN live' /\ pointer'[c] = "held"
    BY <1>3, <1>7, <2>1, <2>3
  <2>5. LeaseTypes'
    BY <1>2, <1>3, <1>7, <2>3 DEF LeaseInv, LeaseTypes
  <2>6. LeasesExclusive'
    <3>1. \A i \in DOMAIN available' :
            available'[i] \notin DOMAIN live' /\ pointer'[available'[i]] = "held"
      BY <2>4 DEF Range
    <3> QED BY <1>3, <1>4, <1>7, <2>3, <3>1 DEF LeaseInv, LeasesExclusive, LeaseFacts
  <2> QED BY <2>5, <2>6 DEF LeaseInv
<1> QED BY <1>3, <1>5, <1>6, <1>7 DEF GiveBack

LEMMA NextLeases == LeaseInv /\ [LeaseStep]_leaseVars => LeaseInv'
<1> SUFFICES ASSUME LeaseInv, [LeaseStep]_leaseVars PROVE LeaseInv'
  OBVIOUS
<1>1. CASE UNCHANGED leaseVars
  BY <1>1 DEF leaseVars, LeaseInv, LeaseTypes, LeasesExclusive, Active
<1> QED BY <1>1, PreallocateLeases, AcquireLeases, CloseLeases, SurrenderLeases,
           ReleaseLeases DEF LeaseStep

LEMMA InitLeases == LeaseInit => LeaseInv
<1> SUFFICES ASSUME LeaseInit PROVE LeaseInv
  OBVIOUS
<1>1. DOMAIN live = {} /\ DOMAIN pointer = {} /\ DOMAIN leases = {}
      /\ DOMAIN available = {} /\ DOMAIN frees = {}
  BY DEF LeaseInit
<1>2. LeaseTypes
  BY <1>1, EmptyBlocks DEF LeaseInit, LeaseTypes
<1>3. LeasesExclusive
  BY <1>1, EmptyBlocks DEF LeaseInit, LeasesExclusive
<1> QED BY <1>2, <1>3 DEF LeaseInv

(***************************************************************************)
(* The invariants that head _cuda_runtime_ownership.py hold in every order *)
(* of leases, releases and closes, for every number of buffers: no buffer  *)
(* is leased twice or freed twice, a leased one keeps its memory when the  *)
(* pool is closed under it, and a closed pool keeps no other.              *)
(***************************************************************************)
THEOREM BuffersLeasedOnce == Spec => []LeasesExclusive
<1>1. Init => LeaseInv
  BY InitLeases DEF Init
<1>2. LeaseInv /\ [Next]_vars => LeaseInv'
  BY NextLeases, OneComponent
<1>3. LeaseInv => LeasesExclusive
  BY DEF LeaseInv
<1> QED BY <1>1, <1>2, <1>3, PTL DEF Spec

-----------------------------------------------------------------------------
(***************************************************************************)
(* Grad mode.  What is kept of the stack s of one thread, given the tokens *)
(* H that its guards and context managers hold, its next token n, what its *)
(* open scopes found, o, and its base mode b: the stack has an entry for   *)
(* every token held, in the order they were opened, and a scope that found *)
(* the one below it on top found the mode that one has now.  A scope never *)
(* found an older one on top than the one below it.                        *)
(***************************************************************************)
Scope == [token : Nat, enabled : BOOLEAN]
Top(s) == IF s = <<>> THEN -1 ELSE Last(s).token
ModeOf(s, b) == IF s = <<>> THEN b ELSE Last(s).enabled
Under(s, i) == IF i = 1 THEN -1 ELSE s[i - 1].token
ModeUnder(s, i, b) == IF i = 1 THEN b ELSE s[i - 1].enabled

Found(s, o, b, i) ==
  LET scope == o[s[i].token]
  IN  /\ scope.over \in Int /\ scope.over >= Under(s, i)
      /\ scope.over = Under(s, i) => scope.mode = ModeUnder(s, i, b)

ScopesOK(s, H, n, o, b) ==
  /\ n \in Nat /\ s \in Seq(Scope) /\ b \in BOOLEAN
  /\ \A i, j \in 1..Len(s) : i < j => s[i].token < s[j].token
  /\ \A i \in 1..Len(s) : s[i].token < n
  /\ {s[i].token : i \in 1..Len(s)} = H
  /\ DOMAIN o = H
  /\ \A i \in 1..Len(s) : Found(s, o, b, i)

LEMMA LastScope ==
  ASSUME NEW s \in Seq(Scope), s # <<>>
  PROVE  /\ Len(s) \in Nat \ {0} /\ Last(s) = s[Len(s)]
         /\ Len(s) \in 1..Len(s) /\ s[Len(s)] \in Scope
BY DEF Last

LEMMA ScopeFields ==
  ASSUME NEW s \in Seq(Scope)
  PROVE  \A i \in 1..Len(s) : s[i].token \in Nat /\ s[i].enabled \in BOOLEAN
<1> SUFFICES ASSUME NEW i \in 1..Len(s)
             PROVE  s[i].token \in Nat /\ s[i].enabled \in BOOLEAN
  OBVIOUS
<1>1. s[i] \in Scope
  OBVIOUS
<1> QED BY <1>1 DEF Scope

LEMMA PushScope ==
  ASSUME NEW s, NEW H, NEW n, NEW o, NEW b, ScopesOK(s, H, n, o, b),
         NEW e \in BOOLEAN, NEW p,
         p = [k \in DOMAIN o \cup {n} |->
                IF k = n THEN [mode |-> ModeOf(s, b), over |-> Top(s)] ELSE o[k]]
  PROVE  ScopesOK(Append(s, [token |-> n, enabled |-> e]), H \cup {n}, n + 1, p, b)
<1> DEFINE entry == [token |-> n, enabled |-> e]
           a == Append(s, entry)
<1>1. /\ n \in Nat /\ s \in Seq(Scope) /\ b \in BOOLEAN /\ Len(s) \in Nat
      /\ \A i \in 1..Len(s) : s[i].token \in Nat /\ s[i].enabled \in BOOLEAN
      /\ \A i \in 1..Len(s) : s[i].token < n
      /\ {s[i].token : i \in 1..Len(s)} = H
  BY ScopeFields DEF ScopesOK
<1>2. entry \in Scope /\ entry.token = n /\ entry.enabled = e
  BY <1>1 DEF Scope
<1> HIDE DEF entry
<1>3. /\ a \in Seq(Scope) /\ Len(a) = Len(s) + 1 /\ a[Len(s) + 1] = entry
      /\ \A i \in 1..Len(s) : a[i] = s[i]
      /\ 1..Len(a) = 1..Len(s) \cup {Len(s) + 1}
  BY <1>1, <1>2
<1> HIDE DEF a
<1>4. \A i, j \in 1..Len(a) : i < j => a[i].token < a[j].token
  BY <1>1, <1>2, <1>3 DEF ScopesOK
<1>5. {a[i].token : i \in 1..Len(a)} = H \cup {n}
  BY <1>1, <1>2, <1>3
<1>6. \A i \in 1..Len(a) : a[i].token < n + 1
  BY <1>1, <1>2, <1>3
<1>7. DOMAIN p = H \cup {n}
  BY DEF ScopesOK
<1>8. ASSUME NEW i \in 1..Len(a) PROVE Found(a, p, b, i)
  <2>1. CASE i \in 1..Len(s)
    <3>1. Found(s, o, b, i) /\ a[i] = s[i] /\ (i # 1 => a[i - 1] = s[i - 1])
      BY <1>1, <1>3, <2>1 DEF ScopesOK
    <3>2. s[i].token # n /\ s[i].token \in DOMAIN o
      BY <1>1, <2>1 DEF ScopesOK
    <3>3. p[s[i].token] = o[s[i].token]
      BY <3>2
    <3> QED BY <3>1, <3>3 DEF Found, Under, ModeUnder
  <2>2. CASE i = Len(s) + 1
    <3>1. p[a[i].token] = [mode |-> ModeOf(s, b), over |-> Top(s)]
      BY <1>2, <1>3, <2>2
    <3>2. CASE s = <<>>
      <4>1. i = 1
        BY <2>2, <3>2
      <4> QED BY <3>1, <3>2, <4>1 DEF Found, Under, ModeUnder, ModeOf, Top
    <3>3. CASE s # <<>>
      <4>1. i # 1 /\ a[i - 1] = Last(s) /\ Last(s).token \in Nat
        BY <1>1, <1>3, <2>2, <3>3, LastScope
      <4> QED BY <3>1, <3>3, <4>1 DEF Found, Under, ModeUnder, ModeOf, Top
    <3> QED BY <3>2, <3>3
  <2> QED BY <1>3, <2>1, <2>2
<1>9. n + 1 \in Nat
  BY <1>1
<1> QED BY <1>1, <1>3, <1>4, <1>5, <1>6, <1>7, <1>8, <1>9 DEF ScopesOK, a, entry

LEMMA SetScope ==
  ASSUME NEW s, NEW H, NEW n, NEW o, NEW b, ScopesOK(s, H, n, o, b),
         NEW e \in BOOLEAN
  PROVE  ScopesOK(Overwritten(s, e), H, n, o, IF s = <<>> THEN e ELSE b)
<1>1. CASE s = <<>>
  BY <1>1 DEF ScopesOK, Overwritten
<1>2. CASE s # <<>>
  <2> DEFINE m == Len(s)
             a == Overwritten(s, e)
  <2>1. /\ s \in Seq(Scope) /\ m \in Nat \ {0} /\ DOMAIN s = 1..m /\ s[m] \in Scope
        /\ \A i \in 1..m : s[i] \in Scope
    BY <1>2 DEF ScopesOK
  <2>2. [s[m] EXCEPT !.enabled = e] \in Scope /\ [s[m] EXCEPT !.enabled = e].token = s[m].token
    BY <2>1 DEF Scope
  <2>3. a = [s EXCEPT ![m] = [s[m] EXCEPT !.enabled = e]]
    BY <1>2 DEF Overwritten
  <2>4. a \in Seq(Scope) /\ Len(a) = m /\ \A i \in 1..m : i # m => a[i] = s[i]
    BY <2>1, <2>2, <2>3
  <2>5. \A i \in 1..m : a[i].token = s[i].token
    BY <2>1, <2>2, <2>3
  <2> HIDE DEF a
  <2>6. ASSUME NEW i \in 1..m PROVE Found(a, o, b, i)
    <3>1. i # 1 => i - 1 \in 1..m /\ i - 1 # m
      BY <2>1
    <3> QED BY <2>4, <2>5, <3>1 DEF ScopesOK, Found, Under, ModeUnder
  <2>7. {a[i].token : i \in 1..m} = {s[i].token : i \in 1..m}
    BY <2>5
  <2> QED BY <1>2, <2>4, <2>5, <2>6, <2>7 DEF ScopesOK, a
<1> QED BY <1>1, <1>2

\* A token held is that of one entry, which is the one to go.
LEMMA WithoutOne ==
  ASSUME NEW s, NEW H, NEW n, NEW o, NEW b, ScopesOK(s, H, n, o, b), NEW k \in H
  PROVE  \E i \in 1..Len(s) : s[i].token = k /\ Without(s, k) = RemoveAt(s, i)
<1>1. PICK i \in 1..Len(s) : s[i].token = k
  BY DEF ScopesOK
<1>2. s \in Seq(Scope) /\ DOMAIN s = 1..Len(s) /\ Len(s) \in Nat
  BY DEF ScopesOK
<1> DEFINE positions == {j \in DOMAIN s : s[j].token = k}
<1>3. ASSUME NEW j \in positions PROVE j = i
  <2>1. j \in 1..Len(s) /\ s[j].token = k /\ k \in Nat
    BY <1>1, <1>2, ScopeFields
  <2>2. ~(i < j) /\ ~(j < i)
    BY <1>1, <2>1 DEF ScopesOK
  <2> QED BY <1>2, <2>1, <2>2
<1>4. positions = {i}
  BY <1>1, <1>2, <1>3
<1>5. Max({i}) = i
  BY DEF Max
<1>6. Without(s, k) = RemoveAt(s, i)
  BY <1>4, <1>5 DEF Without
<1> QED BY <1>1, <1>6

LEMMA CloseScope ==
  ASSUME NEW s, NEW H, NEW n, NEW o, NEW b, ScopesOK(s, H, n, o, b), NEW k \in H,
         NEW p, p = [x \in DOMAIN o \ {k} |-> o[x]]
  PROVE  LET r == Without(s, k)
         IN  /\ ScopesOK(r, H \ {k}, n, p, b)
             /\ IF k # Top(s) THEN ModeOf(r, b) = ModeOf(s, b)
                ELSE Top(r) = o[k].over => ModeOf(r, b) = o[k].mode
<1> DEFINE r == Without(s, k)
           m == Len(s)
<1>1. PICK i \in 1..m : s[i].token = k /\ r = RemoveAt(s, i)
  BY WithoutOne
<1>2. /\ s \in Seq(Scope) /\ m \in Nat \ {0} /\ DOMAIN s = 1..m
      /\ \A j \in 1..m : s[j].token \in Nat /\ s[j].enabled \in BOOLEAN
      /\ \A j, l \in 1..m : j < l => s[j].token < s[l].token
      /\ H = {s[j].token : j \in 1..m}
      /\ DOMAIN o = H /\ n \in Nat /\ b \in BOOLEAN
      /\ \A j \in 1..m : s[j].token < n
      /\ \A j \in 1..m : Found(s, o, b, j)
  BY ScopeFields DEF ScopesOK
<1> HIDE DEF r
<1>3. /\ r \in Seq(Scope) /\ Len(r) = m - 1
      /\ \A j \in 1..(m - 1) : r[j] = IF j < i THEN s[j] ELSE s[j + 1]
  <2>1. i \in DOMAIN s /\ s \in Seq(Scope)
    BY <1>1, <1>2
  <2>2. /\ RemoveAt(s, i) \in Seq(Scope) /\ Len(RemoveAt(s, i)) = Len(s) - 1
        /\ \A j \in 1..(Len(s) - 1) : RemoveAt(s, i)[j] = IF j < i THEN s[j] ELSE s[j + 1]
    BY <2>1, RemovedAt
  <2> QED BY <1>1, <2>2
<1> HIDE DEF m
<1>4. ASSUME NEW j \in 1..(m - 1), NEW l \in 1..(m - 1), j < l
      PROVE  r[j].token < r[l].token
  <2> DEFINE At(x) == IF x < i THEN x ELSE x + 1
  <2>1. At(j) \in 1..m /\ At(l) \in 1..m /\ At(j) < At(l)
    BY <1>1, <1>2, <1>4
  <2>2. r[j] = s[At(j)] /\ r[l] = s[At(l)]
    BY <1>3
  <2> HIDE DEF At
  <2> QED BY <1>2, <2>1, <2>2
<1>5. \A j \in 1..(m - 1) : r[j].token < n /\ r[j].token \in H \ {k}
  <2> SUFFICES ASSUME NEW j \in 1..(m - 1)
               PROVE  r[j].token < n /\ r[j].token \in H \ {k}
    OBVIOUS
  <2>1. PICK l \in 1..m : l # i /\ r[j] = s[l]
    BY <1>1, <1>2, <1>3
  <2>2. s[l].token # k
    BY <1>1, <1>2, <2>1
  <2> QED BY <1>2, <2>1, <2>2
<1>6. {r[j].token : j \in 1..(m - 1)} = H \ {k}
  <2>1. ASSUME NEW x \in H \ {k} PROVE \E j \in 1..(m - 1) : r[j].token = x
    <3>1. PICK l \in 1..m : s[l].token = x /\ l # i
      BY <1>1, <1>2
    <3>2. CASE l < i
      <4>1. l \in 1..(m - 1) /\ r[l] = s[l]
        BY <1>1, <1>2, <1>3, <3>2
      <4> QED BY <3>1, <4>1
    <3>3. CASE l > i
      <4>1. l - 1 \in 1..(m - 1) /\ ~(l - 1 < i) /\ (l - 1) + 1 = l
        BY <1>1, <1>2, <3>3
      <4>2. r[l - 1] = s[l]
        BY <1>3, <4>1
      <4> QED BY <3>1, <4>1, <4>2
    <3> QED BY <1>1, <1>2, <3>1, <3>2, <3>3
  <2> QED BY <1>5, <2>1
<1>7. DOMAIN p = H \ {k} /\ \A x \in H \ {k} : p[x] = o[x]
  BY <1>2
<1>8. ASSUME NEW j \in 1..(m - 1) PROVE Found(r, p, b, j)
  <2>0. p[r[j].token] = o[r[j].token]
    BY <1>5, <1>7
  <2>1. CASE j < i
    <3>1. r[j] = s[j] /\ (j # 1 => r[j - 1] = s[j - 1]) /\ j \in 1..m
      BY <1>1, <1>2, <1>3, <2>1
    <3> QED BY <1>2, <2>0, <3>1 DEF Found, Under, ModeUnder
  <2>2. CASE j = i
    <3>1. r[j] = s[i + 1] /\ i + 1 \in 1..m /\ i + 1 # 1 /\ (i + 1) - 1 = i
      BY <1>1, <1>2, <1>3, <2>2
    <3> DEFINE scope == o[s[i + 1].token]
    <3>2. scope.over \in Int /\ scope.over >= s[i].token
      BY <1>2, <3>1 DEF Found, Under
    <3>3. s[i].token > Under(r, j) /\ Under(r, j) \in Int
      <4>1. CASE i = 1
        BY <1>1, <1>2, <2>2, <4>1 DEF Under
      <4>2. CASE i # 1
        <5>1. i - 1 \in 1..m /\ i - 1 \in 1..(m - 1) /\ r[i - 1] = s[i - 1]
          BY <1>1, <1>2, <1>3, <4>2
        <5> QED BY <1>1, <1>2, <2>2, <4>2, <5>1 DEF Under
      <4> QED BY <4>1, <4>2
    <3>4. s[i].token \in Int
      BY <1>1, <1>2
    <3>5. p[r[j].token] = scope
      BY <2>0, <3>1
    <3> HIDE DEF scope
    <3> QED BY <3>2, <3>3, <3>4, <3>5 DEF Found
  <2>3. CASE j > i
    <3>1. /\ r[j] = s[j + 1] /\ r[j - 1] = s[j] /\ j + 1 \in 1..m
          /\ j # 1 /\ j + 1 # 1 /\ (j + 1) - 1 = j
      <4>1. /\ j - 1 \in 1..(m - 1) /\ ~(j - 1 < i) /\ ~(j < i) /\ (j - 1) + 1 = j
            /\ j + 1 \in 1..m /\ j # 1 /\ j + 1 # 1 /\ (j + 1) - 1 = j
        BY <1>1, <1>2, <2>3
      <4> QED BY <1>3, <4>1
    <3>2. Found(s, o, b, j + 1)
      BY <1>2, <3>1
    <3>3. Under(s, j + 1) = Under(r, j) /\ ModeUnder(s, j + 1, b) = ModeUnder(r, j, b)
      BY <3>1 DEF Under, ModeUnder
    <3> QED BY <2>0, <3>1, <3>2, <3>3 DEF Found
  <2> QED BY <1>1, <1>2, <2>1, <2>2, <2>3
<1>9. ScopesOK(r, H \ {k}, n, p, b)
  BY <1>2, <1>3, <1>4, <1>5, <1>6, <1>7, <1>8 DEF ScopesOK
<1>10. s # <<>> /\ Last(s) = s[m]
  BY <1>1, <1>2 DEF Last, m
<1>11. CASE i = m
  <2>1. Top(s) = k
    BY <1>1, <1>10, <1>11 DEF Top
  <2>2. Top(r) = Under(s, m) /\ ModeOf(r, b) = ModeUnder(s, m, b)
    <3>1. CASE m = 1
      <4>1. r = <<>>
        BY <1>3, <3>1
      <4> QED BY <3>1, <4>1 DEF Top, Under, ModeOf, ModeUnder
    <3>2. CASE m # 1
      <4>1. r # <<>> /\ Last(r) = r[m - 1] /\ m - 1 \in 1..(m - 1) /\ r[m - 1] = s[m - 1]
        BY <1>2, <1>3, <1>11, <3>2 DEF Last
      <4> QED BY <3>2, <4>1 DEF Top, Under, ModeOf, ModeUnder
    <3> QED BY <3>1, <3>2
  <2>3. Found(s, o, b, m)
    BY <1>2
  <2>4. Top(r) = o[k].over => ModeOf(r, b) = o[k].mode
    BY <1>1, <1>11, <2>2, <2>3 DEF Found
  <2> QED BY <1>9, <2>1, <2>4 DEF r
<1>12. CASE i # m
  <2>1. k # Top(s)
    BY <1>1, <1>2, <1>10, <1>12 DEF Top
  <2>2. m # 1 /\ m - 1 \in 1..(m - 1) /\ ~(m - 1 < i) /\ (m - 1) + 1 = m
    BY <1>1, <1>2, <1>12
  <2>3. r # <<>> /\ Last(r) = s[m]
    BY <1>2, <1>3, <2>2 DEF Last
  <2>4. ModeOf(r, b) = ModeOf(s, b)
    BY <1>10, <2>3 DEF ModeOf
  <2> QED BY <1>9, <2>1, <2>4 DEF r
<1> QED BY <1>11, <1>12

\* Who holds the tokens of a thread: its guards g, and for each context c the
\* list q[c], so that each token is held once.
HoldersOK(g, q) ==
  /\ \A c \in Contexts :
       /\ q[c] \in Seq(Nat) /\ IsInjective(q[c])
       /\ Range(q[c]) \cap g = {}
  /\ \A c, d \in Contexts : c # d => Range(q[c]) \cap Range(q[d]) = {}

LEMMA HoldersStep ==
  ASSUME NEW g, NEW q, HoldersOK(g, q), NEW r, NEW c \in Contexts,
         \A d \in Contexts \ {c} : r[d] = q[d],
         r[c] \in Seq(Nat), IsInjective(r[c]), Range(r[c]) \cap g = {},
         \A d \in Contexts \ {c} : Range(r[c]) \cap Range(q[d]) = {}
  PROVE  HoldersOK(g, r)
<1>1. ASSUME NEW d \in Contexts
      PROVE  r[d] \in Seq(Nat) /\ IsInjective(r[d]) /\ Range(r[d]) \cap g = {}
  BY DEF HoldersOK
<1>2. ASSUME NEW d \in Contexts, NEW e \in Contexts, d # e
      PROVE  Range(r[d]) \cap Range(r[e]) = {}
  <2>1. CASE d = c
    <3>1. r[e] = q[e] /\ Range(r[c]) \cap Range(q[e]) = {}
      BY <1>2, <2>1
    <3> QED BY <2>1, <3>1
  <2>2. CASE e = c
    <3>1. r[d] = q[d] /\ Range(r[c]) \cap Range(q[d]) = {}
      BY <1>2, <2>2
    <3> QED BY <2>2, <3>1
  <2>3. CASE d # c /\ e # c
    <3>1. r[d] = q[d] /\ r[e] = q[e] /\ Range(q[d]) \cap Range(q[e]) = {}
      BY <1>2, <2>3 DEF HoldersOK
    <3> QED BY <3>1
  <2> QED BY <2>1, <2>2, <2>3
<1> QED BY <1>1, <1>2 DEF HoldersOK

TokensOf(t) == [c \in Contexts |-> tokens[c][t]]

GradOf(t) ==
  /\ ScopesOK(stack[t], Held(t), token[t], opened[t], base[t])
  /\ HoldersOK(guards[t], TokensOf(t))

GradTypes ==
  /\ DOMAIN base = Threads /\ DOMAIN stack = Threads /\ DOMAIN token = Threads
  /\ DOMAIN guards = Threads /\ DOMAIN opened = Threads
  /\ DOMAIN tokens = Contexts /\ \A c \in Contexts : DOMAIN tokens[c] = Threads

GradInv == GradTypes /\ \A t \in Threads : GradOf(t)

LEMMA HeldRange ==
  ASSUME NEW t \in Threads
  PROVE  Held(t) = guards[t] \cup UNION {Range(TokensOf(t)[c]) : c \in Contexts}
BY DEF Held, TokensOf, ToSet, Range

\* The next token of a thread is held by nobody.
LEMMA FreshToken ==
  ASSUME NEW t \in Threads, GradOf(t)
  PROVE  /\ token[t] \in Nat /\ token[t] \notin Held(t) /\ Held(t) \subseteq Nat
<1>1. /\ token[t] \in Nat /\ stack[t] \in Seq(Scope)
      /\ Held(t) = {stack[t][i].token : i \in 1..Len(stack[t])}
      /\ \A i \in 1..Len(stack[t]) : stack[t][i].token < token[t]
  BY DEF GradOf, ScopesOK
<1>2. \A i \in 1..Len(stack[t]) : stack[t][i].token \in Nat
  BY <1>1, ScopeFields
<1> QED BY <1>1, <1>2

\* A step of t leaves what belongs to other threads alone.
OthersKept(t) ==
  \A u \in Threads \ {t} :
    /\ stack'[u] = stack[u] /\ token'[u] = token[u] /\ guards'[u] = guards[u]
    /\ opened'[u] = opened[u] /\ base'[u] = base[u]
    /\ TokensOf(u)' = TokensOf(u)

LEMMA OthersStay ==
  ASSUME NEW t \in Threads, OthersKept(t), NEW u \in Threads \ {t}, GradOf(u)
  PROVE  GradOf(u)'
<1>1. Held(u)' = Held(u)
  <2>1. \A c \in Contexts : tokens'[c][u] = tokens[c][u]
    BY DEF OthersKept, TokensOf
  <2> QED BY <2>1 DEF Held, OthersKept
<1> QED BY <1>1 DEF GradOf, OthersKept

\* What ClosingRestores says of one thread.
ClosingRestoresOf(t) ==
  \A k \in DOMAIN opened[t] \ DOMAIN opened'[t] :
    IF k # Newest(t) THEN is_grad_enabled(t)' = is_grad_enabled(t)
    ELSE Newest(t)' = opened[t][k].over => is_grad_enabled(t)' = opened[t][k].mode

\* t opens a scope for a token that one of its holders takes.
LEMMA EnterStep ==
  ASSUME GradTypes, NEW t \in Threads, GradOf(t), NEW e \in BOOLEAN,
         enter_grad_mode(t, e), base' = base,
         Held(t)' = Held(t) \cup {token[t]}
  PROVE  /\ ScopesOK(stack'[t], Held(t)', token'[t], opened'[t], base'[t])
         /\ ClosingRestoresOf(t)
<1>1. /\ stack'[t] = Append(stack[t], [token |-> token[t], enabled |-> e])
      /\ token'[t] = token[t] + 1
      /\ opened'[t] = [k \in DOMAIN opened[t] \cup {token[t]} |->
                         IF k = token[t]
                         THEN [mode |-> ModeOf(stack[t], base[t]), over |-> Top(stack[t])]
                         ELSE opened[t][k]]
  BY DEF enter_grad_mode, GradTypes, is_grad_enabled, Newest, ModeOf, Top
<1>2. ScopesOK(stack[t], Held(t), token[t], opened[t], base[t])
  BY DEF GradOf
<1>3. ScopesOK(stack'[t], Held(t) \cup {token[t]}, token[t] + 1, opened'[t], base[t])
  <2> DEFINE s == stack[t]
             H == Held(t)
             n == token[t]
             o == opened[t]
             b == base[t]
             p == opened'[t]
  <2>1. ScopesOK(s, H, n, o, b)
    BY <1>2
  <2>2. p = [k \in DOMAIN o \cup {n} |->
               IF k = n THEN [mode |-> ModeOf(s, b), over |-> Top(s)] ELSE o[k]]
    BY <1>1
  <2> HIDE DEF s, H, n, o, b, p
  <2>3. ScopesOK(Append(s, [token |-> n, enabled |-> e]), H \cup {n}, n + 1, p, b)
    BY <2>1, <2>2, PushScope
  <2> QED BY <1>1, <2>3 DEF s, H, n, o, b, p
<1>4. DOMAIN opened[t] \ DOMAIN opened'[t] = {}
  BY <1>1
<1> QED BY <1>1, <1>3, <1>4 DEF ClosingRestoresOf

LEMMA ExitStep ==
  ASSUME GradTypes, NEW t \in Threads, GradOf(t), NEW k \in Held(t),
         exit_grad_mode(t, k), UNCHANGED <<base, token>>,
         Held(t)' = Held(t) \ {k}
  PROVE  /\ ScopesOK(stack'[t], Held(t)', token'[t], opened'[t], base'[t])
         /\ ClosingRestoresOf(t)
<1>1. /\ stack'[t] = Without(stack[t], k)
      /\ opened'[t] = [o \in DOMAIN opened[t] \ {k} |-> opened[t][o]]
  BY DEF exit_grad_mode, GradTypes
<1>2. ScopesOK(stack[t], Held(t), token[t], opened[t], base[t])
  BY DEF GradOf
<1>3. /\ ScopesOK(stack'[t], Held(t) \ {k}, token[t], opened'[t], base[t])
      /\ IF k # Top(stack[t]) THEN ModeOf(stack'[t], base[t]) = ModeOf(stack[t], base[t])
         ELSE Top(stack'[t]) = opened[t][k].over =>
                ModeOf(stack'[t], base[t]) = opened[t][k].mode
  BY <1>1, <1>2, CloseScope
<1>4. \A x \in DOMAIN opened[t] \ DOMAIN opened'[t] : x = k
  BY <1>1
<1>5. ClosingRestoresOf(t)
  BY <1>3, <1>4 DEF ClosingRestoresOf, Newest, is_grad_enabled, Top, ModeOf
<1> QED BY <1>3, <1>5

LEMMA SetStep ==
  ASSUME GradTypes, NEW t \in Threads, GradOf(t), NEW e \in BOOLEAN,
         set_grad_enabled(t, e), UNCHANGED <<token, opened, guards, tokens>>
  PROVE  /\ ScopesOK(stack'[t], Held(t)', token'[t], opened'[t], base'[t])
         /\ ClosingRestoresOf(t)
<1>1. /\ stack'[t] = Overwritten(stack[t], e)
      /\ base'[t] = IF stack[t] = <<>> THEN e ELSE base[t]
  BY DEF set_grad_enabled, GradTypes
<1>2. ScopesOK(stack[t], Held(t), token[t], opened[t], base[t])
  BY DEF GradOf
<1>3. ScopesOK(stack'[t], Held(t), token[t], opened[t], base'[t])
  BY <1>1, <1>2, SetScope
<1>4. Held(t)' = Held(t)
  BY DEF Held
<1> QED BY <1>3, <1>4 DEF ClosingRestoresOf

GradKept(t) ==
  GradTypes' /\ OthersKept(t) /\ GradOf(t)' /\ ClosingRestoresOf(t)

LEMMA GuardsKept ==
  ASSUME GradTypes, NEW t \in Threads, GradOf(t),
         \/ \E e \in BOOLEAN : NewGuard(t, e)
         \/ \E k \in guards[t] : DropGuard(t, k)
  PROVE  GradKept(t)
<1>0. UNCHANGED <<base, tokens>> /\ \A c \in Contexts : TokensOf(t)'[c] = TokensOf(t)[c]
  BY DEF NewGuard, DropGuard, TokensOf
<1>1. CASE \E e \in BOOLEAN : NewGuard(t, e)
  <2>1. PICK e \in BOOLEAN : NewGuard(t, e)
    BY <1>1
  <2>2. guards' = [guards EXCEPT ![t] = @ \cup {token[t]}] /\ enter_grad_mode(t, e)
    BY <2>1 DEF NewGuard
  <2>3. Held(t)' = Held(t) \cup {token[t]}
    BY <1>0, <2>2 DEF Held, GradTypes
  <2>4. /\ ScopesOK(stack'[t], Held(t)', token'[t], opened'[t], base'[t])
        /\ ClosingRestoresOf(t)
    BY <1>0, <2>2, <2>3, EnterStep
  <2>5. HoldersOK(guards'[t], TokensOf(t)')
    <3>1. \A c \in Contexts : token[t] \notin Range(TokensOf(t)[c])
      BY FreshToken, HeldRange
    <3>2. HoldersOK(guards[t], TokensOf(t)) /\ guards'[t] = guards[t] \cup {token[t]}
      BY <2>2 DEF GradOf, GradTypes
    <3> QED BY <1>0, <3>1, <3>2 DEF HoldersOK
  <2>6. GradTypes' /\ OthersKept(t)
    BY <1>0, <2>2 DEF enter_grad_mode, GradTypes, OthersKept, TokensOf
  <2> QED BY <2>4, <2>5, <2>6 DEF GradKept, GradOf
<1>2. CASE \E k \in guards[t] : DropGuard(t, k)
  <2>1. PICK k \in guards[t] : DropGuard(t, k)
    BY <1>2
  <2>2. /\ guards' = [guards EXCEPT ![t] = @ \ {k}] /\ exit_grad_mode(t, k)
        /\ UNCHANGED token
    BY <2>1 DEF DropGuard
  <2>3. HoldersOK(guards[t], TokensOf(t)) /\ guards'[t] = guards[t] \ {k}
    BY <2>2 DEF GradOf, GradTypes
  <2>4. Held(t)' = Held(t) \ {k} /\ k \in Held(t)
    <3>1. \A c \in Contexts : k \notin ToSet(tokens[c][t])
      BY <2>3 DEF HoldersOK, TokensOf, Range, ToSet
    <3> QED BY <1>0, <2>1, <2>3, <3>1 DEF Held
  <2>5. /\ ScopesOK(stack'[t], Held(t)', token'[t], opened'[t], base'[t])
        /\ ClosingRestoresOf(t)
    BY <1>0, <2>2, <2>4, ExitStep
  <2>6. HoldersOK(guards'[t], TokensOf(t)')
    BY <1>0, <2>3 DEF HoldersOK
  <2>7. GradTypes' /\ OthersKept(t)
    BY <1>0, <2>2 DEF exit_grad_mode, GradTypes, OthersKept, TokensOf
  <2> QED BY <2>5, <2>6, <2>7 DEF GradKept, GradOf
<1> QED BY <1>1, <1>2

LEMMA SettersKept ==
  ASSUME GradTypes, NEW t \in Threads, GradOf(t), NEW s, NEW e \in BOOLEAN,
         NewSetter(t, s, e) \/ UseSetter(t, s, e)
  PROVE  GradKept(t)
<1>1. set_grad_enabled(t, e) /\ UNCHANGED <<token, opened, guards, tokens>>
  BY DEF NewSetter, UseSetter
<1>2. /\ ScopesOK(stack'[t], Held(t)', token'[t], opened'[t], base'[t])
      /\ ClosingRestoresOf(t)
  BY <1>1, SetStep
<1>3. HoldersOK(guards'[t], TokensOf(t)')
  BY <1>1 DEF GradOf, TokensOf
<1>4. GradTypes' /\ OthersKept(t)
  BY <1>1 DEF set_grad_enabled, GradTypes, OthersKept, TokensOf
<1> QED BY <1>2, <1>3, <1>4 DEF GradKept, GradOf

LEMMA ContextsKept ==
  ASSUME GradTypes, NEW t \in Threads, GradOf(t), NEW c \in Contexts,
         EnterContext(t, c) \/ ExitContext(t, c)
  PROVE  GradKept(t)
<1>0. UNCHANGED <<base, guards>> /\ HoldersOK(guards[t], TokensOf(t))
  BY DEF EnterContext, ExitContext, GradOf
<1>1. /\ tokens[c][t] \in Seq(Nat) /\ IsInjective(tokens[c][t])
      /\ Range(tokens[c][t]) \cap guards[t] = {}
      /\ \A d \in Contexts \ {c} : Range(tokens[c][t]) \cap Range(tokens[d][t]) = {}
  BY <1>0 DEF HoldersOK, TokensOf
<1>2. Held(t) = guards[t] \cup UNION {Range(tokens[d][t]) : d \in Contexts}
  BY DEF Held, ToSet, Range
<1>3. Held(t)' = guards'[t] \cup UNION {Range(tokens'[d][t]) : d \in Contexts}
  BY DEF Held, ToSet, Range
<1>4. CASE EnterContext(t, c)
  <2> DEFINE k == token[t]
  <2>1. /\ tokens' = [tokens EXCEPT ![c][t] = Append(@, k)]
        /\ enter_grad_mode(t, Enables[c])
    BY <1>4 DEF EnterContext, push_context_token
  <2>2. /\ tokens'[c][t] = Append(tokens[c][t], k)
        /\ \A d \in Contexts \ {c} : tokens'[d][t] = tokens[d][t]
        /\ \A d \in Contexts, u \in Threads \ {t} : tokens'[d][u] = tokens[d][u]
        /\ DOMAIN tokens' = Contexts /\ \A d \in Contexts : DOMAIN tokens'[d] = Threads
    BY <2>1 DEF GradTypes
  <2>3. k \in Nat /\ k \notin Held(t)
    BY FreshToken
  <2> HIDE DEF k
  <2>4. /\ tokens'[c][t] \in Seq(Nat) /\ IsInjective(tokens'[c][t])
        /\ Range(tokens'[c][t]) = Range(tokens[c][t]) \cup {k}
    BY <1>1, <1>2, <2>2, <2>3, AppendBlocks
  <2>5. Held(t)' = Held(t) \cup {k}
    <3>1. \A d \in Contexts \ {c} : Range(tokens'[d][t]) = Range(tokens[d][t])
      BY <2>2
    <3> QED BY <1>0, <1>2, <1>3, <2>4, <3>1
  <2>6. Enables[c] \in BOOLEAN
    BY GradModeConstants
  <2>7. /\ ScopesOK(stack'[t], Held(t)', token'[t], opened'[t], base'[t])
        /\ ClosingRestoresOf(t)
    BY <1>0, <2>1, <2>5, <2>6, EnterStep DEF k
  <2>8. HoldersOK(guards'[t], TokensOf(t)')
    <3>1. /\ TokensOf(t)'[c] = tokens'[c][t]
          /\ \A d \in Contexts \ {c} : /\ TokensOf(t)'[d] = TokensOf(t)[d]
                                       /\ TokensOf(t)[d] = tokens[d][t]
      BY <2>2 DEF TokensOf
    <3>2. \A d \in Contexts : Range(tokens[d][t]) \subseteq Held(t)
      BY <1>2
    <3>3. guards[t] \subseteq Held(t)
      BY <1>2
    <3>4. \A d \in Contexts \ {c} :
            Range(TokensOf(t)'[c]) \cap Range(TokensOf(t)[d]) = {}
      BY <1>1, <2>3, <2>4, <3>1, <3>2
    <3>5. Range(TokensOf(t)'[c]) \cap guards[t] = {}
      BY <1>1, <2>3, <2>4, <3>1, <3>3
    <3>6. HoldersOK(guards[t], TokensOf(t)')
      BY <1>0, <2>4, <3>1, <3>4, <3>5, HoldersStep
    <3> QED BY <1>0, <3>6
  <2>9. GradTypes' /\ OthersKept(t)
    BY <1>0, <2>1, <2>2 DEF enter_grad_mode, GradTypes, OthersKept, TokensOf
  <2> QED BY <2>7, <2>8, <2>9 DEF GradKept, GradOf
<1>5. CASE ExitContext(t, c)
  <2>1. tokens[c][t] # <<>> /\ pop_context_token(c, t) = t
    BY <1>5 DEF ExitContext, Own, pop_context_token
  <2> DEFINE k == Last(tokens[c][t])
  <2>2. /\ tokens' = [tokens EXCEPT ![c][t] = Front(@)]
        /\ exit_grad_mode(t, k) /\ UNCHANGED token
    BY <1>5, <2>1 DEF ExitContext
  <2>3. /\ tokens'[c][t] = Front(tokens[c][t])
        /\ \A d \in Contexts \ {c} : tokens'[d][t] = tokens[d][t]
        /\ \A d \in Contexts, u \in Threads \ {t} : tokens'[d][u] = tokens[d][u]
        /\ DOMAIN tokens' = Contexts /\ \A d \in Contexts : DOMAIN tokens'[d] = Threads
    BY <2>2 DEF GradTypes
  <2>4. /\ tokens'[c][t] \in Seq(Nat) /\ IsInjective(tokens'[c][t])
        /\ Range(tokens[c][t]) = {k} \cup Range(tokens'[c][t])
        /\ k \notin Range(tokens'[c][t])
    BY <1>1, <2>1, <2>3, FrontBlocks
  <2> HIDE DEF k
  <2>5. Held(t)' = Held(t) \ {k} /\ k \in Held(t)
    BY <1>0, <1>1, <1>2, <1>3, <2>3, <2>4
  <2>6. /\ ScopesOK(stack'[t], Held(t)', token'[t], opened'[t], base'[t])
        /\ ClosingRestoresOf(t)
    BY <1>0, <2>2, <2>5, ExitStep
  <2>7. HoldersOK(guards'[t], TokensOf(t)')
    <3>1. /\ TokensOf(t)'[c] = tokens'[c][t]
          /\ \A d \in Contexts \ {c} : /\ TokensOf(t)'[d] = TokensOf(t)[d]
                                       /\ TokensOf(t)[d] = tokens[d][t]
      BY <2>3 DEF TokensOf
    <3>2. /\ \A d \in Contexts \ {c} :
               Range(TokensOf(t)'[c]) \cap Range(TokensOf(t)[d]) = {}
          /\ Range(TokensOf(t)'[c]) \cap guards[t] = {}
      BY <1>1, <2>4, <3>1
    <3>3. HoldersOK(guards[t], TokensOf(t)')
      BY <1>0, <2>4, <3>1, <3>2, HoldersStep
    <3> QED BY <1>0, <3>3
  <2>8. GradTypes' /\ OthersKept(t)
    BY <1>0, <2>2, <2>3 DEF exit_grad_mode, GradTypes, OthersKept, TokensOf
  <2> QED BY <2>6, <2>7, <2>8 DEF GradKept, GradOf
<1> QED BY <1>4, <1>5

LEMMA NextGrad ==
  GradInv /\ [\E t \in Threads : GradStep(t)]_gradVars =>
    GradInv' /\ [\A t \in Threads : ClosingRestoresOf(t)]_gradVars
<1> SUFFICES ASSUME GradInv, [\E t \in Threads : GradStep(t)]_gradVars
             PROVE  GradInv' /\ [\A t \in Threads : ClosingRestoresOf(t)]_gradVars
  OBVIOUS
<1>1. CASE UNCHANGED gradVars
  BY <1>1 DEF gradVars, GradInv, GradTypes, GradOf, Held, TokensOf
<1>2. ASSUME NEW t \in Threads, GradStep(t)
      PROVE  GradInv' /\ \A u \in Threads : ClosingRestoresOf(u)
  <2>1. GradTypes /\ GradOf(t)
    BY DEF GradInv
  <2>2. GradKept(t)
    BY <1>2, <2>1, GuardsKept, SettersKept, ContextsKept DEF GradStep
  <2>3. ASSUME NEW u \in Threads \ {t} PROVE GradOf(u)' /\ ClosingRestoresOf(u)
    <3>1. GradOf(u) /\ OthersKept(t)
      BY <2>2 DEF GradInv, GradKept
    <3>2. opened'[u] = opened[u]
      BY <3>1 DEF OthersKept
    <3> QED BY <3>1, <3>2, OthersStay DEF ClosingRestoresOf
  <2> QED BY <2>2, <2>3 DEF GradKept, GradInv
<1> QED BY <1>1, <1>2

LEMMA InitGrad == GradInit => GradInv
<1> SUFFICES ASSUME GradInit PROVE GradInv
  OBVIOUS
<1>1. GradTypes
  BY DEF GradInit, GradTypes
<1>2. ASSUME NEW t \in Threads PROVE GradOf(t)
  <2>1. /\ stack[t] = <<>> /\ token[t] = 0 /\ guards[t] = {} /\ base[t] = TRUE
        /\ DOMAIN opened[t] = {} /\ \A c \in Contexts : tokens[c][t] = <<>>
    BY DEF GradInit
  <2>2. Held(t) = {}
    BY <2>1 DEF Held, ToSet
  <2>3. ScopesOK(stack[t], Held(t), token[t], opened[t], base[t])
    <3>1. 1..Len(stack[t]) = {} /\ stack[t] \in Seq(Scope) /\ token[t] \in Nat
      BY <2>1
    <3>2. {stack[t][i].token : i \in 1..Len(stack[t])} = {}
      BY <3>1
    <3> QED BY <2>1, <2>2, <3>1, <3>2 DEF ScopesOK
  <2>4. HoldersOK(guards[t], TokensOf(t))
    BY <2>1, EmptyBlocks DEF HoldersOK, TokensOf
  <2> QED BY <2>3, <2>4 DEF GradOf
<1> QED BY <1>1, <1>2 DEF GradInv

LEMMA GradAlways == Spec => []GradInv
<1>1. Init => GradInv
  BY InitGrad DEF Init
<1>2. GradInv /\ [Next]_vars => GradInv'
  BY NextGrad, OneComponent
<1> QED BY <1>1, <1>2, PTL DEF Spec

\* Ascending tokens are distinct: a stack has as many entries as tokens.
LEMMA ScopesCounted ==
  ASSUME NEW s, NEW H, NEW n, NEW o, NEW b, ScopesOK(s, H, n, o, b)
  PROVE  Len(s) = Cardinality(H)
<1> DEFINE m == Len(s)
           f == [i \in 1..m |-> s[i].token]
<1>1. /\ m \in Nat /\ H = {s[i].token : i \in 1..m}
      /\ \A i \in 1..m : s[i].token \in Nat
      /\ \A i, j \in 1..m : i < j => s[i].token < s[j].token
  BY ScopeFields DEF ScopesOK
<1> HIDE DEF m
<1>2. \A i, j \in 1..m : s[i].token = s[j].token => i = j
  <2> SUFFICES ASSUME NEW i \in 1..m, NEW j \in 1..m, s[i].token = s[j].token
               PROVE  i = j
    OBVIOUS
  <2>1. ~(i < j) /\ ~(j < i)
    BY <1>1
  <2> QED BY <1>1, <2>1
<1>3. f \in Bijection(1..m, H)
  BY <1>1, <1>2 DEF Bijection, Injection, Surjection, IsInjective
<1>4. IsFiniteSet(1..m) /\ Cardinality(1..m) = m
  BY <1>1, FS_Interval
<1>5. ExistsBijection(1..m, H)
  BY <1>3 DEF ExistsBijection
<1> QED BY <1>4, <1>5, FS_Bijection DEF m

(***************************************************************************)
(* exit_grad_mode finds the entry it looks for, whatever threads share a   *)
(* context manager and in whatever order guards are dropped: each scope    *)
(* open on a thread has exactly one owner, which holds its token once.     *)
(***************************************************************************)
THEOREM ScopesOwned == Spec => []ScopesAreOwned
<1>1. GradInv => ScopesAreOwned
  <2> SUFFICES ASSUME GradInv, NEW t \in Threads
               PROVE  /\ {stack[t][i].token : i \in DOMAIN stack[t]} = Held(t)
                      /\ Len(stack[t]) = Cardinality(Held(t))
                      /\ \A c, d \in Contexts :
                           /\ ToSet(tokens[c][t]) \cap guards[t] = {}
                           /\ c # d => ToSet(tokens[c][t]) \cap ToSet(tokens[d][t]) = {}
                           /\ IsInjective(tokens[c][t])
    BY DEF ScopesAreOwned
  <2>1. ScopesOK(stack[t], Held(t), token[t], opened[t], base[t])
        /\ HoldersOK(guards[t], TokensOf(t))
    BY DEF GradInv, GradOf
  <2>2. {stack[t][i].token : i \in DOMAIN stack[t]} = Held(t)
    BY <2>1 DEF ScopesOK
  <2>3. Len(stack[t]) = Cardinality(Held(t))
    BY <2>1, ScopesCounted
  <2>4. \A c \in Contexts : ToSet(tokens[c][t]) = Range(TokensOf(t)[c])
                            /\ tokens[c][t] = TokensOf(t)[c]
    BY DEF TokensOf, ToSet, Range
  <2> QED BY <2>1, <2>2, <2>3, <2>4 DEF HoldersOK
<1> QED BY <1>1, GradAlways, PTL

(***************************************************************************)
(* Leaving the newest scope brings back the mode from before it, whatever  *)
(* set_grad_enabled did inside of it; and leaving another one changes no   *)
(* mode.  The premise, that the scope then newest is the one that was it   *)
(* before, is what dropping guards out of order may break.                 *)
(***************************************************************************)
THEOREM ModeRestored == Spec => ClosingRestores
<1>1. GradInv /\ [Next]_vars => [\A t \in Threads : ClosingRestoresOf(t)]_gradVars
  BY NextGrad, OneComponent
<1> QED BY <1>1, GradAlways, PTL DEF Spec, ClosingRestores, ClosingRestoresOf

-----------------------------------------------------------------------------
(***************************************************************************)
(* The intra-op pool.  A pool exists as long as it is configured or held;  *)
(* a step hands a hold from POOL to a caller, or drops one.                *)
(***************************************************************************)
Retiring == [at : {"retiring"}, pool : Pools \cup {NoPool}]
SumFields == {"at", "sum", "pool", "split", "first", "done"}

Holding(c) == c.at \in {"retiring", "summing"}

PoolTypes ==
  /\ POOL \in Pools \cup {NoPool}
  /\ DOMAIN call = Callers
  /\ \A t \in Callers :
       \/ call[t] = Idle
       \/ call[t] \in Retiring
       \/ /\ DOMAIN call[t] = SumFields /\ call[t].at = "summing"
          /\ call[t].pool \in Pools \cup {NoPool}
  /\ \A job \in jobs : job.caller \in Callers /\ call[job.caller].at = "summing"

PoolInv == PoolTypes /\ PoolOutlivesUse

\* The other callers hold what they held.
LEMMA OwnersOf ==
  ASSUME NEW t \in Callers, PoolTypes, NEW c, call' = [call EXCEPT ![t] = c]
  PROVE  /\ \A p : Owners(p)' = IF Holding(c) /\ c.pool = p THEN Owners(p) \cup {t}
                                ELSE Owners(p) \ {t}
         /\ call'[t] = c /\ \A u \in Callers \ {t} : call'[u] = call[u]
<1>1. /\ call'[t] = c /\ DOMAIN call' = Callers
      /\ \A u \in Callers \ {t} : call'[u] = call[u]
  BY DEF PoolTypes
<1>2. ASSUME NEW p
      PROVE  Owners(p)' = IF Holding(c) /\ c.pool = p THEN Owners(p) \cup {t}
                          ELSE Owners(p) \ {t}
  BY <1>1 DEF Owners, Holding
<1> QED BY <1>1, <1>2

LEMMA SetThreadsPool ==
  ASSUME PoolInv, NEW t \in Callers, NEW threads \in 0..MaxThreads, SetThreads(t, threads)
  PROVE  PoolInv'
<1> DEFINE c == [at |-> "retiring", pool |-> POOL]
<1>1. PICK p \in IF threads = 1 THEN {NoPool} ELSE Pools \ DOMAIN workers :
        /\ POOL' = p
        /\ workers' = IF p = NoPool THEN workers
                      ELSE [q \in DOMAIN workers \cup {p} |->
                              IF q = p THEN threads - 1 ELSE workers[q]]
  BY DEF SetThreads
<1>2. /\ call[t] = Idle /\ call' = [call EXCEPT ![t] = c] /\ jobs' = jobs
      /\ PoolTypes /\ PoolOutlivesUse
      /\ p \in Pools \cup {NoPool}
      /\ NoPool \notin Pools
  BY <1>1, PoolConstants DEF SetThreads, PoolInv
<1>3. c \in Retiring /\ Holding(c) /\ c.pool = POOL
  BY <1>2 DEF Retiring, Holding, PoolTypes
<1> HIDE DEF c
<1>4. /\ \A q : Owners(q)' = IF POOL = q THEN Owners(q) \cup {t} ELSE Owners(q) \ {t}
      /\ call'[t] = c /\ \A u \in Callers \ {t} : call'[u] = call[u]
  <2>1. /\ \A q : Owners(q)' = IF Holding(c) /\ c.pool = q THEN Owners(q) \cup {t}
                               ELSE Owners(q) \ {t}
        /\ call'[t] = c /\ \A u \in Callers \ {t} : call'[u] = call[u]
    BY <1>2, OwnersOf
  <2> QED BY <2>1, <1>3
<1>5. DOMAIN workers' = IF p = NoPool THEN DOMAIN workers ELSE DOMAIN workers \cup {p}
  BY <1>1
<1>6. \A q : t \notin Owners(q)
  BY <1>2 DEF Owners, Idle
<1>7. PoolTypes'
  <2>1. \A job \in jobs : job.caller # t
    BY <1>2 DEF PoolTypes, Idle
  <2>2. DOMAIN call' = Callers
    BY <1>2 DEF PoolTypes
  <2> QED BY <1>1, <1>2, <1>3, <1>4, <2>1, <2>2 DEF PoolTypes
<1>8. PoolOutlivesUse'
  <2>1. ASSUME NEW q \in Pools
        PROVE  q \in DOMAIN workers' <=> (POOL' = q \/ Owners(q)' # {})
    <3>1. q \in DOMAIN workers <=> (POOL = q \/ Owners(q) # {})
      BY <1>2 DEF PoolOutlivesUse
    <3>2. Owners(q)' # {} <=> (POOL = q \/ Owners(q) # {})
      BY <1>4, <1>6
    <3> QED BY <1>1, <1>2, <1>5, <3>1, <3>2
  <2>2. DOMAIN workers' \subseteq Pools
    BY <1>2, <1>5 DEF PoolOutlivesUse
  <2> QED BY <2>1, <2>2 DEF PoolOutlivesUse
<1> QED BY <1>7, <1>8 DEF PoolInv

\* Letting go of a pool, which ends it if nobody else has it.
LEMMA DropPool ==
  ASSUME PoolInv, NEW t \in Callers, Holding(call[t]),
         workers' = Dropped(t, call[t].pool), call' = [call EXCEPT ![t] = Idle],
         \A job \in jobs : job.caller # t,
         UNCHANGED <<POOL, jobs>>
  PROVE  PoolInv'
<1> DEFINE p == call[t].pool
<1>1. /\ \A q : Owners(q)' = Owners(q) \ {t}
      /\ call'[t] = Idle /\ \A u \in Callers \ {t} : call'[u] = call[u]
  <2>1. ~Holding(Idle)
    BY DEF Holding, Idle
  <2> QED BY <2>1, OwnersOf DEF PoolInv
<1>2. PoolTypes'
  <2>1. DOMAIN call' = Callers
    BY DEF PoolInv, PoolTypes
  <2> QED BY <1>1, <2>1 DEF PoolInv, PoolTypes
<1>3. \A q : t \in Owners(q) <=> q = p
  BY DEF Owners, Holding
<1>4. DOMAIN workers' = IF p = NoPool \/ POOL = p \/ Owners(p) # {t} THEN DOMAIN workers
                        ELSE DOMAIN workers \ {p}
  BY DEF Dropped
<1> HIDE DEF p
<1>5. PoolOutlivesUse'
  <2>1. ASSUME NEW q \in Pools
        PROVE  q \in DOMAIN workers' <=> (POOL = q \/ Owners(q) \ {t} # {})
    <3>1. q \in DOMAIN workers <=> (POOL = q \/ Owners(q) # {})
      BY DEF PoolInv, PoolOutlivesUse
    <3>2. CASE q # p
      BY <1>3, <1>4, <3>1, <3>2
    <3>3. CASE q = p
      <4>1. q # NoPool /\ t \in Owners(q)
        BY <1>3, <3>3, PoolConstants
      <4> QED BY <1>4, <3>1, <3>3, <4>1
    <3> QED BY <3>2, <3>3
  <2>2. DOMAIN workers' \subseteq Pools
    BY <1>4 DEF PoolInv, PoolOutlivesUse
  <2> QED BY <1>1, <2>1, <2>2 DEF PoolOutlivesUse
<1> QED BY <1>2, <1>5 DEF PoolInv

LEMMA BeginSumPool ==
  ASSUME PoolInv, NEW t \in Callers, NEW sum, BeginSum(t, sum)
  PROVE  PoolInv'
<1> DEFINE p == Fetched(sum)
           c == [at |-> "summing", sum |-> sum, pool |-> p,
                 split |-> p # NoPool, first |-> FALSE, done |-> {}]
           new == {[caller |-> t, tile |-> tile] :
                     tile \in {u \in Cut(sum, p) : u.start # 0}}
<1>1. /\ call[t] = Idle /\ call' = [call EXCEPT ![t] = c] /\ jobs' = jobs \cup new
      /\ POOL' = POOL /\ workers' = workers /\ PoolTypes /\ PoolOutlivesUse
  BY DEF BeginSum, PoolInv
<1>2. p \in {POOL, NoPool}
  BY DEF Fetched
<1>3. /\ DOMAIN c = SumFields /\ c.at = "summing" /\ Holding(c) /\ c.pool = p
      /\ \A job \in new : job.caller = t
  BY DEF SumFields, Holding
<1> HIDE DEF c, new
<1>4. /\ \A q : Owners(q)' = IF p = q THEN Owners(q) \cup {t} ELSE Owners(q) \ {t}
      /\ call'[t] = c /\ \A u \in Callers \ {t} : call'[u] = call[u]
  <2>1. /\ \A q : Owners(q)' = IF Holding(c) /\ c.pool = q THEN Owners(q) \cup {t}
                               ELSE Owners(q) \ {t}
        /\ call'[t] = c /\ \A u \in Callers \ {t} : call'[u] = call[u]
    BY <1>1, OwnersOf
  <2> QED BY <2>1, <1>3
<1> HIDE DEF p
<1>5. PoolTypes'
  <2>1. DOMAIN call' = Callers /\ p \in Pools \cup {NoPool}
    BY <1>1, <1>2 DEF PoolTypes
  <2> QED BY <1>1, <1>3, <1>4, <2>1 DEF PoolTypes
<1>6. PoolOutlivesUse'
  <2>1. \A q : t \notin Owners(q)
    BY <1>1 DEF Owners, Idle
  <2>2. ASSUME NEW q \in Pools
        PROVE  (POOL = q \/ Owners(q)' # {}) <=> (POOL = q \/ Owners(q) # {})
    BY <1>2, <1>4, <2>1, PoolConstants
  <2> QED BY <1>1, <2>2 DEF PoolOutlivesUse
<1> QED BY <1>5, <1>6 DEF PoolInv

\* Adding a tile to a sum that runs moves no hold.
LEMMA TilePool ==
  ASSUME PoolInv, NEW t \in Callers, call[t].at = "summing", NEW c,
         call' = [call EXCEPT ![t] = c],
         DOMAIN c = SumFields, c.at = "summing", c.pool = call[t].pool,
         jobs' \subseteq jobs, UNCHANGED <<POOL, workers>>
  PROVE  PoolInv'
<1>1. /\ \A q : Owners(q)' = IF c.pool = q THEN Owners(q) \cup {t} ELSE Owners(q) \ {t}
      /\ call'[t] = c /\ \A u \in Callers \ {t} : call'[u] = call[u]
  BY OwnersOf DEF PoolInv, Holding
<1>2. \A q : t \in Owners(q) <=> c.pool = q
  BY DEF Owners
<1>3. \A q : Owners(q)' = Owners(q)
  BY <1>1, <1>2
<1>4. DOMAIN call' = Callers /\ c.pool \in Pools \cup {NoPool}
  <2>1. call[t] # Idle /\ call[t] \notin Retiring
    BY DEF Idle, Retiring
  <2> QED BY <2>1 DEF PoolInv, PoolTypes
<1> QED BY <1>1, <1>3, <1>4 DEF PoolInv, PoolTypes, PoolOutlivesUse

LEMMA SummingFields ==
  ASSUME PoolTypes, NEW t \in Callers, call[t].at = "summing"
  PROVE  DOMAIN call[t] = SumFields
BY DEF PoolTypes, Idle, Retiring

LEMMA NextPool == PoolInv /\ [\E t \in Callers : PoolStep(t)]_poolVars => PoolInv'
<1> SUFFICES ASSUME PoolInv, [\E t \in Callers : PoolStep(t)]_poolVars PROVE PoolInv'
  OBVIOUS
<1>1. CASE UNCHANGED poolVars
  BY <1>1 DEF poolVars, PoolInv, PoolTypes, PoolOutlivesUse, Owners
<1>2. ASSUME NEW t \in Callers, PoolStep(t) PROVE PoolInv'
  <2>1. CASE \E threads \in 0..MaxThreads : SetThreads(t, threads)
    BY <2>1, SetThreadsPool
  <2>2. CASE \E sum \in Sums(t) : BeginSum(t, sum)
    BY <2>2, BeginSumPool
  <2>3. CASE DropOld(t)
    <3>1. \A job \in jobs : job.caller # t
      BY <2>3 DEF DropOld, PoolInv, PoolTypes
    <3> QED BY <2>3, <3>1, DropPool DEF DropOld, Holding
  <2>4. CASE SumFirst(t)
    <3>1. PICK tile : call' = [call EXCEPT ![t].first = TRUE, ![t].done = @ \cup {tile}]
      BY <2>4 DEF SumFirst
    <3> DEFINE c == [call[t] EXCEPT !.first = TRUE, !.done = @ \cup {tile}]
    <3>2. /\ call[t].at = "summing" /\ DOMAIN call[t] = SumFields
          /\ UNCHANGED <<POOL, workers, jobs>>
      BY <2>4, SummingFields DEF SumFirst, PoolInv
    <3>3. DOMAIN c = SumFields /\ c.at = "summing" /\ c.pool = call[t].pool
      BY <3>2 DEF SumFields
    <3>4. call' = [call EXCEPT ![t] = c]
      BY <3>1 DEF PoolInv, PoolTypes
    <3> HIDE DEF c
    <3> QED BY <3>2, <3>3, <3>4, TilePool
  <2>5. CASE EndSum(t)
    BY <2>5, DropPool DEF EndSum, Joined, Holding
  <2>6. ASSUME NEW job \in jobs, job.caller = t, RunJob(job) PROVE PoolInv'
    <3> DEFINE c == [call[t] EXCEPT !.done = @ \cup {job.tile}]
    <3>1. /\ call[t].at = "summing" /\ DOMAIN call[t] = SumFields
          /\ jobs' \subseteq jobs /\ UNCHANGED <<POOL, workers>>
      BY <2>6, SummingFields DEF RunJob, PoolInv, PoolTypes
    <3>2. DOMAIN c = SumFields /\ c.at = "summing" /\ c.pool = call[t].pool
      BY <3>1 DEF SumFields
    <3>3. call' = [call EXCEPT ![t] = c]
      BY <2>6 DEF RunJob
    <3> HIDE DEF c
    <3> QED BY <3>1, <3>2, <3>3, TilePool
  <2> QED BY <1>2, <2>1, <2>2, <2>3, <2>4, <2>5, <2>6 DEF PoolStep
<1> QED BY <1>1, <1>2

LEMMA InitPool == Init => PoolInv
<1> SUFFICES ASSUME PoolInit PROVE PoolInv
  BY DEF Init
<1>1. \A t \in Callers : call[t] = Idle /\ ~Holding(call[t])
  BY DEF PoolInit, Idle, Holding
<1>2. \A p : Owners(p) = {}
  BY <1>1 DEF Owners, Holding
<1>3. PoolTypes
  BY <1>1 DEF PoolInit, PoolTypes
<1>4. DOMAIN workers = {} /\ \A p \in Pools : POOL # p
  BY PoolConstants DEF PoolInit
<1>5. PoolOutlivesUse
  BY <1>2, <1>4 DEF PoolOutlivesUse
<1> QED BY <1>3, <1>5 DEF PoolInv

(***************************************************************************)
(* The Arcs of intra-op pools keep what they should alive: for any number  *)
(* of threads that sum and call set_num_threads at once, the pool a sum    *)
(* was cut for exists until its last job has run, and one that is neither  *)
(* configured nor held is gone.                                            *)
(***************************************************************************)
THEOREM PoolLivesAsUsed == Spec => []PoolOutlivesUse
<1>1. PoolInv /\ [Next]_vars => PoolInv'
  BY NextPool, OneComponent
<1>2. PoolInv => PoolOutlivesUse
  BY DEF PoolInv
<1> QED BY InitPool, <1>1, <1>2, PTL DEF Spec

-----------------------------------------------------------------------------
(***************************************************************************)
(* A sum is cut for the pool it holds: while it runs, its tiles are those  *)
(* done, those of its jobs, and its first until the caller has summed it.  *)
(***************************************************************************)
TilesLeft(t) == {job.tile : job \in {j \in jobs : j.caller = t}}

CutOf(t) == Cut(call[t].sum, call[t].pool)

FirstLeft(t) == IF call[t].first THEN {} ELSE {u \in CutOf(t) : u.start = 0}

SumOK(t) ==
  /\ call[t].sum \in Sums(t)
  /\ call[t].split = (call[t].pool # NoPool)
  /\ call[t].pool # NoPool => call[t].sum.width > 1
  /\ call[t].done \cup TilesLeft(t) \cup FirstLeft(t) = CutOf(t)

SumInv ==
  /\ \A p \in DOMAIN workers : workers[p] \in Nat
  /\ \A t \in Callers : call[t].at = "summing" => SumOK(t)

\* A held pool exists, and keeps its workers.
LEMMA HeldPool ==
  ASSUME PoolInv, NEW t \in Callers, call[t].at = "summing", call[t].pool # NoPool
  PROVE  call[t].pool \in DOMAIN workers
<1>1. call[t].pool \in Pools
  <2>1. call[t] # Idle /\ call[t] \notin Retiring
    BY DEF Idle, Retiring
  <2> QED BY <2>1 DEF PoolInv, PoolTypes
<1>2. t \in Owners(call[t].pool)
  BY DEF Owners
<1> QED BY <1>1, <1>2 DEF PoolInv, PoolOutlivesUse

LEMMA WorkersKept ==
  ASSUME PoolInv, SumInv, NEW t \in Callers, PoolStep(t)
  PROVE  /\ \A q \in DOMAIN workers \cap DOMAIN workers' : workers'[q] = workers[q]
         /\ \A q \in DOMAIN workers' : workers'[q] \in Nat
<1>1. \A q \in DOMAIN workers : workers[q] \in Nat
  BY DEF SumInv
<1>2. ASSUME NEW threads \in 0..MaxThreads, SetThreads(t, threads)
      PROVE  /\ \A q \in DOMAIN workers \cap DOMAIN workers' : workers'[q] = workers[q]
             /\ \A q \in DOMAIN workers' : workers'[q] \in Nat
  <2>1. PICK p \in IF threads = 1 THEN {NoPool} ELSE Pools \ DOMAIN workers :
          workers' = IF p = NoPool THEN workers
                     ELSE [q \in DOMAIN workers \cup {p} |-> IF q = p THEN threads - 1 ELSE workers[q]]
    BY <1>2 DEF SetThreads
  <2>2. threads - 1 \in Nat
    BY <1>2, PoolConstants DEF SetThreads
  <2>3. CASE p = NoPool
    BY <1>1, <2>1, <2>3
  <2>4. CASE p # NoPool
    <3>1. p \notin DOMAIN workers
      BY <2>1, <2>4
    <3> QED BY <1>1, <2>1, <2>2, <2>4, <3>1
  <2> QED BY <2>3, <2>4
<1>3. ASSUME workers' = workers \/ \E p : workers' = [q \in DOMAIN workers \ {p} |-> workers[q]]
      PROVE  /\ \A q \in DOMAIN workers \cap DOMAIN workers' : workers'[q] = workers[q]
             /\ \A q \in DOMAIN workers' : workers'[q] \in Nat
  BY <1>1, <1>3
<1>4. CASE \E sum \in Sums(t) : BeginSum(t, sum)
  BY <1>3, <1>4 DEF BeginSum
<1>5. CASE DropOld(t)
  <2>1. workers' = workers \/ \E p : workers' = [q \in DOMAIN workers \ {p} |-> workers[q]]
    BY <1>5 DEF DropOld, Dropped
  <2> QED BY <1>3, <2>1
<1>6. CASE SumFirst(t)
  BY <1>3, <1>6 DEF SumFirst
<1>7. CASE EndSum(t)
  <2>1. workers' = workers \/ \E p : workers' = [q \in DOMAIN workers \ {p} |-> workers[q]]
    BY <1>7 DEF EndSum, Dropped
  <2> QED BY <1>3, <2>1
<1>8. CASE \E job \in jobs : job.caller = t /\ RunJob(job)
  BY <1>3, <1>8 DEF RunJob
<1> QED BY <1>2, <1>4, <1>5, <1>6, <1>7, <1>8 DEF PoolStep

\* A caller that does nothing keeps its sum.
LEMMA SumStays ==
  ASSUME PoolInv, SumInv, PoolInv', NEW t \in Callers, call'[t] = call[t],
         \A q \in DOMAIN workers \cap DOMAIN workers' : workers'[q] = workers[q],
         TilesLeft(t)' = TilesLeft(t), call'[t].at = "summing"
  PROVE  SumOK(t)'
<1>1. call[t].at = "summing" /\ SumOK(t)
  BY DEF SumInv
<1>2. call[t].pool # NoPool => workers'[call[t].pool] = workers[call[t].pool]
  <2>1. call[t].pool # NoPool => call[t].pool \in DOMAIN workers
    BY <1>1, HeldPool
  <2>2. ASSUME call[t].pool # NoPool PROVE call[t].pool \in DOMAIN workers'
    <3> DEFINE p == call[t].pool
    <3>1. p \in Pools
      <4>1. call[t] # Idle /\ call[t] \notin Retiring
        BY <1>1 DEF Idle, Retiring
      <4> QED BY <2>2, <4>1 DEF PoolInv, PoolTypes
    <3>2. call'[t].at = "summing" /\ call'[t].pool = p
      OBVIOUS
    <3> HIDE DEF p
    <3>3. p \in DOMAIN workers'
      BY <3>1, <3>2 DEF PoolInv, PoolOutlivesUse, Owners
    <3> QED BY <3>3 DEF p
  <2> QED BY <2>1, <2>2
<1>3. CutOf(t)' = CutOf(t)
  BY <1>2 DEF CutOf, Cut, get_num_threads
<1>4. FirstLeft(t)' = FirstLeft(t)
  BY <1>3 DEF FirstLeft
<1> QED BY <1>1, <1>3, <1>4 DEF SumOK

LEMMA OneFirst ==
  ASSUME NEW sum, sum.width \in Nat, sum.reduce_stride \in Nat, NEW p,
         p # NoPool => sum.width > 1 /\ workers[p] \in Nat,
         NEW u \in Cut(sum, p), u.start = 0
  PROVE  {v \in Cut(sum, p) : v.start = 0} = {u}
<1>1. CASE p = NoPool
  <2>1. Cut(sum, p) = {[start |-> 0, len |-> sum.width]}
    BY <1>1 DEF Cut
  <2> QED BY <2>1
<1>2. CASE p # NoPool
  <2> DEFINE size == grain(sum.width, sum, get_num_threads(p))
             T == Tiles(sum.width, size)
             tile == [start |-> 0 * size, len |-> Min({size, sum.width - 0 * size})]
  <2>1. size \in Nat \ {0}
    <3>1. get_num_threads(p) \in Nat \ {0} /\ sum.width \in Nat \ {0}
      BY <1>2 DEF get_num_threads
    <3> QED BY <3>1, GrainSize
  <2>2. Cut(sum, p) = T
    BY <1>2 DEF Cut
  <2>3. ASSUME NEW v \in T, v.start = 0 PROVE v = tile
    <3> HIDE DEF size
    <3>1. PICK k \in 0..(div_ceil(sum.width, size) - 1) :
            /\ IsTile(v, k, sum.width, size)
            /\ v = [start |-> k * size, len |-> Min({size, sum.width - k * size})]
      BY <2>1, TilesAre
    <3>2. k * size = 0 /\ k \in Nat
      BY <2>3, <3>1 DEF IsTile
    <3>3. k = 0
      <4> SUFFICES ASSUME k > 0 PROVE FALSE
        BY <3>2
      <4>1. k * size >= 1 * size
        BY <2>1, <3>2
      <4> QED BY <2>1, <3>2, <4>1
    <3> QED BY <3>1, <3>3
  <2> HIDE DEF T, tile
  <2> QED BY <2>2, <2>3
<1> QED BY <1>1, <1>2

\* What a summing caller holds can be cut.
LEMMA CutFacts ==
  ASSUME PoolInv, SumInv, NEW t \in Callers, call[t].at = "summing"
  PROVE  /\ call[t].sum.width \in Nat /\ call[t].sum.reduce_stride \in Nat
         /\ Strided(call[t].sum)
         /\ call[t].pool # NoPool => call[t].sum.width > 1 /\ workers[call[t].pool] \in Nat
         /\ DOMAIN call[t] = SumFields /\ SumOK(t)
<1>1. SumOK(t) /\ DOMAIN call[t] = SumFields
  BY SummingFields DEF SumInv, PoolInv
<1>2. call[t].pool # NoPool => workers[call[t].pool] \in Nat
  BY HeldPool DEF SumInv
<1>3. /\ call[t].sum.width \in Nat /\ call[t].sum.reduce_stride \in Nat
      /\ Strided(call[t].sum)
  BY <1>1, SumConstants DEF SumOK, Strided
<1> QED BY <1>1, <1>2, <1>3 DEF SumOK

LEMMA BeginSumKeeps ==
  ASSUME PoolInv, SumInv, NEW t \in Callers, NEW sum \in Sums(t), BeginSum(t, sum)
  PROVE  SumOK(t)' /\ \A u \in Callers \ {t} : call'[u] = call[u] /\ TilesLeft(u)' = TilesLeft(u)
<1> DEFINE p == Fetched(sum)
           c == [at |-> "summing", sum |-> sum, pool |-> p,
                 split |-> p # NoPool, first |-> FALSE, done |-> {}]
           tiles == Cut(sum, p)
           new == {[caller |-> t, tile |-> tile] : tile \in {u \in tiles : u.start # 0}}
<1>1. /\ call[t] = Idle /\ call' = [call EXCEPT ![t] = c] /\ jobs' = jobs \cup new
      /\ workers' = workers /\ PoolTypes
  BY DEF BeginSum, PoolInv
<1>2. p # NoPool => sum.width > 1
  BY DEF Fetched, Split
<1>3. call'[t] = c /\ \A u \in Callers \ {t} : call'[u] = call[u]
  BY <1>1 DEF PoolTypes
<1>4. \A job \in jobs : job.caller # t
  BY <1>1 DEF PoolTypes, Idle
<1> HIDE DEF p, tiles
<1>5. ASSUME NEW u \in Callers \ {t} PROVE TilesLeft(u)' = TilesLeft(u)
  <2>1. \A job \in new : job.caller # u
    OBVIOUS
  <2> HIDE DEF new
  <2> QED BY <1>1, <2>1 DEF TilesLeft
<1>6. TilesLeft(t)' = {u \in tiles : u.start # 0}
  <2> DEFINE others == {u \in tiles : u.start # 0}
  <2> HIDE DEF others
  <2>1. {job.tile : job \in new} = others /\ \A job \in new : job.caller = t
    <3>1. new = {[caller |-> t, tile |-> tile] : tile \in others}
      BY DEF others
    <3> HIDE DEF new
    <3>2. \A job \in new : \E tile \in others : job = [caller |-> t, tile |-> tile]
      BY <3>1
    <3>3. \A tile \in others : [caller |-> t, tile |-> tile] \in new
      BY <3>1
    <3>4. \A tile : [caller |-> t, tile |-> tile].tile = tile /\ [caller |-> t, tile |-> tile].caller = t
      OBVIOUS
    <3>5. \A tile \in others : \E job \in new : job.tile = tile
      BY <3>3, <3>4
    <3>6. \A job \in new : job.tile \in others /\ job.caller = t
      BY <3>2, <3>4
    <3> QED BY <3>5, <3>6
  <2> HIDE DEF new
  <2>2. {j \in jobs' : j.caller = t} = new
    BY <1>1, <1>4, <2>1
  <2> QED BY <2>1, <2>2 DEF TilesLeft, others
<1>7. CutOf(t)' = tiles
  <2>1. call'[t].sum = sum /\ call'[t].pool = p
    BY <1>3
  <2>2. workers' = workers
    BY <1>1
  <2> HIDE DEF c, new
  <2> QED BY <2>1, <2>2 DEF CutOf, tiles, Cut, get_num_threads
<1>8. FirstLeft(t)' = {u \in tiles : u.start = 0}
  BY <1>3, <1>7 DEF FirstLeft
<1>9. SumOK(t)'
  <2>1. /\ call'[t].sum = sum /\ call'[t].pool = p /\ call'[t].split = (p # NoPool)
        /\ call'[t].done = {}
    BY <1>3
  <2>2. {} \cup {u \in tiles : u.start # 0} \cup {u \in tiles : u.start = 0} = tiles
    OBVIOUS
  <2> QED BY <1>2, <1>6, <1>7, <1>8, <2>1, <2>2 DEF SumOK
<1> QED BY <1>3, <1>5, <1>9

LEMMA SumFirstKeeps ==
  ASSUME PoolInv, SumInv, NEW t \in Callers, SumFirst(t)
  PROVE  SumOK(t)' /\ \A u \in Callers \ {t} : call'[u] = call[u] /\ TilesLeft(u)' = TilesLeft(u)
<1>1. PICK tile \in CutOf(t) :
        /\ tile.start = 0
        /\ call' = [call EXCEPT ![t].first = TRUE, ![t].done = @ \cup {tile}]
  BY DEF SumFirst, CutOf
<1>2. /\ call[t].at = "summing" /\ ~call[t].first /\ UNCHANGED <<POOL, workers, jobs>>
      /\ DOMAIN call[t] = SumFields /\ SumOK(t) /\ DOMAIN call = Callers
  BY CutFacts DEF SumFirst, PoolInv, PoolTypes
<1>3. /\ \A u \in Callers \ {t} : call'[u] = call[u]
      /\ call'[t] = [call[t] EXCEPT !.first = TRUE, !.done = @ \cup {tile}]
  BY <1>1, <1>2
<1>4. /\ call'[t].sum = call[t].sum /\ call'[t].pool = call[t].pool
      /\ call'[t].split = call[t].split /\ call'[t].first = TRUE
      /\ call'[t].done = call[t].done \cup {tile}
  BY <1>2, <1>3 DEF SumFields
<1>5. CutOf(t)' = CutOf(t) /\ FirstLeft(t)' = {}
  BY <1>2, <1>4 DEF CutOf, Cut, get_num_threads, FirstLeft
<1>6. FirstLeft(t) = {tile}
  <2>1. {v \in CutOf(t) : v.start = 0} = {tile}
    BY <1>1, <1>2, CutFacts, OneFirst DEF CutOf
  <2> QED BY <1>2, <2>1 DEF FirstLeft
<1>7. \A u \in Callers : TilesLeft(u)' = TilesLeft(u)
  BY <1>2 DEF TilesLeft
<1>8. SumOK(t)'
  <2>1. (call[t].done \cup {tile}) \cup TilesLeft(t) \cup {} = CutOf(t)
    BY <1>2, <1>6 DEF SumOK
  <2> QED BY <1>2, <1>4, <1>5, <1>7, <2>1 DEF SumOK
<1> QED BY <1>3, <1>7, <1>8

LEMMA RunJobKeeps ==
  ASSUME PoolInv, SumInv, NEW t \in Callers, NEW job \in jobs, job.caller = t, RunJob(job)
  PROVE  SumOK(t)' /\ \A u \in Callers \ {t} : call'[u] = call[u] /\ TilesLeft(u)' = TilesLeft(u)
<1>1. /\ call[t].at = "summing" /\ DOMAIN call = Callers
      /\ jobs' = jobs \ {job} /\ UNCHANGED <<POOL, workers>>
      /\ call' = [call EXCEPT ![t].done = @ \cup {job.tile}]
  BY DEF RunJob, PoolInv, PoolTypes
<1>2. DOMAIN call[t] = SumFields /\ SumOK(t)
  BY <1>1, CutFacts
<1>3. /\ \A u \in Callers \ {t} : call'[u] = call[u]
      /\ call'[t] = [call[t] EXCEPT !.done = @ \cup {job.tile}]
  BY <1>1
<1>4. /\ call'[t].sum = call[t].sum /\ call'[t].pool = call[t].pool
      /\ call'[t].split = call[t].split /\ call'[t].first = call[t].first
      /\ call'[t].done = call[t].done \cup {job.tile}
  BY <1>2, <1>3 DEF SumFields
<1>5. CutOf(t)' = CutOf(t)
  BY <1>1, <1>4 DEF CutOf, Cut, get_num_threads
<1>6. FirstLeft(t)' = FirstLeft(t)
  BY <1>4, <1>5 DEF FirstLeft
<1>7. TilesLeft(t)' \cup {job.tile} = TilesLeft(t)
  BY <1>1 DEF TilesLeft
<1>8. ASSUME NEW u \in Callers \ {t} PROVE TilesLeft(u)' = TilesLeft(u)
  <2>1. {j \in jobs' : j.caller = u} = {j \in jobs : j.caller = u}
    BY <1>1
  <2> QED BY <2>1 DEF TilesLeft
<1>9. SumOK(t)'
  <2>1. (call[t].done \cup {job.tile}) \cup TilesLeft(t)' \cup FirstLeft(t) = CutOf(t)
    BY <1>2, <1>7 DEF SumOK
  <2> QED BY <1>2, <1>4, <1>5, <1>6, <2>1 DEF SumOK
<1> QED BY <1>3, <1>8, <1>9

LEMMA NextSum ==
  PoolInv /\ SumInv /\ [\E t \in Callers : PoolStep(t)]_poolVars => PoolInv' /\ SumInv'
<1> SUFFICES ASSUME PoolInv, SumInv, [\E t \in Callers : PoolStep(t)]_poolVars
             PROVE  PoolInv' /\ SumInv'
  OBVIOUS
<1>1. PoolInv'
  BY NextPool
<1>2. CASE UNCHANGED poolVars
  <2>1. UNCHANGED <<POOL, workers, call, jobs>>
    BY <1>2 DEF poolVars
  <2>2. ASSUME NEW t \in Callers, call'[t].at = "summing" PROVE SumOK(t)'
    BY <1>1, <2>1, <2>2, SumStays DEF TilesLeft
  <2> QED BY <1>1, <2>1, <2>2 DEF SumInv
<1>3. ASSUME NEW t \in Callers, PoolStep(t) PROVE SumInv'
  <2> DEFINE Others == \A u \in Callers \ {t} : call'[u] = call[u] /\ TilesLeft(u)' = TilesLeft(u)
  <2>1. /\ \A q \in DOMAIN workers \cap DOMAIN workers' : workers'[q] = workers[q]
        /\ \A q \in DOMAIN workers' : workers'[q] \in Nat
    BY <1>3, WorkersKept
  <2>2. ASSUME NEW c, c.at # "summing", call' = [call EXCEPT ![t] = c], jobs' = jobs
        PROVE  Others /\ call'[t].at # "summing"
    <3>1. DOMAIN call = Callers
      BY DEF PoolInv, PoolTypes
    <3> QED BY <2>2, <3>1 DEF TilesLeft
  <2>3. Others /\ (call'[t].at = "summing" => SumOK(t)')
    <3>1. CASE \E threads \in 0..MaxThreads : SetThreads(t, threads)
      <4> DEFINE c == [at |-> "retiring", pool |-> POOL]
      <4>1. call' = [call EXCEPT ![t] = c] /\ jobs' = jobs /\ c.at # "summing"
        BY <3>1 DEF SetThreads
      <4> HIDE DEF c, Others
      <4> QED BY <2>2, <4>1
    <3>2. CASE \E sum \in Sums(t) : BeginSum(t, sum)
      BY <3>2, BeginSumKeeps
    <3>3. CASE DropOld(t) \/ EndSum(t)
      <4>1. call' = [call EXCEPT ![t] = Idle] /\ jobs' = jobs /\ Idle.at # "summing"
        BY <3>3 DEF DropOld, EndSum, Idle
      <4> HIDE DEF Others
      <4> QED BY <2>2, <4>1
    <3>4. CASE SumFirst(t)
      BY <3>4, SumFirstKeeps
    <3>5. CASE \E job \in jobs : job.caller = t /\ RunJob(job)
      BY <3>5, RunJobKeeps
    <3> HIDE DEF Others
    <3> QED BY <1>3, <3>1, <3>2, <3>3, <3>4, <3>5 DEF PoolStep
  <2>4. ASSUME NEW u \in Callers, call'[u].at = "summing" PROVE SumOK(u)'
    <3>1. CASE u = t
      BY <2>3, <2>4, <3>1
    <3>2. CASE u # t
      <4>1. call'[u] = call[u] /\ TilesLeft(u)' = TilesLeft(u)
        BY <2>3, <3>2
      <4> QED BY <1>1, <2>1, <2>4, <4>1, SumStays
    <3> QED BY <3>1, <3>2
  <2> QED BY <2>1, <2>4 DEF SumInv
<1> QED BY <1>1, <1>2, <1>3

LEMMA SumRight ==
  ASSUME PoolInv, SumInv, NEW t \in Callers, call[t].at = "summing", Joined(t),
         NEW o \in 0..(call[t].sum.width - 1)
  PROVE  \E tile \in call[t].done :
           /\ {u \in call[t].done : o \in u.start..(u.start + u.len - 1)} = {tile}
           /\ InSerialOrder(OrderOf(call[t], tile, o), call[t].sum, o)
<1> DEFINE c == call[t]
           sum == c.sum
           origin == o * sum.output_stride
           order == dispatch_layout(origin, o, sum.width, sum)
<1>1. /\ sum.width \in Nat /\ Strided(sum) /\ c.split = (c.pool # NoPool) /\ o \in Nat
      /\ c.pool # NoPool => sum.width > 1 /\ workers[c.pool] \in Nat
      /\ c.done \cup TilesLeft(t) \cup FirstLeft(t) = Cut(sum, c.pool)
  BY CutFacts DEF SumOK, CutOf
<1>2. c.done = Cut(sum, c.pool)
  <2>1. FirstLeft(t) = {}
    BY DEF Joined, FirstLeft
  <2>2. TilesLeft(t) = {}
    BY DEF Joined, TilesLeft
  <2> QED BY <1>1, <2>1, <2>2
<1>3. origin \in Nat
  <2>1. sum.output_stride \in Nat
    BY <1>1 DEF Strided
  <2> HIDE DEF sum
  <2> QED BY <1>1, <2>1
<1>4. InSerialOrder(order, sum, o)
  <2>1. Adds(order, sum.count, Line(origin, sum.count, sum.reduce_stride))
    <3> HIDE DEF sum, origin
    <3> QED BY <1>1, <1>3, SerialAdds
  <2>2. Line(origin, sum.count, sum.reduce_stride) = Row(sum, o)
    BY DEF Line, Row
  <2> HIDE DEF origin, sum
  <2> QED BY <2>1, <2>2 DEF InSerialOrder, Adds, origin
<1>5. CASE c.pool = NoPool
  <2> DEFINE tile == [start |-> 0, len |-> sum.width]
  <2>1. c.done = {tile}
    BY <1>2, <1>5 DEF Cut
  <2>2. tile.start = 0 /\ tile.len = sum.width
    OBVIOUS
  <2>3. OrderOf(c, tile, o) = order
    <3>1. OrderOf(c, tile, o) = dimension_sum_serial(Avx2, origin, o, sum.width, sum)
      BY <1>1, <1>5 DEF OrderOf
    <3>2. Avx2 \in BOOLEAN
      BY PoolConstants
    <3> HIDE DEF origin, sum
    <3> QED BY <1>1, <1>3, <3>1, <3>2, SerialSame DEF sum
  <2> HIDE DEF tile, order
  <2>4. {u \in c.done : o \in u.start..(u.start + u.len - 1)} = {tile}
    <3>1. o \in tile.start..(tile.start + tile.len - 1)
      BY <1>1, <2>2
    <3> HIDE DEF c
    <3> QED BY <2>1, <3>1
  <2> QED BY <1>4, <2>1, <2>3, <2>4
<1>6. CASE c.pool # NoPool
  <2> DEFINE size == grain(sum.width, sum, get_num_threads(c.pool))
             T == Tiles(sum.width, size)
  <2>1. size \in Nat \ {0} /\ Aligned(size, sum)
    <3>1. get_num_threads(c.pool) \in Nat \ {0} /\ sum.width \in Nat \ {0}
      BY <1>1, <1>6 DEF get_num_threads
    <3> HIDE DEF sum
    <3> QED BY <3>1, GrainSize
  <2>2. c.done = T
    BY <1>2, <1>6 DEF Cut
  <2>3. PICK tile \in T : Writers(T, o) = {tile}
    <3> HIDE DEF size, sum
    <3> QED BY <1>1, <2>1, TilesPartition DEF sum
  <2>4. PICK k \in Nat : IsTile(tile, k, sum.width, size)
    <3> HIDE DEF size, sum
    <3>1. \E k \in 0..(div_ceil(sum.width, size) - 1) : IsTile(tile, k, sum.width, size)
      BY <1>1, <2>1, <2>3, TilesAre
    <3> QED BY <3>1
  <2>5. o \in tile.start..(tile.start + tile.len - 1)
    BY <2>3 DEF Writers
  <2>6. OrderOf(c, tile, o) = order
    <3>1. OrderOf(c, tile, o) = reduce(Avx2, tile, o - tile.start, sum.width, sum)
      BY <1>1, <1>6 DEF OrderOf
    <3>2. Avx2 \in BOOLEAN
      BY PoolConstants
    <3> HIDE DEF size, sum, c
    <3> QED BY <1>1, <2>1, <2>4, <2>5, <3>1, <3>2, ReduceSame
  <2>7. {u \in c.done : o \in u.start..(u.start + u.len - 1)} = {tile}
    BY <2>2, <2>3 DEF Writers
  <2> HIDE DEF T, order
  <2> QED BY <1>4, <2>2, <2>3, <2>6, <2>7
<1> QED BY <1>5, <1>6

(***************************************************************************)
(* A parallel sum is the serial one: for any shapes, any number of threads *)
(* and any changes of it meanwhile, with AVX2 or without, when a sum       *)
(* returns each output was written by one job, which added each element of *)
(* its row once, in the order of the portable kernel of one thread.        *)
(***************************************************************************)
THEOREM SumsAsInSerial == Spec => []SumsInSerialOrder
<1>1. Init => PoolInv /\ SumInv
  <2> SUFFICES ASSUME Init PROVE SumInv
    BY InitPool
  <2>1. PoolInit
    BY DEF Init
  <2> QED BY <2>1 DEF PoolInit, SumInv, Idle
<1>2. (PoolInv /\ SumInv) /\ [Next]_vars => (PoolInv /\ SumInv)'
  BY NextSum, OneComponent
<1>3. PoolInv /\ SumInv => SumsInSerialOrder
  BY SumRight DEF SumsInSerialOrder
<1> QED BY <1>1, <1>2, <1>3, PTL DEF Spec

-----------------------------------------------------------------------------
(***************************************************************************)
(* Torch-function modes.  Each frame began with the modes that the one     *)
(* around it sees, and the modes there are are those the innermost sees:   *)
(* leaving a frame brings back what it began with.                         *)
(***************************************************************************)
LEMMA OneTorch ==
  [Next]_vars => [\/ TorchStep(ArgumentCalls, 1, ArgumentModes, 2)
                  \/ TorchStep(ModeCalls, MaxModeCalls, Modes, MaxFrames)]_torchVars
BY DEF Next, vars, GradModeStep, IntraOpPoolStep, BufferLeasesStep,
       CompileCacheStep, TorchFunctionStep

AttemptFields == {"call", "mode", "before", "tensor", "retries", "asking", "asked", "left"}

AttemptOK(f) ==
  /\ DOMAIN f = AttemptFields /\ f.before \in Seq(Modes) /\ f.tensor \in BOOLEAN
  /\ f.mode # NoMode => f.before # <<>> /\ Last(f.before) = f.mode

ScopeOK(f) ==
  DOMAIN f = {"scope", "before"} /\ f.before \in Seq(Modes) /\ f.scope \in Modes

FrameOK(f) == AttemptOK(f) \/ ScopeOK(f)

SeenAt(s, i) == IF i = 0 THEN <<>> ELSE WhileIn(s[i])

Nested(s, m) ==
  /\ s \in Seq(Range(s)) /\ m \in Seq(Modes) /\ m = SeenAt(s, Len(s))
  /\ \A i \in 1..Len(s) : FrameOK(s[i]) /\ s[i].before = SeenAt(s, i - 1)

LEMMA FrontAppend ==
  ASSUME NEW S, NEW s \in Seq(S), s # <<>>
  PROVE  /\ Front(s) \in Seq(S) /\ Len(Front(s)) = Len(s) - 1 /\ Len(s) \in Nat \ {0}
         /\ \A i \in 1..(Len(s) - 1) : Front(s)[i] = s[i]
         /\ Last(s) = s[Len(s)] /\ Last(s) \in S /\ Append(Front(s), Last(s)) = s
<1> DEFINE r == Front(s)
<1>1. /\ Len(s) \in Nat \ {0} /\ Last(s) = s[Len(s)] /\ Len(s) \in DOMAIN s
      /\ Len(s) - 1 \in 0..Len(s)
  BY DEF Last
<1>2. r = RemoveAt(s, Len(s))
  BY <1>1 DEF Front, RemoveAt
<1>3. /\ r \in Seq(S) /\ Len(r) = Len(s) - 1
      /\ \A i \in 1..(Len(s) - 1) : r[i] = s[i]
  BY <1>1, <1>2, RemovedAt
<1> HIDE DEF r
<1>4. Append(r, s[Len(s)]) = s
  <2>1. /\ Append(r, s[Len(s)]) \in Seq(S) /\ Len(Append(r, s[Len(s)])) = Len(s)
        /\ \A i \in 1..Len(s) : Append(r, s[Len(s)])[i] = s[i]
    BY <1>1, <1>3
  <2> QED BY <2>1
<1> QED BY <1>1, <1>3, <1>4 DEF r

LEMMA AppendFront ==
  ASSUME NEW S, NEW s \in Seq(S), NEW e \in S
  PROVE  Front(Append(s, e)) = s
<1> DEFINE a == Append(s, e)
<1>1. /\ a \in Seq(S) /\ a # <<>> /\ Len(a) = Len(s) + 1 /\ Len(s) \in Nat
      /\ \A i \in 1..Len(s) : a[i] = s[i]
  OBVIOUS
<1> HIDE DEF a
<1>2. /\ Front(a) \in Seq(S) /\ Len(Front(a)) = Len(s)
      /\ \A i \in 1..Len(s) : Front(a)[i] = a[i]
  BY <1>1, FrontAppend
<1>3. Front(a) = s
  BY <1>1, <1>2
<1> QED BY <1>3 DEF a

LEMMA SeenType ==
  ASSUME NEW f, FrameOK(f) PROVE WhileIn(f) \in Seq(Modes) /\ f.before \in Seq(Modes)
<1>1. CASE ScopeOK(f)
  BY <1>1 DEF ScopeOK, WhileIn
<1>2. CASE AttemptOK(f)
  <2>1. "scope" \notin DOMAIN f /\ f.before \in Seq(Modes)
    BY <1>2 DEF AttemptOK, AttemptFields
  <2>2. OffStack(f) => Front(f.before) \in Seq(Modes)
    BY <1>2, <2>1, FrontAppend DEF AttemptOK, OffStack
  <2> QED BY <2>1, <2>2 DEF WhileIn
<1> QED BY <1>1, <1>2 DEF FrameOK

LEMMA PushFrame ==
  ASSUME NEW s, NEW m, Nested(s, m), NEW f, FrameOK(f), f.before = m
  PROVE  Nested(Append(s, f), WhileIn(f))
<1> DEFINE a == Append(s, f)
           R == Range(s) \cup {f}
<1>1. s \in Seq(R) /\ Len(s) \in Nat
  BY DEF Nested
<1>2. /\ a \in Seq(R) /\ Range(a) = R /\ Len(a) = Len(s) + 1 /\ a[Len(s) + 1] = f
      /\ \A i \in 1..Len(s) : a[i] = s[i]
  BY <1>1, AppendBlocks
<1> HIDE DEF a
<1>3. ASSUME NEW i \in 0..Len(s) PROVE SeenAt(a, i) = SeenAt(s, i)
  BY <1>1, <1>2 DEF SeenAt
<1>4. SeenAt(a, Len(a)) = WhileIn(f)
  BY <1>1, <1>2 DEF SeenAt
<1>5. ASSUME NEW i \in 1..Len(a) PROVE FrameOK(a[i]) /\ a[i].before = SeenAt(a, i - 1)
  <2>1. i - 1 \in 0..Len(s) /\ SeenAt(a, i - 1) = SeenAt(s, i - 1)
    BY <1>1, <1>2, <1>3
  <2>2. CASE i \in 1..Len(s)
    BY <1>2, <2>1, <2>2 DEF Nested
  <2>3. CASE i = Len(s) + 1
    BY <1>1, <1>2, <2>1, <2>3 DEF Nested
  <2> QED BY <1>1, <1>2, <2>2, <2>3
<1> QED BY <1>2, <1>4, <1>5, SeenType DEF Nested, a

LEMMA PopFrame ==
  ASSUME NEW s, NEW m, Nested(s, m), s # <<>>
  PROVE  /\ FrameOK(Last(s)) /\ m = WhileIn(Last(s))
         /\ Nested(Front(s), Last(s).before)
<1> DEFINE r == Front(s)
<1>0. s \in Seq(Range(s))
  BY DEF Nested
<1>1. /\ r \in Seq(Range(s)) /\ Len(r) = Len(s) - 1 /\ Len(s) \in Nat \ {0}
      /\ \A i \in 1..(Len(s) - 1) : r[i] = s[i]
      /\ Last(s) = s[Len(s)]
  BY <1>0, FrontAppend
<1> HIDE DEF r
<1>2. FrameOK(Last(s)) /\ m = WhileIn(Last(s)) /\ Last(s).before = SeenAt(s, Len(s) - 1)
  BY <1>1 DEF Nested, SeenAt
<1>3. ASSUME NEW i \in 0..(Len(s) - 1) PROVE SeenAt(r, i) = SeenAt(s, i)
  BY <1>1 DEF SeenAt
<1>4. r \in Seq(Range(r))
  BY <1>1 DEF Range
<1>5. ASSUME NEW i \in 1..Len(r) PROVE FrameOK(r[i]) /\ r[i].before = SeenAt(r, i - 1)
  <2>1. i \in 1..Len(s) /\ i - 1 \in 0..(Len(s) - 1) /\ r[i] = s[i]
    BY <1>1
  <2> QED BY <1>3, <2>1 DEF Nested
<1>6. SeenAt(r, Len(r)) = Last(s).before
  BY <1>1, <1>2, <1>3
<1> QED BY <1>2, <1>4, <1>5, <1>6, SeenType DEF Nested, r

\* Bringing back the mode of an attempt leaves the modes it began with.
LEMMA Restored ==
  ASSUME NEW f, AttemptOK(f), modes = WhileIn(f)
  PROVE  restore(f) = f.before
<1>1. "scope" \notin DOMAIN f
  BY DEF AttemptOK, AttemptFields
<1>2. CASE OffStack(f)
  <2>1. f.before \in Seq(Modes) /\ f.before # <<>> /\ Last(f.before) = f.mode
    BY <1>2 DEF AttemptOK, OffStack
  <2> QED BY <1>1, <1>2, <2>1, FrontAppend DEF WhileIn, restore
<1>3. CASE ~OffStack(f)
  BY <1>1, <1>3 DEF WhileIn, restore
<1> QED BY <1>2, <1>3

TorchInv == Nested(frames, modes)

LEMMA InnermostAttempt ==
  ASSUME TorchInv, Attempt
  PROVE  /\ AttemptOK(Last(frames)) /\ frames # <<>> /\ modes = WhileIn(Last(frames))
         /\ Nested(Front(frames), Last(frames).before)
         /\ restore(Last(frames)) = Last(frames).before
<1>1. /\ FrameOK(Last(frames)) /\ frames # <<>> /\ modes = WhileIn(Last(frames))
      /\ Nested(Front(frames), Last(frames).before)
  BY PopFrame DEF TorchInv, Attempt
<1>2. AttemptOK(Last(frames))
  BY <1>1 DEF FrameOK, ScopeOK, Attempt
<1> QED BY <1>1, <1>2, Restored

LEMMA OverModes ==
  ASSUME TorchInv, Attempt, NEW result, Over(result)
  PROVE  TorchInv'
<1>1. modes' = Last(frames).before /\ frames' = Front(frames)
  BY InnermostAttempt DEF Over
<1> QED BY <1>1, InnermostAttempt DEF TorchInv

\* The innermost attempt goes on, as g.
LEMMA AttemptGoesOn ==
  ASSUME TorchInv, Attempt, NEW g, AttemptOK(g), g.before = Last(frames).before,
         frames' = Append(Front(frames), g), modes' = WhileIn(g)
  PROVE  TorchInv'
BY InnermostAttempt, PushFrame DEF TorchInv, FrameOK

LEMMA TriesModes ==
  ASSUME TorchInv, Attempt, NEW retries, NEW tensor \in BOOLEAN, TriesAgain(retries, tensor)
  PROVE  TorchInv'
<1> DEFINE f == Last(frames)
           g == [f EXCEPT !.retries = retries, !.tensor = tensor]
<1>1. AttemptOK(f) /\ modes = WhileIn(f)
  BY InnermostAttempt
<1>2. /\ AttemptOK(g) /\ g.before = f.before /\ g.mode = f.mode
      /\ g.asking = f.asking /\ g.call = f.call /\ DOMAIN g = DOMAIN f
  BY <1>1 DEF AttemptOK, AttemptFields
<1>3. frames' = Append(Front(frames), g) /\ modes' = modes
  BY DEF TriesAgain
<1> HIDE DEF f, g
<1>4. WhileIn(g) = WhileIn(f)
  BY <1>2, <1>1 DEF WhileIn, OffStack, AttemptOK, AttemptFields
<1> QED BY <1>1, <1>2, <1>3, <1>4, AttemptGoesOn DEF f

LEMMA AsksModes ==
  ASSUME TorchInv, Attempt, AsksNext
  PROVE  TorchInv'
<1> DEFINE f == Last(frames)
           g == [f EXCEPT !.asking = "override", !.asked = Append(@, Head(f.left)),
                          !.left = Tail(@)]
<1>1. AttemptOK(f) /\ modes = WhileIn(f) /\ restore(f) = f.before
  BY InnermostAttempt
<1>2. /\ AttemptOK(g) /\ g.before = f.before /\ g.mode = f.mode
      /\ g.asking = "override" /\ g.call = f.call /\ "scope" \notin DOMAIN g
      /\ "scope" \notin DOMAIN f
  BY <1>1 DEF AttemptOK, AttemptFields
<1>3. /\ frames' = Append(Front(frames), g)
      /\ modes' = IF InPython(f.call.form) THEN restore(f) ELSE modes
  BY DEF AsksNext
<1> HIDE DEF f, g
<1>4. modes' = WhileIn(g)
  BY <1>1, <1>2, <1>3 DEF WhileIn, OffStack
<1> QED BY <1>2, <1>3, <1>4, AttemptGoesOn DEF f

LEMMA DeclinesModes ==
  ASSUME TorchInv, Declines
  PROVE  TorchInv'
<1> DEFINE f == Last(frames)
<1>1. Attempt
  BY DEF Declines
<1>2. ASSUME dispatch_torch_function_declined(f) PROVE TorchInv'
  BY <1>1, <1>2, AsksModes, OverModes DEF dispatch_torch_function_declined
<1>0. f.tensor \in BOOLEAN
  BY <1>1, InnermostAttempt DEF AttemptOK
<1>3. ASSUME Recurses(f) PROVE TorchInv'
  BY <1>0, <1>1, <1>3, TriesModes, OverModes DEF Recurses
<1>4. ASSUME _dispatch_unary_torch_function_declined(f) PROVE TorchInv'
  BY <1>1, <1>2, <1>4, TriesModes DEF _dispatch_unary_torch_function_declined
<1>5. ASSUME _dispatch_exact_native_variadic_torch_function_declined(f) PROVE TorchInv'
  BY <1>0, <1>1, <1>3, <1>5, TriesModes, OverModes
  DEF _dispatch_exact_native_variadic_torch_function_declined
<1> QED BY <1>2, <1>3, <1>4, <1>5 DEF Declines

LEMMA BeginsModes ==
  ASSUME TorchInv, NEW c, Begins(c)
  PROVE  TorchInv'
<1>1. PICK made : Runs(made) \/ Attempts(made)
  BY DEF Begins
<1>2. CASE UNCHANGED <<modes, frames>>
  BY <1>2 DEF TorchInv
<1>3. ASSUME NEW mode, mode = IF is_empty THEN NoMode ELSE Last(modes),
             modes' = pop, frames' = Append(frames, Tried(made, mode))
      PROVE  TorchInv'
  <2> DEFINE f == Tried(made, mode)
  <2>1. /\ DOMAIN f = AttemptFields /\ f.before = modes /\ f.mode = mode /\ f.call = made
        /\ f.asking = IF mode = NoMode THEN "override" ELSE "mode"
        /\ f.tensor \in BOOLEAN
    BY DEF Tried, AttemptFields, InPython
  <2> HIDE DEF f
  <2>2. modes \in Seq(Modes)
    BY DEF TorchInv, Nested
  <2>3. AttemptOK(f)
    BY <1>3, <2>1, <2>2 DEF AttemptOK, is_empty
  <2>4. ~is_empty => mode # NoMode
    BY <1>3, <2>2, FrontAppend, TorchConstants DEF is_empty
  <2>5. modes' = WhileIn(f)
    BY <1>3, <2>1, <2>4 DEF WhileIn, OffStack, AttemptFields, pop
  <2> QED BY <1>3, <2>1, <2>3, <2>5, PushFrame DEF TorchInv, FrameOK, f
<1> QED BY <1>1, <1>2, <1>3 DEF Runs, Attempts

LEMMA PushModes ==
  ASSUME TorchInv, NEW m \in Modes, _push_mode(m)
  PROVE  TorchInv'
<1> DEFINE f == [scope |-> m, before |-> modes]
<1>1. ScopeOK(f) /\ f.before = modes /\ f.scope = m
  BY DEF ScopeOK, TorchInv, Nested
<1>2. WhileIn(f) = Append(modes, m)
  BY <1>1 DEF WhileIn
<1>3. frames' = Append(frames, f) /\ modes' = WhileIn(f)
  BY <1>2 DEF _push_mode
<1> HIDE DEF f
<1> QED BY <1>1, <1>3, PushFrame DEF TorchInv, FrameOK

LEMMA PopModes ==
  ASSUME TorchInv, _pop_mode
  PROVE  TorchInv'
<1> DEFINE f == Last(frames)
<1>1. /\ FrameOK(f) /\ modes = WhileIn(f) /\ Nested(Front(frames), f.before)
      /\ "scope" \in DOMAIN f
  BY PopFrame DEF TorchInv, _pop_mode
<1>2. f.before \in Seq(Modes) /\ f.scope \in Modes /\ modes = Append(f.before, f.scope)
  BY <1>1 DEF FrameOK, AttemptOK, AttemptFields, ScopeOK, WhileIn
<1>3. modes' = f.before /\ frames' = Front(frames)
  BY <1>2, AppendFront DEF _pop_mode
<1> QED BY <1>1, <1>3 DEF TorchInv

LEMMA NextTorch ==
  /\ TorchInv
  /\ [\/ TorchStep(ArgumentCalls, 1, ArgumentModes, 2)
      \/ TorchStep(ModeCalls, MaxModeCalls, Modes, MaxFrames)]_torchVars
  => TorchInv'
<1> SUFFICES ASSUME TorchInv,
                    [\/ TorchStep(ArgumentCalls, 1, ArgumentModes, 2)
                     \/ TorchStep(ModeCalls, MaxModeCalls, Modes, MaxFrames)]_torchVars
             PROVE  TorchInv'
  OBVIOUS
<1>1. CASE UNCHANGED torchVars
  BY <1>1 DEF torchVars, TorchInv
<1>2. ASSUME NEW calls, NEW limit, NEW entered \in SUBSET Modes, NEW depth,
             TorchStep(calls, limit, entered, depth)
      PROVE  TorchInv'
  <2>1. CASE \E c : Begins(c)
    BY <2>1, BeginsModes
  <2>2. CASE \E m \in Modes : _push_mode(m)
    BY <2>2, PushModes
  <2>3. CASE _pop_mode
    BY <2>3, PopModes
  <2>4. CASE Returns \/ Raises
    BY <2>4, OverModes DEF Returns, Raises
  <2>5. CASE Declines
    BY <2>5, DeclinesModes
  <2> QED BY <1>2, <2>1, <2>2, <2>3, <2>4, <2>5 DEF TorchStep
<1> QED BY <1>1, <1>2, EnteredModes

(***************************************************************************)
(* However deep calls, handlers and "with" statements nest, and whatever   *)
(* the handlers of each call do, a mode that was taken off the stack to be *)
(* asked is back when its attempt is over, and every frame goes on with    *)
(* the modes that it entered.                                              *)
(***************************************************************************)
THEOREM ModesRestored == Spec => []ScopesRestored
<1>1. Init => TorchInv
  <2> SUFFICES ASSUME modes = <<>>, frames = <<>> PROVE TorchInv
    BY DEF Init, TorchInit
  <2> QED BY EmptyBlocks DEF TorchInv, Nested, SeenAt
<1>2. TorchInv /\ [Next]_vars => TorchInv'
  BY NextTorch, OneTorch
<1>3. TorchInv => ScopesRestored
  <2> SUFFICES ASSUME TorchInv PROVE ScopesRestored
    OBVIOUS
  <2>1. DOMAIN frames = 1..Len(frames)
    BY DEF TorchInv, Nested
  <2> QED BY <2>1 DEF TorchInv, Nested, ScopesRestored, SeenAt, SeenIn
<1> QED BY <1>1, <1>2, <1>3, PTL DEF Spec

-----------------------------------------------------------------------------
(***************************************************************************)
(* The compile cache.  First what publishing makes of a map.               *)
(***************************************************************************)
LEMMA PoppedFacts ==
  ASSUME NEW S, NEW s \in Seq(S), IsInjective(s), NEW item \in S
  PROVE  /\ Popped(s, item) \in Seq(S) /\ IsInjective(Popped(s, item))
         /\ item \notin Range(Popped(s, item))
         /\ Range(Popped(s, item)) = Range(s) \ {item}
         /\ Len(Popped(s, item)) <= Len(s)
<1> DEFINE at == {i \in DOMAIN s : s[i] = item}
<1>0. Len(s) \in Nat
  OBVIOUS
<1>1. CASE at = {}
  <2>1. Popped(s, item) = s
    BY <1>1 DEF Popped
  <2>2. item \notin Range(s)
    BY <1>1 DEF Range
  <2> QED BY <1>0, <2>1, <2>2
<1>2. ASSUME NEW i \in at
      PROVE  /\ Popped(s, item) \in Seq(S) /\ IsInjective(Popped(s, item))
             /\ item \notin Range(Popped(s, item))
             /\ Range(Popped(s, item)) = Range(s) \ {item}
             /\ Len(Popped(s, item)) <= Len(s)
  <2>1. i \in DOMAIN s /\ s[i] = item
    OBVIOUS
  <2>2. at = {i}
    BY <2>1 DEF IsInjective
  <2>3. Max({i}) = i
    BY DEF Max
  <2>4. Popped(s, item) = RemoveAt(s, i)
    BY <2>2, <2>3 DEF Popped
  <2>5. /\ RemoveAt(s, i) \in Seq(S) /\ IsInjective(RemoveAt(s, i))
        /\ Range(s) = {item} \cup Range(RemoveAt(s, i))
        /\ item \notin Range(RemoveAt(s, i))
    BY <2>1, RemoveBlocks
  <2>6. Len(RemoveAt(s, i)) = Len(s) - 1
    BY <2>1, RemovedAt
  <2> QED BY <1>0, <2>4, <2>5, <2>6
<1> QED BY <1>1, <1>2

\* A suffix.
LEMMA SuffixFacts ==
  ASSUME NEW S, NEW s \in Seq(S), NEW n \in 0..Len(s)
  PROVE  LET r == SubSeq(s, n + 1, Len(s))
         IN  /\ r \in Seq(S) /\ Len(r) = Len(s) - n /\ DOMAIN r = 1..(Len(s) - n)
             /\ \A i \in 1..(Len(s) - n) : r[i] = s[n + i] /\ n + i \in 1..Len(s)
<1> DEFINE r == SubSeq(s, n + 1, Len(s))
<1>1. Len(s) \in Nat
  OBVIOUS
<1>2. r \in Seq(S) /\ Len(r) = Len(s) - n /\ \A i \in 1..(Len(s) - n) : r[i] = s[n + i]
  BY <1>1
<1>3. \A i \in 1..(Len(s) - n) : n + i \in 1..Len(s)
  BY <1>1
<1> QED BY <1>2, <1>3

LEMMA RecentFacts ==
  ASSUME NEW S, NEW s \in Seq(S), IsInjective(s)
  PROVE  /\ Recent(s) \in Seq(S) /\ IsInjective(Recent(s))
         /\ Len(Recent(s)) <= RecompileLimit
         /\ Range(Recent(s)) \subseteq Range(s)
         /\ s # <<>> /\ RecompileLimit # 0 =>
              Recent(s) # <<>> /\ Last(Recent(s)) = Last(s)
<1> DEFINE x == Len(s) - RecompileLimit + 1
           n == IF x < 1 THEN 0 ELSE Len(s) - RecompileLimit
           r == SubSeq(s, n + 1, Len(s))
<1>1. Len(s) \in Nat /\ RecompileLimit \in Nat /\ x \in Int
  BY CacheConstants
<1>2. Max({1, x}) = n + 1
  <2>1. CASE x < 1
    BY <1>1, <2>1 DEF Max
  <2>2. CASE ~(x < 1)
    BY <1>1, <2>2 DEF Max
  <2> QED BY <2>1, <2>2
<1>3. Recent(s) = r /\ n \in 0..Len(s) /\ Len(s) - n <= RecompileLimit
      /\ (s # <<>> /\ RecompileLimit # 0 => n < Len(s))
  <2>1. Recent(s) = r
    <3> HIDE DEF n
    <3> QED BY <1>2 DEF Recent
  <2>2. s # <<>> => Len(s) # 0
    OBVIOUS
  <2>3. n \in 0..Len(s) /\ Len(s) - n <= RecompileLimit
        /\ (Len(s) # 0 /\ RecompileLimit # 0 => n < Len(s))
    BY <1>1
  <2> HIDE DEF n, r
  <2> QED BY <2>1, <2>2, <2>3
<1> HIDE DEF x, n
<1>4. /\ r \in Seq(S) /\ Len(r) = Len(s) - n /\ DOMAIN r = 1..(Len(s) - n)
      /\ \A i \in 1..(Len(s) - n) : r[i] = s[n + i] /\ n + i \in 1..Len(s)
  BY <1>3, SuffixFacts
<1> HIDE DEF r
<1>5. IsInjective(r)
  <2> SUFFICES ASSUME NEW i \in 1..(Len(s) - n), NEW j \in 1..(Len(s) - n), r[i] = r[j]
               PROVE  i = j
    BY <1>4 DEF IsInjective
  <2>1. n + i = n + j
    BY <1>4 DEF IsInjective
  <2> QED BY <1>1, <1>3, <2>1
<1>6. Range(r) \subseteq Range(s)
  BY <1>4 DEF Range
<1>7. ASSUME s # <<>>, RecompileLimit # 0 PROVE r # <<>> /\ Last(r) = Last(s)
  <2>1. Len(s) - n \in 1..(Len(s) - n) /\ n + (Len(s) - n) = Len(s)
    BY <1>1, <1>3, <1>7
  <2> QED BY <1>4, <2>1 DEF Last
<1> QED BY <1>3, <1>4, <1>5, <1>6, <1>7

\* Publishing keeps a map within its limit, with what was published newest.
LEMMA PublishedFacts ==
  ASSUME NEW S, NEW s \in Seq(S), IsInjective(s), Len(s) <= RecompileLimit,
         RecompileLimit # 0, NEW item \in S
  PROVE  LET r == Published(s, item)
         IN  /\ r \in Seq(S) /\ IsInjective(r) /\ Len(r) <= RecompileLimit
             /\ r # <<>> /\ Last(r) = item /\ item \in Range(r)
             /\ Range(r) \subseteq Range(s) \cup {item}
<1> DEFINE r == Published(s, item)
           a == Append(Popped(s, item), item)
<1>1. \A q \in Seq(S) : q # <<>> => Last(q) \in Range(q)
  BY FrontBlocks
<1>2. CASE s # <<>> /\ Last(s) = item
  BY <1>1, <1>2 DEF Published
<1>3. CASE ~(s # <<>> /\ Last(s) = item)
  <2>1. r = Recent(a)
    BY <1>3 DEF Published
  <2>2. /\ Popped(s, item) \in Seq(S) /\ IsInjective(Popped(s, item))
        /\ item \notin Range(Popped(s, item)) /\ Range(Popped(s, item)) \subseteq Range(s)
    BY PoppedFacts
  <2> DEFINE q == Popped(s, item)
  <2> HIDE DEF q
  <2>3. /\ Append(q, item) \in Seq(S) /\ IsInjective(Append(q, item))
        /\ Range(Append(q, item)) = Range(q) \cup {item}
        /\ Append(q, item) # <<>> /\ Last(Append(q, item)) = item
    <3>1. q \in Seq(S) /\ IsInjective(q) /\ item \notin Range(q)
      BY <2>2 DEF q
    <3>2. Append(q, item) # <<>> /\ Last(Append(q, item)) = item
      BY <3>1 DEF Last
    <3> QED BY <3>1, <3>2, AppendBlocks
  <2>4. /\ a \in Seq(S) /\ IsInjective(a) /\ a # <<>> /\ Last(a) = item
        /\ Range(a) \subseteq Range(s) \cup {item}
    BY <2>2, <2>3 DEF q
  <2> HIDE DEF a, r
  <2>5. /\ Recent(a) \in Seq(S) /\ IsInjective(Recent(a)) /\ Len(Recent(a)) <= RecompileLimit
        /\ Range(Recent(a)) \subseteq Range(a)
        /\ Recent(a) # <<>> /\ Last(Recent(a)) = item
    BY <2>4, RecentFacts
  <2>6. item \in Range(Recent(a))
    BY <1>1, <2>5
  <2>7. /\ r \in Seq(S) /\ IsInjective(r) /\ Len(r) <= RecompileLimit
        /\ r # <<>> /\ Last(r) = item /\ item \in Range(r)
        /\ Range(r) \subseteq Range(s) \cup {item}
    BY <2>1, <2>4, <2>5, <2>6
  <2> QED BY <2>7 DEF r
<1> QED BY <1>2, <1>3

(***************************************************************************)
(* Plans.  Those of one cache differ in executor or shape.                 *)
(***************************************************************************)
Plan == {[code |-> c.code, shape |-> c.shape, bytes |-> c.bytes] : c \in Calls}

SameKey(x, y) == x.code = y.code /\ x.shape = y.shape

DistinctPlans(s) == \A i, j \in 1..Len(s) : SameKey(s[i], s[j]) => i = j

LEMMA PlanBytes == \A x \in Plan : x.bytes \in Nat
BY CacheConstants DEF Plan

LEMMA BytesFacts ==
  ASSUME NEW s \in Seq(Plan)
  PROVE  /\ Bytes(s) \in Nat
         /\ s = <<>> => Bytes(s) = 0
         /\ Len(s) = 1 => Bytes(s) = s[1].bytes
         /\ \A i \in 1..Len(s) : s[i].bytes <= Bytes(s)
<1> DEFINE D == DOMAIN s
           w == [i \in D |-> s[i].bytes]
<1>1. D = 1..Len(s) /\ Len(s) \in Nat /\ \A i \in D : s[i] \in Plan
  OBVIOUS
<1>2. IsFiniteSet(D)
  BY <1>1, FS_Interval
<1>3. \A i \in D : s[i].bytes \in Nat
  BY <1>1, PlanBytes
<1>4. Bytes(s) = SumOf(w, D)
  BY <1>2, <1>3, FoldedSum DEF Bytes
<1>5. \A i \in D : w[i] \in Nat /\ w[i] \in Int /\ w[i] = s[i].bytes
  BY <1>3
<1> HIDE DEF w, D
<1>6. SumOf(w, D) \in Nat
  BY <1>2, <1>5, SumType
<1>7. SumOf(w, {}) = 0
  BY SumEmpty
<1>8. ASSUME NEW i \in D
      PROVE  SumOf(w, D) = w[i] + SumOf(w, D \ {i}) /\ SumOf(w, D \ {i}) \in Nat
  <2>1. IsFiniteSet(D \ {i})
    BY <1>2, FS_Subset
  <2> QED BY <1>2, <1>5, <2>1, SumRemove, SumType
<1>9. s = <<>> => D = {}
  BY <1>1
<1>10. Len(s) = 1 => 1 \in D /\ D \ {1} = {}
  BY <1>1
<1>11. ASSUME NEW i \in D PROVE s[i].bytes <= SumOf(w, D)
  <2>1. /\ w[i] \in Nat /\ w[i] = s[i].bytes /\ SumOf(w, D \ {i}) \in Nat
        /\ SumOf(w, D) = w[i] + SumOf(w, D \ {i})
    BY <1>5, <1>8
  <2> QED BY <2>1
<1>12. Len(s) = 1 => SumOf(w, D) = s[1].bytes
  BY <1>5, <1>7, <1>8, <1>10
<1> QED BY <1>1, <1>4, <1>6, <1>7, <1>9, <1>11, <1>12

\* What is left of the plans whose executor is there.
LEMMA WithExecutorFacts ==
  ASSUME NEW s \in Seq(Plan), DistinctPlans(s), NEW codes
  PROVE  LET r == WithExecutor(s, codes)
         IN  /\ r \in Seq(Plan) /\ DistinctPlans(r)
             /\ \A j \in 1..Len(r) : r[j].code \in ToSet(codes)
                                     /\ \E i \in 1..Len(s) : r[j] = s[i]
<1> DEFINE N == Len(s)
           keeps(n) == s[n].code \in ToSet(codes)
           A == Seq(Plan)
           step == [n \in 1..N |-> [a \in A |-> IF keeps(n) THEN Append(a, s[n]) ELSE a]]
           Right(f) == f = [n \in 0..N |-> IF n = 0 THEN <<>>
                                           ELSE IF keeps(n) THEN Append(f[n - 1], s[n])
                                           ELSE f[n - 1]]
<1>1. N \in Nat /\ <<>> \in A /\ \A n \in 1..N : s[n] \in Plan
  OBVIOUS
<1>2. step \in [1..N -> [A -> A]]
  BY <1>1
<1>3. \E f : Right(f)
  <2> DEFINE none == <<>>
  <2>0. N \in Nat /\ none \in A /\ step \in Steps(N, A)
    BY <1>1, <1>2 DEF Steps
  <2> HIDE DEF none, step, N, A
  <2>1. PICK f \in [0..N -> A] : f[0] = none /\ \A n \in 1..N : f[n] = step[n][f[n - 1]]
    <3>1. \E f : Recursion(f, N, A, none, step)
      BY <2>0, RecursionDefines
    <3> QED BY <3>1 DEF Recursion
  <2>2. ASSUME NEW n \in 1..N
        PROVE  f[n] = IF keeps(n) THEN Append(f[n - 1], s[n]) ELSE f[n - 1]
    <3>1. n - 1 \in 0..N
      BY <2>0
    <3>2. f[n - 1] \in A
      BY <3>1
    <3> QED BY <2>1, <3>2 DEF step
  <2>3. ASSUME NEW n \in 0..N
        PROVE  f[n] = IF n = 0 THEN <<>> ELSE IF keeps(n) THEN Append(f[n - 1], s[n]) ELSE f[n - 1]
    <3>1. CASE n = 0
      BY <2>1, <3>1 DEF none
    <3>2. CASE n # 0
      <4>1. n \in 1..N
        BY <2>0, <3>2
      <4> QED BY <2>2, <3>2, <4>1
    <3> QED BY <3>1, <3>2
  <2>4. Right(f)
    <3> HIDE DEF keeps, A, N
    <3> QED BY <2>1, <2>3
  <2> HIDE DEF Right
  <2> QED BY <2>4
<1> DEFINE kept == CHOOSE f : Right(f)
<1>4. Right(kept)
  BY <1>3
<1>5. WithExecutor(s, codes) = kept[N]
  BY DEF WithExecutor
<1>6. kept[0] = <<>> /\ \A n \in 1..N : kept[n] = IF keeps(n) THEN Append(kept[n - 1], s[n])
                                                  ELSE kept[n - 1]
  <2> HIDE DEF kept, keeps
  <2>1. 0 \in 0..N /\ \A n \in 1..N : n \in 0..N /\ n # 0
    BY <1>1
  <2> QED BY <1>4, <2>1
<1> HIDE DEF kept, Right
<1> DEFINE OK(n) == /\ kept[n] \in Seq(Plan) /\ DistinctPlans(kept[n])
                    /\ \A j \in 1..Len(kept[n]) :
                         kept[n][j].code \in ToSet(codes)
                         /\ \E i \in 1..n : kept[n][j] = s[i]
           G == {n \in Nat : n <= N => OK(n)}
<1>7. 0 \in G
  <2>1. 1..Len(<<>>) = {} /\ <<>> \in Seq(Plan)
    OBVIOUS
  <2> QED BY <1>6, <2>1 DEF DistinctPlans
<1>8. ASSUME NEW n \in Nat, n \in G PROVE n + 1 \in G
  <2> SUFFICES ASSUME n + 1 <= N PROVE OK(n + 1)
    OBVIOUS
  <2> DEFINE k == kept[n]
             x == s[n + 1]
  <2>1. n <= N /\ n + 1 \in 1..N /\ (n + 1) - 1 = n /\ n \in Nat
    BY <1>1
  <2>2. /\ k \in Seq(Plan) /\ DistinctPlans(k)
        /\ \A j \in 1..Len(k) : k[j].code \in ToSet(codes) /\ \E i \in 1..n : k[j] = s[i]
    BY <1>8, <2>1
  <2>3. kept[n + 1] = IF x.code \in ToSet(codes) THEN Append(k, x) ELSE k
    BY <1>6, <2>1
  <2>4. 1..n \subseteq 1..(n + 1) /\ n + 1 \in 1..(n + 1)
    BY <2>1
  <2>5. CASE x.code \notin ToSet(codes)
    <3>1. kept[n + 1] = k
      BY <2>3, <2>5
    <3> HIDE DEF k
    <3> QED BY <2>2, <2>4, <3>1
  <2>6. CASE x.code \in ToSet(codes)
    <3> DEFINE a == Append(k, x)
    <3>1. kept[n + 1] = a
      BY <2>3, <2>6
    <3>2. x \in Plan
      BY <1>1, <2>1
    <3> HIDE DEF k, x
    <3>3. /\ a \in Seq(Plan) /\ Len(a) = Len(k) + 1 /\ a[Len(k) + 1] = x /\ Len(k) \in Nat
          /\ \A j \in 1..Len(k) : a[j] = k[j]
      BY <2>2, <3>2
    <3> HIDE DEF a
    <3>4. ASSUME NEW j \in 1..Len(a)
          PROVE  a[j].code \in ToSet(codes) /\ \E i \in 1..(n + 1) : a[j] = s[i]
      <4>1. CASE j \in 1..Len(k)
        BY <2>2, <2>4, <3>3, <4>1
      <4>2. CASE j = Len(k) + 1
        <5>1. a[j] = s[n + 1] /\ a[j] = x
          BY <3>3, <4>2 DEF x
        <5> QED BY <2>4, <2>6, <5>1
      <4> QED BY <3>3, <4>1, <4>2
    <3>5. ASSUME NEW j \in 1..Len(k) PROVE ~SameKey(k[j], x)
      <4>1. PICK i \in 1..n : k[j] = s[i]
        BY <2>2
      <4>2. i \in 1..N /\ i # n + 1
        BY <1>1, <2>1
      <4> QED BY <2>1, <4>1, <4>2 DEF DistinctPlans, x
    <3>6. \A y, z : SameKey(y, z) => SameKey(z, y)
      BY DEF SameKey
    <3>7. DistinctPlans(a)
      <4> SUFFICES ASSUME NEW j \in 1..Len(a), NEW l \in 1..Len(a), SameKey(a[j], a[l])
                   PROVE  j = l
        BY DEF DistinctPlans
      <4>1. CASE j \in 1..Len(k) /\ l \in 1..Len(k)
        BY <2>2, <3>3, <4>1 DEF DistinctPlans
      <4>2. CASE j \in 1..Len(k) /\ l = Len(k) + 1
        BY <3>3, <3>5, <4>2
      <4>3. CASE j = Len(k) + 1 /\ l \in 1..Len(k)
        BY <3>3, <3>5, <3>6, <4>3
      <4> QED BY <3>3, <4>1, <4>2, <4>3
    <3> QED BY <3>1, <3>3, <3>4, <3>7
  <2> QED BY <2>5, <2>6
<1> HIDE DEF G
<1>9. N \in G
  BY <1>1, <1>7, <1>8, NatSetInduction
<1>10. OK(N)
  BY <1>1, <1>9 DEF G
<1> QED BY <1>5, <1>10

\* A plan that is published is the newest, in the place of itself only.
LEMMA RetainedFacts ==
  ASSUME NEW s \in Seq(Plan), DistinctPlans(s), NEW plan \in Plan,
         \A i \in 1..Len(s) : SameKey(s[i], plan) => s[i] = plan
  PROVE  LET r == Retained(s, plan)
         IN  /\ r \in Seq(Plan) /\ DistinctPlans(r)
             /\ \A j \in 1..Len(r) : r[j] = plan \/ \E i \in 1..Len(s) : r[j] = s[i]
             /\ plan.bytes <= PreparedBytes => r # <<>> /\ Last(r) = plan
<1> DEFINE r == Retained(s, plan)
           q == Popped(s, plan)
           a == Append(q, plan)
<1>0. plan.bytes \in Nat /\ PreparedBytes \in Nat
  BY PlanBytes, CacheConstants
<1>1. CASE plan.bytes > PreparedBytes \/ (s # <<>> /\ Last(s) = plan)
  <2>1. r = s
    BY <1>1 DEF Retained
  <2> HIDE DEF r
  <2>2. plan.bytes <= PreparedBytes => s # <<>> /\ Last(s) = plan
    BY <1>0, <1>1
  <2> QED BY <2>1, <2>2 DEF r
<1>2. CASE ~(plan.bytes > PreparedBytes \/ (s # <<>> /\ Last(s) = plan))
  <2>1. r = a
    BY <1>2 DEF Retained
  <2>2. IsInjective(s)
    BY DEF DistinctPlans, SameKey, IsInjective
  <2>3. q \in Seq(Plan) /\ IsInjective(q) /\ Range(q) = Range(s) \ {plan}
    BY <2>2, PoppedFacts
  <2> HIDE DEF q
  <2>4. /\ a \in Seq(Plan) /\ Len(a) = Len(q) + 1 /\ Len(q) \in Nat /\ a[Len(q) + 1] = plan
        /\ \A j \in 1..Len(q) : a[j] = q[j]
    BY <2>3
  <2>5. ASSUME NEW j \in 1..Len(q)
        PROVE  \E i \in 1..Len(s) : q[j] = s[i] /\ ~SameKey(s[i], plan)
    <3>0. q[j] \in Range(q)
      BY <2>3 DEF Range
    <3>1. q[j] \in Range(s) \ {plan}
      BY <2>3, <3>0
    <3> QED BY <3>1 DEF Range
  <2>6. a # <<>> /\ Last(a) = plan
    BY <2>4 DEF Last
  <2> HIDE DEF a
  <2>7. \A x, y : SameKey(x, y) => SameKey(y, x)
    BY DEF SameKey
  <2>8. ASSUME NEW j \in 1..Len(q), NEW l \in 1..Len(q), SameKey(q[j], q[l]) PROVE j = l
    <3>1. PICK i \in 1..Len(s) : q[j] = s[i]
      BY <2>5
    <3>2. PICK k \in 1..Len(s) : q[l] = s[k]
      BY <2>5
    <3>3. i = k
      BY <2>8, <3>1, <3>2 DEF DistinctPlans
    <3> QED BY <2>3, <3>1, <3>2, <3>3 DEF IsInjective
  <2>9. DistinctPlans(a)
    <3> SUFFICES ASSUME NEW j \in 1..Len(a), NEW l \in 1..Len(a), SameKey(a[j], a[l])
                 PROVE  j = l
      BY DEF DistinctPlans
    <3>1. CASE j \in 1..Len(q) /\ l \in 1..Len(q)
      BY <2>4, <2>8, <3>1
    <3>2. CASE j \in 1..Len(q) /\ l = Len(q) + 1
      BY <2>4, <2>5, <3>2
    <3>3. CASE j = Len(q) + 1 /\ l \in 1..Len(q)
      BY <2>4, <2>5, <2>7, <3>3
    <3> QED BY <2>4, <3>1, <3>2, <3>3
  <2>10. \A j \in 1..Len(a) : a[j] = plan \/ \E i \in 1..Len(s) : a[j] = s[i]
    BY <2>4, <2>5
  <2> HIDE DEF r
  <2> QED BY <2>1, <2>4, <2>6, <2>9, <2>10 DEF r
<1> QED BY <1>1, <1>2

\* Trimming keeps the newest that fit, so the last one if that does.
LEMMA TrimmedFacts ==
  ASSUME NEW s \in Seq(Plan), DistinctPlans(s)
  PROVE  LET r == Trimmed(s)
         IN  /\ r \in Seq(Plan) /\ DistinctPlans(r)
             /\ Len(r) <= RecompileLimit /\ Bytes(r) <= PreparedBytes
             /\ \A j \in 1..Len(r) : \E i \in 1..Len(s) : r[j] = s[i]
             /\ s # <<>> /\ RecompileLimit # 0 /\ Last(s).bytes <= PreparedBytes =>
                  r # <<>> /\ Last(r) = Last(s)
<1> DEFINE N == Len(s)
           rest(n) == SubSeq(s, n + 1, N)
           fits(n) == N - n <= RecompileLimit /\ Bytes(rest(n)) <= PreparedBytes
           F == {n \in 0..N : fits(n)}
           m == Min(F)
           r == rest(m)
<1>1. N \in Nat /\ RecompileLimit \in Nat /\ PreparedBytes \in Nat
  BY CacheConstants
<1>2. ASSUME NEW n \in 0..N
      PROVE  /\ rest(n) \in Seq(Plan) /\ Len(rest(n)) = N - n
             /\ DOMAIN rest(n) = 1..(N - n)
             /\ \A i \in 1..(N - n) : rest(n)[i] = s[n + i] /\ n + i \in 1..N
  BY SuffixFacts
<1>3. N \in F
  <2>1. rest(N) \in Seq(Plan) /\ Len(rest(N)) = 0 /\ N \in 0..N
    BY <1>1, <1>2
  <2> HIDE DEF rest
  <2>2. rest(N) = <<>>
    BY <2>1
  <2>3. Bytes(rest(N)) = 0
    BY <2>1, <2>2, BytesFacts
  <2> QED BY <1>1, <2>1, <2>3
<1>4. s # <<>> /\ RecompileLimit # 0 /\ Last(s).bytes <= PreparedBytes => N - 1 \in F
  <2> SUFFICES ASSUME s # <<>>, RecompileLimit # 0, Last(s).bytes <= PreparedBytes
               PROVE  N - 1 \in F
    OBVIOUS
  <2>1. N - 1 \in 0..N /\ N - (N - 1) = 1 /\ 1 \in 1..1 /\ (N - 1) + 1 = N
    BY <1>1
  <2>2. rest(N - 1) \in Seq(Plan) /\ Len(rest(N - 1)) = 1 /\ rest(N - 1)[1] = s[N]
    BY <1>2, <2>1
  <2> HIDE DEF rest
  <2>3. Bytes(rest(N - 1)) = s[N].bytes
    BY <2>2, BytesFacts
  <2>4. Last(s) = s[N]
    BY DEF Last
  <2> QED BY <1>1, <2>1, <2>3, <2>4
<1> HIDE DEF fits, rest
<1>5. m \in F /\ \A n \in F : m <= n
  <2>1. \E n \in F : \A k \in F : n <= k
    <3> DEFINE G == {n \in Nat : \A k \in 0..n : k \in F => \E x \in F : \A y \in F : x <= y}
    <3>1. 0 \in G
      <4>1. ASSUME 0 \in F PROVE \A y \in F : 0 <= y
        OBVIOUS
      <4> QED BY <4>1
    <3>2. ASSUME NEW n \in Nat, n \in G PROVE n + 1 \in G
      <4>1. CASE \E k \in 0..n : k \in F
        BY <3>2, <4>1
      <4>2. CASE ~ \E k \in 0..n : k \in F
        <5>1. ASSUME n + 1 \in F PROVE \A y \in F : n + 1 <= y
          BY <4>2
        <5>2. \A k \in 0..(n + 1) : k \in F => k = n + 1
          BY <4>2
        <5> QED BY <5>1, <5>2
      <4> QED BY <4>1, <4>2
    <3> HIDE DEF G
    <3>3. N \in G
      BY <1>1, <3>1, <3>2, NatSetInduction
    <3> HIDE DEF F
    <3>4. N \in 0..N
      BY <1>1
    <3> QED BY <1>3, <3>3, <3>4 DEF G
  <2> HIDE DEF F
  <2> QED BY <2>1 DEF Min
<1>6. Trimmed(s) = r
  BY DEF Trimmed, fits, rest
<1> HIDE DEF m
<1>7. /\ m \in 0..N /\ fits(m)
      /\ (s # <<>> /\ RecompileLimit # 0 /\ Last(s).bytes <= PreparedBytes => m <= N - 1)
  BY <1>4, <1>5
<1>8. /\ r \in Seq(Plan) /\ Len(r) = N - m /\ Len(r) \in Nat
      /\ \A i \in 1..(N - m) : r[i] = s[m + i] /\ m + i \in 1..N
  BY <1>1, <1>2, <1>7
<1>9. Len(r) <= RecompileLimit /\ Bytes(r) <= PreparedBytes
  BY <1>7, <1>8 DEF fits
<1> HIDE DEF r
<1>10. DistinctPlans(r)
  <2> SUFFICES ASSUME NEW i \in 1..Len(r), NEW j \in 1..Len(r), SameKey(r[i], r[j])
               PROVE  i = j
    BY DEF DistinctPlans
  <2>1. m + i = m + j
    BY <1>8 DEF DistinctPlans
  <2> QED BY <1>1, <1>7, <1>8, <2>1
<1>11. ASSUME s # <<>>, RecompileLimit # 0, Last(s).bytes <= PreparedBytes
       PROVE  r # <<>> /\ Last(r) = Last(s)
  <2>1. N - m \in 1..(N - m) /\ m + (N - m) = N
    BY <1>1, <1>7, <1>11
  <2> QED BY <1>8, <2>1 DEF Last
<1>12. \A j \in 1..Len(r) : \E i \in 1..N : r[j] = s[i]
  BY <1>8
<1> QED BY <1>6, <1>8, <1>9, <1>10, <1>11, <1>12

Keys == {c.key : c \in Calls}
Abis == {c.abi : c \in Calls}
Codes == {c.code : c \in Calls}

CacheTypes ==
  /\ graphs \in Seq(Keys) /\ executors \in Seq(Codes) /\ prepared \in Seq(Plan)
  /\ DOMAIN lowerings = Range(graphs)
  /\ \A k \in DOMAIN lowerings : lowerings[k] \in Seq(Abis)

CacheInv == CacheTypes /\ CacheConsistent

\* A map, within its limit, and one with item as its newest entry.
MapOK(s) == IsInjective(s) /\ Len(s) <= RecompileLimit
NewestIn(r, S, s, item) ==
  /\ r \in Seq(S) /\ MapOK(r) /\ r # <<>> /\ Last(r) = item /\ item \in Range(r)
  /\ Range(r) \subseteq Range(s) \cup {item}

LEMMA PublishedNewest ==
  ASSUME NEW S, NEW s \in Seq(S), MapOK(s), RecompileLimit # 0, NEW item \in S
  PROVE  NewestIn(Published(s, item), S, s, item)
<1>1. IsInjective(s) /\ Len(s) <= RecompileLimit
  BY DEF MapOK
<1> DEFINE r == Published(s, item)
<1>2. /\ r \in Seq(S) /\ IsInjective(r) /\ Len(r) <= RecompileLimit
      /\ r # <<>> /\ Last(r) = item /\ item \in Range(r)
      /\ Range(r) \subseteq Range(s) \cup {item}
  BY <1>1, PublishedFacts
<1> QED BY <1>2 DEF NewestIn, MapOK

LEMMA MapsOK ==
  ASSUME CacheInv
  PROVE  /\ MapOK(graphs) /\ MapOK(executors)
         /\ \A k \in DOMAIN lowerings : MapOK(lowerings[k])
         /\ DistinctPlans(prepared)
BY DEF CacheInv, CacheTypes, CacheConsistent, MapOK, DistinctPlans, SameKey

\* The plan that a call publishes, which is there already or new.
LEMMA PreparationFacts ==
  ASSUME CacheInv, NEW c \in Calls
  PROVE  LET plan == Preparation(c)
         IN  /\ plan \in Plan /\ plan.code = c.code /\ plan.shape = c.shape
             /\ c.bytes <= PreparedBytes => plan.bytes <= PreparedBytes
             /\ \A i \in 1..Len(prepared) : SameKey(prepared[i], plan) => prepared[i] = plan
<1> DEFINE plan == Preparation(c)
           at == {i \in DOMAIN prepared : prepared[i].code = c.code /\ prepared[i].shape = c.shape}
<1>1. prepared \in Seq(Plan) /\ DOMAIN prepared = 1..Len(prepared) /\ DistinctPlans(prepared)
  BY MapsOK DEF CacheInv, CacheTypes
<1>2. CASE at = {}
  <2>1. plan = [code |-> c.code, shape |-> c.shape, bytes |-> c.bytes]
    BY <1>2 DEF Preparation
  <2>2. plan \in Plan
    BY <2>1 DEF Plan
  <2>3. \A i \in 1..Len(prepared) : ~SameKey(prepared[i], plan)
    BY <1>1, <1>2, <2>1 DEF SameKey
  <2> QED BY <2>1, <2>2, <2>3
<1>3. ASSUME NEW i \in at
      PROVE  /\ plan \in Plan /\ plan.code = c.code /\ plan.shape = c.shape
             /\ c.bytes <= PreparedBytes => plan.bytes <= PreparedBytes
             /\ \A j \in 1..Len(prepared) : SameKey(prepared[j], plan) => prepared[j] = plan
  <2>1. i \in 1..Len(prepared) /\ prepared[i].code = c.code /\ prepared[i].shape = c.shape
    BY <1>1
  <2>2. at = {i}
    BY <1>1, <2>1 DEF DistinctPlans, SameKey
  <2>3. Max({i}) = i
    BY <2>1 DEF Max
  <2>4. plan = prepared[i]
    BY <2>2, <2>3 DEF Preparation
  <2>5. plan.bytes <= PreparedBytes
    <3>1. /\ Bytes(prepared) \in Nat /\ prepared[i].bytes <= Bytes(prepared)
          /\ prepared[i] \in Plan
      BY <1>1, <2>1, BytesFacts
    <3>2. Bytes(prepared) <= PreparedBytes
      BY DEF CacheInv, CacheConsistent
    <3> QED BY <2>4, <3>1, <3>2, PlanBytes, CacheConstants
  <2>6. \A j \in 1..Len(prepared) : SameKey(prepared[j], plan) => prepared[j] = plan
    BY <2>1, <2>4, <1>1 DEF DistinctPlans
  <2> HIDE DEF plan, at
  <2> QED BY <1>1, <2>1, <2>4, <2>5, <2>6
<1> QED BY <1>2, <1>3

\* The three steps of _publish_preparation, and the running count of bytes.
LEMMA PublishedPlans ==
  ASSUME CacheInv, NEW c \in Calls, NEW codes,
         _publish_preparation(Preparation(c), codes)
  PROVE  /\ prepared' \in Seq(Plan) /\ DistinctPlans(prepared')
         /\ Len(prepared') <= RecompileLimit
         /\ prepared_bytes' = Bytes(prepared') /\ Bytes(prepared') <= PreparedBytes
         /\ c.code \in ToSet(codes) =>
              \A j \in 1..Len(prepared') : prepared'[j].code \in ToSet(codes)
         /\ c.bytes <= PreparedBytes /\ RecompileLimit # 0 =>
              /\ prepared' # <<>>
              /\ Last(prepared').code = c.code /\ Last(prepared').shape = c.shape
<1> DEFINE plan == Preparation(c)
           backed == WithExecutor(prepared, codes)
           retained == Retained(backed, plan)
           trimmed == Trimmed(retained)
<1>1. prepared \in Seq(Plan) /\ DistinctPlans(prepared) /\ prepared_bytes = Bytes(prepared)
  BY MapsOK DEF CacheInv, CacheTypes, CacheConsistent
<1>2. /\ plan \in Plan /\ plan.code = c.code /\ plan.shape = c.shape
      /\ c.bytes <= PreparedBytes => plan.bytes <= PreparedBytes
      /\ \A i \in 1..Len(prepared) : SameKey(prepared[i], plan) => prepared[i] = plan
  BY PreparationFacts
<1> HIDE DEF plan
<1>3. /\ backed \in Seq(Plan) /\ DistinctPlans(backed)
      /\ \A j \in 1..Len(backed) : backed[j].code \in ToSet(codes)
                                   /\ \E i \in 1..Len(prepared) : backed[j] = prepared[i]
  BY <1>1, WithExecutorFacts
<1> HIDE DEF backed
<1>4. \A j \in 1..Len(backed) : SameKey(backed[j], plan) => backed[j] = plan
  BY <1>2, <1>3
<1>5. /\ retained \in Seq(Plan) /\ DistinctPlans(retained)
      /\ \A j \in 1..Len(retained) : retained[j] = plan
                                     \/ \E i \in 1..Len(backed) : retained[j] = backed[i]
      /\ plan.bytes <= PreparedBytes => retained # <<>> /\ Last(retained) = plan
  BY <1>2, <1>3, <1>4, RetainedFacts
<1> HIDE DEF retained
<1>6. /\ trimmed \in Seq(Plan) /\ DistinctPlans(trimmed)
      /\ Len(trimmed) <= RecompileLimit /\ Bytes(trimmed) <= PreparedBytes
      /\ \A j \in 1..Len(trimmed) : \E i \in 1..Len(retained) : trimmed[j] = retained[i]
      /\ retained # <<>> /\ RecompileLimit # 0 /\ Last(retained).bytes <= PreparedBytes =>
           trimmed # <<>> /\ Last(trimmed) = Last(retained)
  BY <1>5, TrimmedFacts
<1> HIDE DEF trimmed
<1>7. /\ prepared' = trimmed
      /\ prepared_bytes' = prepared_bytes - (Bytes(prepared) - Bytes(backed))
                                          + (Bytes(retained) - Bytes(backed))
                                          - (Bytes(retained) - Bytes(trimmed))
  BY DEF _publish_preparation, plan, backed, retained, trimmed
<1>8. /\ Bytes(prepared) \in Nat /\ Bytes(backed) \in Nat
      /\ Bytes(retained) \in Nat /\ Bytes(trimmed) \in Nat
  BY <1>1, <1>3, <1>5, <1>6, BytesFacts
<1>9. prepared_bytes' = Bytes(trimmed)
  BY <1>1, <1>7, <1>8
<1>10. ASSUME c.code \in ToSet(codes)
       PROVE  \A j \in 1..Len(trimmed) : trimmed[j].code \in ToSet(codes)
  <2> SUFFICES ASSUME NEW j \in 1..Len(trimmed) PROVE trimmed[j].code \in ToSet(codes)
    OBVIOUS
  <2>1. PICK i \in 1..Len(retained) : trimmed[j] = retained[i]
    BY <1>6
  <2>2. CASE retained[i] = plan
    BY <1>2, <1>10, <2>1, <2>2
  <2>3. CASE \E k \in 1..Len(backed) : retained[i] = backed[k]
    BY <1>3, <2>1, <2>3
  <2> QED BY <1>5, <2>2, <2>3
<1>11. ASSUME c.bytes <= PreparedBytes, RecompileLimit # 0
       PROVE  trimmed # <<>> /\ Last(trimmed).code = c.code /\ Last(trimmed).shape = c.shape
  <2>1. plan.bytes <= PreparedBytes
    BY <1>2, <1>11
  <2>2. retained # <<>> /\ Last(retained) = plan
    BY <1>5, <2>1
  <2>3. trimmed # <<>> /\ Last(trimmed) = plan
    BY <1>6, <1>11, <2>1, <2>2
  <2> QED BY <1>2, <2>3
<1> QED BY <1>6, <1>7, <1>9, <1>10, <1>11

LEMMA CompiledCache ==
  ASSUME CacheInv, NEW c \in Calls, compiled(c)
  PROVE  CacheInv'
<1> DEFINE entry == IF c.key \in DOMAIN lowerings THEN lowerings[c.key] ELSE <<>>
<1>1. /\ graphs' = Published(graphs, c.key)
      /\ lowerings' = [k \in ToSet(graphs') |->
                         IF k = c.key THEN Published(entry, c.abi) ELSE lowerings[k]]
      /\ executors' = Published(executors, c.code)
      /\ _publish_preparation(Preparation(c), executors')
  BY DEF compiled
<1>2. /\ graphs \in Seq(Keys) /\ executors \in Seq(Codes)
      /\ DOMAIN lowerings = Range(graphs)
      /\ \A k \in DOMAIN lowerings : lowerings[k] \in Seq(Abis) /\ MapOK(lowerings[k])
      /\ MapOK(graphs) /\ MapOK(executors)
      /\ c.key \in Keys /\ c.abi \in Abis /\ c.code \in Codes
  BY MapsOK DEF CacheInv, CacheTypes, Keys, Abis, Codes
<1>3. RecompileLimit \in Nat \ {0}
  <2>1. RecompileLimit \in Nat /\ Len(graphs) \in Nat /\ Len(graphs) <= RecompileLimit
    BY <1>2, CacheConstants DEF MapOK
  <2>2. c.key \in ToSet(graphs) => Len(graphs) # 0
    BY <1>2 DEF ToSet
  <2>3. c.key \in ToSet(graphs) \/ Len(graphs) < RecompileLimit
    BY DEF compiled
  <2> QED BY <2>1, <2>2, <2>3
<1>4. entry \in Seq(Abis) /\ MapOK(entry)
  <2>1. <<>> \in Seq(Abis) /\ IsInjective(<<>>) /\ Len(<<>>) <= RecompileLimit
    BY <1>3, EmptyBlocks
  <2> QED BY <1>2, <2>1 DEF MapOK
<1> HIDE DEF entry
<1>5. /\ graphs' \in Seq(Keys) /\ MapOK(graphs') /\ graphs' # <<>> /\ Last(graphs') = c.key
      /\ c.key \in Range(graphs') /\ Range(graphs') \subseteq Range(graphs) \cup {c.key}
  <2>1. NewestIn(graphs', Keys, graphs, c.key)
    BY <1>1, <1>2, <1>3, PublishedNewest
  <2> QED BY <2>1 DEF NewestIn
<1>6. /\ executors' \in Seq(Codes) /\ MapOK(executors') /\ Last(executors') = c.code
      /\ c.code \in Range(executors')
  <2>1. NewestIn(executors', Codes, executors, c.code)
    BY <1>1, <1>2, <1>3, PublishedNewest
  <2> QED BY <2>1 DEF NewestIn
<1> DEFINE e == Published(entry, c.abi)
<1>7. e \in Seq(Abis) /\ MapOK(e) /\ Last(e) = c.abi
  <2>1. NewestIn(e, Abis, entry, c.abi)
    BY <1>2, <1>3, <1>4, PublishedNewest
  <2> HIDE DEF e
  <2> QED BY <2>1 DEF NewestIn
<1> HIDE DEF e
<1>8. /\ DOMAIN lowerings' = Range(graphs') /\ lowerings'[c.key] = e
      /\ \A k \in DOMAIN lowerings' : lowerings'[k] \in Seq(Abis) /\ MapOK(lowerings'[k])
  <2>1. lowerings' = [k \in Range(graphs') |-> IF k = c.key THEN e ELSE lowerings[k]]
    BY <1>1 DEF e, ToSet, Range
  <2> QED BY <1>2, <1>5, <1>7, <2>1
<1>9. /\ prepared' \in Seq(Plan) /\ DistinctPlans(prepared')
      /\ Len(prepared') <= RecompileLimit
      /\ prepared_bytes' = Bytes(prepared') /\ Bytes(prepared') <= PreparedBytes
      /\ \A j \in 1..Len(prepared') : prepared'[j].code \in ToSet(executors')
      /\ c.bytes <= PreparedBytes =>
           /\ prepared' # <<>>
           /\ Last(prepared').code = c.code /\ Last(prepared').shape = c.shape
  <2>1. c.code \in ToSet(executors')
    BY <1>6 DEF ToSet, Range
  <2> QED BY <1>1, <1>3, <2>1, PublishedPlans
<1>10. CacheTypes'
  BY <1>5, <1>6, <1>8, <1>9 DEF CacheTypes
<1>11. CacheConsistent'
  <2>1. \A i \in DOMAIN prepared' : prepared'[i].code \in ToSet(executors')
    BY <1>9
  <2>2. \A i, j \in DOMAIN prepared' :
          prepared'[i].code = prepared'[j].code /\ prepared'[i].shape = prepared'[j].shape => i = j
    BY <1>9 DEF DistinctPlans, SameKey
  <2>3. \A map \in {graphs', executors'} \cup {lowerings'[k] : k \in DOMAIN lowerings'} :
          Len(map) <= RecompileLimit /\ IsInjective(map)
    BY <1>5, <1>6, <1>8 DEF MapOK
  <2>4. /\ Last(graphs') = c.key /\ Last(lowerings'[c.key]) = c.abi /\ Last(executors') = c.code
        /\ c.bytes <= PreparedBytes =>
             prepared' # <<>> /\ Last(prepared').code = c.code /\ Last(prepared').shape = c.shape
    BY <1>5, <1>6, <1>7, <1>8, <1>9
  <2> QED BY <1>9, <2>1, <2>2, <2>3, <2>4 DEF CacheConsistent
<1> QED BY <1>10, <1>11 DEF CacheInv

LEMMA EmptyCache == CacheInit => CacheInv
<1> SUFFICES ASSUME CacheInit PROVE CacheInv
  OBVIOUS
<1>1. /\ graphs = <<>> /\ executors = <<>> /\ prepared = <<>> /\ prepared_bytes = 0
      /\ DOMAIN lowerings = {}
  BY DEF CacheInit
<1>2. Bytes(<<>>) = 0 /\ <<>> \in Seq(Plan) /\ <<>> \in Seq(Keys) /\ <<>> \in Seq(Codes)
  <2>1. <<>> \in Seq(Plan) /\ <<>> \in Seq(Keys) /\ <<>> \in Seq(Codes)
    OBVIOUS
  <2>2. Bytes(<<>>) = 0
    BY <2>1, BytesFacts
  <2> QED BY <2>1, <2>2
<1>3. Range(<<>>) = {} /\ IsInjective(<<>>) /\ DOMAIN <<>> = {} /\ Len(<<>>) = 0
  BY EmptyBlocks
<1>4. CacheTypes
  BY <1>1, <1>2, <1>3 DEF CacheTypes
<1>5. CacheConsistent
  <2>1. 0 <= RecompileLimit /\ 0 <= PreparedBytes
    BY CacheConstants
  <2>2. {lowerings[k] : k \in DOMAIN lowerings} = {}
    BY <1>1
  <2> QED BY <1>1, <1>2, <1>3, <2>1, <2>2 DEF CacheConsistent
<1> QED BY <1>4, <1>5 DEF CacheInv

LEMMA NextCache == CacheInv /\ [CacheStep]_cacheVars => CacheInv'
<1>1. ASSUME CacheInv, UNCHANGED cacheVars PROVE CacheInv'
  BY <1>1 DEF cacheVars, CacheInv, CacheTypes, CacheConsistent
<1>2. ASSUME CacheInv, NEW c \in Calls, compiled(c) PROVE CacheInv'
  BY <1>2, CompiledCache
<1>3. clear => CacheInv'
  <2>1. CacheInit => CacheInv
    BY EmptyCache
  <2>2. clear => CacheInit'
    BY DEF clear, Empty, CacheInit
  <2> QED BY <2>1, <2>2, PTL
<1> QED BY <1>1, <1>2, <1>3 DEF CacheStep

(***************************************************************************)
(* What the default backend keeps of one function is consistent between    *)
(* calls, for all limits and all calls: no plan without its executor, a    *)
(* running count of bytes that is the sum of those there are, every map    *)
(* within its limit and without repetition, and what the last call needed  *)
(* newest in each.                                                         *)
(***************************************************************************)
THEOREM CacheStaysConsistent == Spec => []CacheConsistent
<1>1. Init => CacheInv
  BY EmptyCache DEF Init
<1>2. CacheInv /\ [Next]_vars => CacheInv'
  BY NextCache, OneComponent
<1>3. CacheInv => CacheConsistent
  BY DEF CacheInv
<1> QED BY <1>1, <1>2, <1>3, PTL DEF Spec
=============================================================================
