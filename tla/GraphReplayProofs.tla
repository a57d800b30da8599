-------------------------- MODULE GraphReplayProofs --------------------------
(***************************************************************************)
(* The safety invariants of GraphReplay, for every set of threads,         *)
(* contexts, arguments and handles, and every limit.                       *)
(***************************************************************************)
EXTENDS GraphReplay, TLAPS

-----------------------------------------------------------------------------
(* The inductive invariant.                                                *)

Places == {"idle", "get", "retire", "acquire", "submit", "wait", "drop", "leave"}

Executable == [state : {"built"}, key : Key, context : Contexts]

\* A thread's stack of contexts is always of one, also right after an
\* executable of another context was destroyed.
Types ==
  /\ seen \in Seq([key : Key, hits : 1..3])
  /\ entries \in Seq([key : Key, graph : Graphs])
  /\ built \in [Graphs -> {Free} \cup Executable]
  /\ pc \in [Threads -> Places]
  /\ key \in [Threads -> Key \cup {None}]
  /\ \A t \in Threads : pc[t] # "idle" => key[t] \in Key
  /\ kept \in [Threads -> Graphs \cup {None}]
  /\ retired \in [Threads -> Graphs \cup {None}]
  /\ flying \in [Threads -> Graphs \cup {None}]
  /\ forgotten \subseteq Graphs /\ stranded \subseteq Graphs
  /\ stack = [t \in Threads |-> <<IF pc[t] = "idle" THEN Home[t] ELSE key[t].context>>]
  /\ asked \in [Key -> 0..3]

\* When an addition has an Arc, or two, and that what flies is still held.
ArcsOf(t) ==
  /\ kept[t] # None => pc[t] \in {"retire", "acquire", "submit", "wait", "drop"}
  /\ pc[t] \in {"retire", "acquire", "submit", "drop"} => kept[t] # None
  /\ retired[t] # None <=> pc[t] = "retire"
  /\ retired[t] # None => retired[t] # kept[t]
  /\ flying[t] # None => pc[t] = "wait" /\ flying[t] = kept[t]

Arcs == doubtful \subseteq forgotten /\ \A t \in Threads : ArcsOf(t)

HasArc(g) == g \in Cached \cup forgotten \/ \E t \in Threads : g \in {kept[t], retired[t]}

Alive == \A g \in Graphs : HasArc(g) => built[g] # Free

\* What is launched is what was built for the key it was found by.
Labelled ==
  /\ \A g \in Graphs : built[g] # Free => built[g].context = built[g].key.context
  /\ \A i \in DOMAIN entries : built[entries[i].graph].key = entries[i].key
  /\ \A t \in Threads : pc[t] \in {"retire", "acquire", "submit"} => built[kept[t]].key = key[t]

\* The cache forgets requests, and never invents one.
Counts == \A i \in DOMAIN seen : seen[i].hits <= asked[seen[i].key]

ReplayInv ==
  /\ Types /\ Arcs /\ Alive /\ Labelled /\ Counts
  /\ ReplayBounded /\ NoneLeaks

-----------------------------------------------------------------------------
(* Facts on sequences, and on executables.                                 *)

LEMMA OneContext ==
  ASSUME NEW x, NEW y
  PROVE  /\ Last(<<x>>) = x /\ Switched(<<x>>, y) = <<y>>
         /\ Popped(Append(<<x>>, y)) = <<x>>
<1>1. Front(<<x>>) = <<>> /\ Last(<<x>>) = x
  BY DEF Front, Last
<1> DEFINE c == Append(<<x>>, y)
           d == SubSeq(c, 1, 1)
<1>2. c \in Seq({x, y}) /\ Len(c) = 2 /\ c[1] = x
  OBVIOUS
<1> HIDE DEF c
<1>3. d \in Seq({x, y}) /\ Len(d) = 1 /\ d[1] = x
  BY <1>2
<1> HIDE DEF d
<1>4. d = <<x>>
  BY <1>3
<1>5. Append(<<>>, y) = <<y>>
  OBVIOUS
<1>6. Switched(<<x>>, y) = <<y>>
  BY <1>1, <1>5 DEF Switched
<1>7. Popped(Append(<<x>>, y)) = <<x>>
  BY <1>2, <1>4 DEF Popped, Front, c, d
<1> QED BY <1>1, <1>6, <1>7

\* Appended to a list that is full, an element pushes out the first.
LEMMA Pushed ==
  ASSUME NEW S, NEW s \in Seq(S), NEW e \in S, NEW limit \in Nat \ {0}, Len(s) <= limit
  PROVE  LET c == Append(IF Len(s) = limit THEN Tail(s) ELSE s, e)
             k == IF Len(s) = limit THEN 1 ELSE 0
         IN  /\ c \in Seq(S) /\ Len(c) \in 1..limit /\ c[Len(c)] = e
             /\ Len(c) = Len(s) - k + 1
             /\ DOMAIN c = 1..Len(c) /\ DOMAIN s = 1..Len(s)
             /\ \A i \in 1..(Len(c) - 1) : i + k \in DOMAIN s /\ c[i] = s[i + k]
<1>1. CASE Len(s) = limit
  <2>1. s # <<>> /\ Tail(s) \in Seq(S) /\ Len(Tail(s)) = Len(s) - 1
    BY <1>1
  <2>2. \A i \in 1..(Len(s) - 1) : Tail(s)[i] = s[i + 1]
    BY <2>1
  <2>3. /\ Append(Tail(s), e) \in Seq(S) /\ Len(Append(Tail(s), e)) = Len(s)
        /\ Append(Tail(s), e)[Len(s)] = e
        /\ \A i \in 1..(Len(s) - 1) : Append(Tail(s), e)[i] = Tail(s)[i]
    BY <2>1
  <2> QED BY <1>1, <2>1, <2>2, <2>3
<1>2. CASE Len(s) # limit
  BY <1>2
<1> QED BY <1>1, <1>2

LEMMA ElementOf ==
  ASSUME NEW S, NEW s \in Seq(S)
  PROVE  /\ DOMAIN s = 1..Len(s) /\ \A i \in DOMAIN s : s[i] \in S
         /\ s # <<>> => Head(s) \in S /\ Head(s) = s[1] /\ 1 \in DOMAIN s
OBVIOUS

LEMMA FreeIsNotBuilt == Free \notin Executable
<1>1. \A e \in Executable : e.state = "built"
  BY DEF Executable
<1>2. Free.state = "free"
  BY DEF Free
<1> QED BY <1>1, <1>2

\* Dropping an Arc leaves the contexts as they were, and destroys at most
\* the executable that it was the last Arc of.
LEMMA DropArcDoes ==
  ASSUME Types, NEW t \in Threads, NEW g \in Graphs, DropArc(t, g)
  PROVE  /\ stack' = stack
         /\ \/ UNCHANGED <<built, stranded>> /\ Shared(t, g)
            \/ ~Shared(t, g) /\ built' = [built EXCEPT ![g] = Free] /\ UNCHANGED stranded
            \/ ~Shared(t, g) /\ stranded' = stranded \cup {g} /\ UNCHANGED built
<1> DEFINE c == IF pc[t] = "idle" THEN Home[t] ELSE key[t].context
<1>1. stack[t] = <<c>>
  BY DEF Types
<1>2. Popped(Append(<<c>>, built[g].context)) = <<c>>
  BY OneContext
<1>3. [stack EXCEPT ![t] = Popped(Append(@, built[g].context))] = stack
  BY <1>1, <1>2 DEF Types
<1> QED BY <1>3 DEF DropArc

\* What a thread is doing to its own Arcs says nothing of those of others.
OnlyThread(t) ==
  \A u \in Threads \ {t} :
    /\ pc'[u] = pc[u] /\ key'[u] = key[u] /\ kept'[u] = kept[u]
    /\ retired'[u] = retired[u] /\ flying'[u] = flying[u]

-----------------------------------------------------------------------------
(* The steps of an addition.                                               *)

\* The third request of a key, for which an executable g is built.
Builds(t, g) ==
  /\ built[g] = Free
  /\ built' = [built EXCEPT ![g] = [state |-> "built", key |-> key[t], context |-> Current(t)]]
  /\ entries' = Append(IF Full THEN Tail(entries) ELSE entries, [key |-> key[t], graph |-> g])
  /\ kept' = [kept EXCEPT ![t] = g]
  /\ retired' = [retired EXCEPT ![t] = IF Full THEN Head(entries).graph ELSE None]
  /\ Goto(t, IF Full THEN "retire" ELSE "acquire")

\* A request of a key that was seen before.
LEMMA CountedDoes ==
  ASSUME Types, NEW t \in Threads, Counted(t)
  PROVE  \E i \in DOMAIN seen :
           LET hits == Upto3(seen[i].hits + 1) IN
           /\ seen[i].key = key[t] /\ hits \in 1..3 /\ seen[i].hits \in 1..3
           /\ seen' = [seen EXCEPT ![i].hits = hits]
           /\ \/ Goto(t, "wait") /\ UNCHANGED <<entries, built, kept, retired>>
              \/ hits = 3 /\ \E g \in Graphs : Builds(t, g)
<1>1. PICK i \in DOMAIN seen :
        LET hits == Upto3(seen[i].hits + 1) IN
        /\ IsSeen(t, i)
        /\ seen' = [seen EXCEPT ![i].hits = hits]
        /\ \/ Goto(t, "wait") /\ UNCHANGED <<entries, built, kept, retired>>
           \/ Repeated(hits) /\ \E g \in Graphs : Builds(t, g)
  BY DEF Counted, Builds
<1>2. seen[i] \in [key : Key, hits : 1..3]
  <2>1. seen \in Seq([key : Key, hits : 1..3])
    BY DEF Types
  <2> QED BY <2>1, ElementOf
<1>3. seen[i].key = key[t] /\ seen[i].hits \in 1..3
  BY <1>1, <1>2 DEF IsSeen
<1>4. Upto3(seen[i].hits + 1) \in 1..3
  BY <1>3 DEF Upto3
<1>5. Repeated(Upto3(seen[i].hits + 1)) => Upto3(seen[i].hits + 1) = 3
  BY <1>4 DEF Repeated
<1> QED BY <1>1, <1>3, <1>4, <1>5

LEMMA StepAlone ==
  ASSUME Types, NEW t \in Threads, Begin(t) \/ Step(t)
  PROVE  OnlyThread(t)
<1> SUFFICES ASSUME NEW u \in Threads \ {t}
             PROVE  /\ pc'[u] = pc[u] /\ key'[u] = key[u] /\ kept'[u] = kept[u]
                    /\ retired'[u] = retired[u] /\ flying'[u] = flying[u]
  BY DEF OnlyThread
<1> USE DEF Types, Goto
<1>1. CASE Begin(t)
  BY <1>1 DEF Begin
<1>2. CASE Get(t)
  <2>1. CASE Hit(t)
    BY <1>2, <2>1 DEF Get, Hit
  <2>2. CASE Unseen(t)
    BY <1>2, <2>2 DEF Get, Unseen
  <2>3. CASE Counted(t)
    <3>1. CASE Goto(t, "wait") /\ UNCHANGED <<kept, retired>>
      BY <1>2, <3>1 DEF Get
    <3>2. CASE \E g \in Graphs : Builds(t, g)
      BY <1>2, <3>2 DEF Get, Builds
    <3> QED BY <2>3, <3>1, <3>2, CountedDoes
  <2> QED BY <1>2, <2>1, <2>2, <2>3 DEF Get
<1>3. CASE Bypass(t)
  BY <1>3 DEF Bypass
<1>4. CASE Retire(t)
  BY <1>4 DEF Retire
<1>5. CASE Acquire(t) \/ Submit(t)
  BY <1>5 DEF Acquire, Submit
<1>6. CASE Wait(t)
  BY <1>6 DEF Wait, Forget
<1>7. CASE Drop(t)
  BY <1>7 DEF Drop
<1>8. CASE Leave(t)
  BY <1>8 DEF Leave
<1> QED BY <1>1, <1>2, <1>3, <1>4, <1>5, <1>6, <1>7, <1>8 DEF Step

-----------------------------------------------------------------------------
(* Types.                                                                  *)

LEMMA StackStays ==
  ASSUME Types, NEW t \in Threads, pc \in [Threads -> Places], OnlyThread(t),
         pc[t] # "idle", pc'[t] # "idle", key' = key, stack' = stack,
         NEW label \in Places, Goto(t, label)
  PROVE  stack' = [u \in Threads |-> <<IF pc'[u] = "idle" THEN Home[u] ELSE key'[u].context>>]
<1>1. \A u \in Threads : pc'[u] = "idle" <=> pc[u] = "idle"
  BY DEF OnlyThread
<1> QED BY <1>1 DEF Types

LEMMA BuildsTypes ==
  ASSUME ReplayConstants, Types, ReplayBounded, NEW t \in Threads, NEW g \in Graphs,
         Builds(t, g), pc[t] = "get"
  PROVE  /\ entries' \in Seq([key : Key, graph : Graphs])
         /\ built' \in [Graphs -> {Free} \cup Executable]
         /\ kept' \in [Threads -> Graphs \cup {None}]
         /\ retired' \in [Threads -> Graphs \cup {None}]
         /\ pc' \in [Threads -> Places] /\ pc'[t] \in {"retire", "acquire"}
         /\ built'[g] = [state |-> "built", key |-> key[t], context |-> key[t].context]
<1>1. /\ entries \in Seq([key : Key, graph : Graphs]) /\ key[t] \in Key
      /\ Len(entries) <= Limit /\ Limit \in Nat \ {0}
  BY DEF Types, ReplayBounded, ReplayConstants
<1>2. [key |-> key[t], graph |-> g] \in [key : Key, graph : Graphs]
  BY <1>1
<1>3. entries' \in Seq([key : Key, graph : Graphs])
  BY <1>1, <1>2, Pushed DEF Builds, Full
<1>4. Current(t) = key[t].context
  BY OneContext DEF Types, Current
<1>5. /\ [state |-> "built", key |-> key[t], context |-> Current(t)] \in Executable
      /\ key[t].context \in Contexts
  BY <1>1, <1>4 DEF Executable, Key
<1>6. built' \in [Graphs -> {Free} \cup Executable]
  BY <1>5 DEF Types, Builds
<1>7. Full => Head(entries).graph \in Graphs
  <2>1. Full => entries # <<>>
    BY <1>1 DEF Full
  <2>2. Full => Head(entries) \in [key : Key, graph : Graphs]
    BY <1>1, <2>1, ElementOf
  <2> QED BY <2>2
<1>8. retired' \in [Threads -> Graphs \cup {None}]
  BY <1>7 DEF Types, Builds
<1>9. kept' \in [Threads -> Graphs \cup {None}]
  BY DEF Types, Builds
<1>10. pc' \in [Threads -> Places] /\ pc'[t] \in {"retire", "acquire"}
  BY DEF Types, Builds, Goto, Places
<1>11. built'[g] = [state |-> "built", key |-> key[t], context |-> key[t].context]
  BY <1>4 DEF Types, Builds
<1> QED BY <1>3, <1>6, <1>8, <1>9, <1>10, <1>11

LEMMA TypesStep ==
  ASSUME ReplayConstants, Types, Arcs, ReplayBounded, NEW t \in Threads,
         Begin(t) \/ Step(t), OnlyThread(t)
  PROVE  Types'
<1> DEFINE S == [u \in Threads |-> <<IF pc'[u] = "idle" THEN Home[u] ELSE key'[u].context>>]
<1>0. /\ pc \in [Threads -> Places] /\ key \in [Threads -> Key \cup {None}]
      /\ Home \in [Threads -> Contexts]
      /\ stack = [u \in Threads |-> <<IF pc[u] = "idle" THEN Home[u] ELSE key[u].context>>]
  BY DEF Types, ReplayConstants
<1>1. CASE Begin(t)
  <2>1. PICK k \in Key : /\ key' = [key EXCEPT ![t] = k]
                         /\ stack' = [stack EXCEPT ![t] = Switched(@, k.context)]
    BY <1>1 DEF Begin
  <2>2. pc' = [pc EXCEPT ![t] = "get"] /\ pc[t] = "idle"
    BY <1>1 DEF Begin, Goto
  <2>3. Switched(stack[t], k.context) = <<k.context>>
    BY <1>0, OneContext
  <2>4. stack' = S
    BY <1>0, <2>1, <2>2, <2>3
  <2>5. /\ pc' \in [Threads -> Places] /\ key' \in [Threads -> Key \cup {None}]
        /\ \A u \in Threads : pc'[u] # "idle" => key'[u] \in Key
    BY <2>1, <2>2 DEF Types, Places
  <2> QED BY <1>1, <2>4, <2>5 DEF Types, Begin
<1>2. CASE Get(t)
  <2>1. /\ UNCHANGED <<key, forgotten, stranded, stack, flying>> /\ pc[t] = "get"
        /\ key[t] \in Key
    BY <1>2 DEF Get, Types
  <2>2. asked' \in [Key -> 0..3]
    BY <1>2, <2>1 DEF Get, Types, Upto3
  <2>3. CASE Hit(t)
    <3>1. PICK i \in DOMAIN entries : kept' = [kept EXCEPT ![t] = entries[i].graph]
      BY <2>3 DEF Hit
    <3>2. entries[i] \in [key : Key, graph : Graphs]
      BY ElementOf DEF Types
    <3>3. kept' \in [Threads -> Graphs \cup {None}]
      BY <3>1, <3>2 DEF Types
    <3>4. stack' = S
      BY <1>0, <2>1, <2>3, StackStays DEF Hit, Places, Goto
    <3>5. pc' \in [Threads -> Places] /\ \A u \in Threads : pc'[u] # "idle" => key'[u] \in Key
      BY <1>0, <2>1, <2>3 DEF Types, Hit, Goto, Places
    <3> QED BY <2>1, <2>2, <2>3, <3>3, <3>4, <3>5 DEF Types, Hit
  <2>4. CASE Unseen(t)
    <3>1. [key |-> key[t], hits |-> 1] \in [key : Key, hits : 1..3]
      BY <2>1
    <3>2. /\ Len(seen) <= Limit /\ Limit \in Nat \ {0}
          /\ seen \in Seq([key : Key, hits : 1..3])
      BY DEF ReplayBounded, ReplayConstants, Types
    <3>3. seen' \in Seq([key : Key, hits : 1..3])
      BY <2>4, <3>1, <3>2, Pushed DEF Unseen
    <3>4. stack' = S
      BY <1>0, <2>1, <2>4, StackStays DEF Unseen, Places, Goto
    <3>5. pc' \in [Threads -> Places] /\ \A u \in Threads : pc'[u] # "idle" => key'[u] \in Key
      BY <1>0, <2>1, <2>4 DEF Types, Unseen, Goto, Places
    <3> QED BY <2>1, <2>2, <2>4, <3>3, <3>4, <3>5 DEF Types, Unseen
  <2>5. CASE Counted(t)
    <3>1. PICK i \in DOMAIN seen :
            LET hits == Upto3(seen[i].hits + 1) IN
            /\ seen[i].key = key[t] /\ hits \in 1..3
            /\ seen' = [seen EXCEPT ![i].hits = hits]
            /\ \/ Goto(t, "wait") /\ UNCHANGED <<entries, built, kept, retired>>
               \/ hits = 3 /\ \E g \in Graphs : Builds(t, g)
      BY <2>5, CountedDoes
    <3>2. seen' \in Seq([key : Key, hits : 1..3])
      <4> DEFINE h == [seen[i] EXCEPT !.hits = Upto3(seen[i].hits + 1)]
      <4>1. seen \in Seq([key : Key, hits : 1..3])
        BY DEF Types
      <4>2. seen[i] \in [key : Key, hits : 1..3]
        BY <4>1, ElementOf
      <4>3. h \in [key : Key, hits : 1..3]
        BY <3>1, <4>2
      <4>4. seen' = [seen EXCEPT ![i] = h]
        BY <3>1
      <4> HIDE DEF h
      <4> QED BY <4>1, <4>3, <4>4
    <3>3. CASE Goto(t, "wait") /\ UNCHANGED <<entries, built, kept, retired>>
      <4>1. stack' = S
        BY <1>0, <2>1, <3>3, StackStays DEF Places, Goto
      <4>2. pc' \in [Threads -> Places] /\ \A u \in Threads : pc'[u] # "idle" => key'[u] \in Key
        BY <1>0, <2>1, <3>3 DEF Types, Goto, Places
      <4> QED BY <2>1, <2>2, <3>2, <3>3, <4>1, <4>2 DEF Types
    <3>4. CASE \E g \in Graphs : Builds(t, g)
      <4>1. PICK g \in Graphs : Builds(t, g)
        BY <3>4
      <4>2. /\ entries' \in Seq([key : Key, graph : Graphs])
            /\ built' \in [Graphs -> {Free} \cup Executable]
            /\ kept' \in [Threads -> Graphs \cup {None}]
            /\ retired' \in [Threads -> Graphs \cup {None}]
            /\ pc' \in [Threads -> Places] /\ pc'[t] \in {"retire", "acquire"}
        BY <2>1, <4>1, BuildsTypes
      <4>3. stack' = S
        <5>1. \E label \in Places : Goto(t, label)
          BY <4>1 DEF Builds, Places
        <5> QED BY <1>0, <2>1, <4>2, <5>1, StackStays
      <4>4. \A u \in Threads : pc'[u] # "idle" => key'[u] \in Key
        BY <2>1, <4>2 DEF Types, OnlyThread
      <4> QED BY <2>1, <2>2, <3>2, <4>2, <4>3, <4>4 DEF Types
    <3> QED BY <3>1, <3>3, <3>4
  <2> QED BY <1>2, <2>3, <2>4, <2>5 DEF Get
<1>3. CASE Bypass(t) \/ Acquire(t) \/ Submit(t)
  <2>1. /\ UNCHANGED <<seen, entries, built, key, kept, retired, forgotten, stranded, stack, asked>>
        /\ pc[t] # "idle" /\ pc'[t] # "idle" /\ \E label \in Places : Goto(t, label)
    BY <1>0, <1>3 DEF Bypass, Acquire, Submit, Goto, Places
  <2>2. stack' = S
    BY <1>0, <2>1, StackStays
  <2>3. flying' \in [Threads -> Graphs \cup {None}]
    BY <1>3 DEF Bypass, Acquire, Submit, Types
  <2>4. pc' \in [Threads -> Places] /\ \A u \in Threads : pc'[u] # "idle" => key'[u] \in Key
    BY <2>1 DEF Types, Goto, Places
  <2> QED BY <2>1, <2>2, <2>3, <2>4 DEF Types
<1>4. CASE Retire(t) \/ Drop(t)
  <2> DEFINE g == IF Retire(t) THEN retired[t] ELSE kept[t]
  <2>1. g \in Graphs /\ DropArc(t, g)
    BY <1>4 DEF Types, Arcs, ArcsOf, Retire, Drop
  <2>2. /\ stack' = stack /\ stranded' \subseteq Graphs
        /\ built' \in [Graphs -> {Free} \cup Executable]
    <3> HIDE DEF g
    <3> QED BY <2>1, DropArcDoes DEF Types
  <2>3. /\ UNCHANGED <<seen, entries, key, forgotten, flying, asked>>
        /\ pc[t] # "idle" /\ pc'[t] # "idle" /\ \E label \in Places : Goto(t, label)
    BY <1>0, <1>4 DEF Retire, Drop, Goto, Places
  <2>4. stack' = S
    BY <1>0, <2>2, <2>3, StackStays
  <2>5. kept' \in [Threads -> Graphs \cup {None}] /\ retired' \in [Threads -> Graphs \cup {None}]
    BY <1>4 DEF Retire, Drop, Types
  <2>6. pc' \in [Threads -> Places] /\ \A u \in Threads : pc'[u] # "idle" => key'[u] \in Key
    BY <2>3 DEF Types, Goto, Places
  <2> QED BY <2>2, <2>3, <2>4, <2>5, <2>6 DEF Types
<1>5. CASE Wait(t)
  <2>1. /\ UNCHANGED <<seen, entries, built, key, retired, stranded, stack, asked>>
        /\ pc[t] # "idle" /\ pc'[t] # "idle" /\ \E label \in Places : Goto(t, label)
    BY <1>0, <1>5 DEF Wait, Forget, Goto, Places
  <2>2. stack' = S
    BY <1>0, <2>1, StackStays
  <2>3. /\ flying' \in [Threads -> Graphs \cup {None}] /\ kept' \in [Threads -> Graphs \cup {None}]
        /\ forgotten' \subseteq Graphs
    BY <1>5 DEF Wait, Forget, Types
  <2>4. pc' \in [Threads -> Places] /\ \A u \in Threads : pc'[u] # "idle" => key'[u] \in Key
    BY <2>1 DEF Types, Goto, Places
  <2> QED BY <2>1, <2>2, <2>3, <2>4 DEF Types
<1>6. CASE Leave(t)
  <2>1. /\ stack' = [stack EXCEPT ![t] = Switched(@, Home[t])]
        /\ key' = [key EXCEPT ![t] = None] /\ pc' = [pc EXCEPT ![t] = "idle"]
    BY <1>6 DEF Leave, Goto
  <2>2. Switched(stack[t], Home[t]) = <<Home[t]>>
    BY <1>0, OneContext
  <2>3. stack' = S
    BY <1>0, <2>1, <2>2
  <2>4. /\ pc' \in [Threads -> Places] /\ key' \in [Threads -> Key \cup {None}]
        /\ \A u \in Threads : pc'[u] # "idle" => key'[u] \in Key
    BY <2>1 DEF Types, Places
  <2> QED BY <1>6, <2>3, <2>4 DEF Types, Leave
<1> QED BY <1>1, <1>2, <1>3, <1>4, <1>5, <1>6 DEF Step

-----------------------------------------------------------------------------
(* What building and dropping do to those that have Arcs.                  *)

LEMMA BuildsEntries ==
  ASSUME ReplayConstants, Types, ReplayBounded, NEW t \in Threads, NEW g \in Graphs,
         Builds(t, g), pc[t] = "get"
  PROVE  /\ \E k \in {0, 1} : \A j \in DOMAIN entries' :
              \/ j = Len(entries') /\ entries'[j] = [key |-> key[t], graph |-> g]
              \/ j # Len(entries') /\ j + k \in DOMAIN entries /\ entries'[j] = entries[j + k]
         /\ Len(entries') <= Limit /\ Len(entries') \in Nat \ {0}
         /\ DOMAIN entries' = 1..Len(entries') /\ DOMAIN entries = 1..Len(entries)
         /\ entries'[Len(entries')] = [key |-> key[t], graph |-> g]
         /\ \A i \in DOMAIN entries :
              \/ Full /\ entries[i] = Head(entries)
              \/ \E j \in DOMAIN entries' : entries'[j] = entries[i]
<1> DEFINE k == IF Len(entries) = Limit THEN 1 ELSE 0
           e == [key |-> key[t], graph |-> g]
<1>1. /\ entries \in Seq([key : Key, graph : Graphs]) /\ key[t] \in Key
      /\ Len(entries) <= Limit /\ Limit \in Nat \ {0} /\ Len(entries) \in Nat
  BY DEF Types, ReplayBounded, ReplayConstants
<1>2. e \in [key : Key, graph : Graphs]
  BY <1>1
<1>3. entries' = Append(IF Len(entries) = Limit THEN Tail(entries) ELSE entries, e)
  BY DEF Builds, Full
<1> HIDE DEF e
<1>4. /\ Len(entries') \in 1..Limit /\ entries'[Len(entries')] = e
      /\ Len(entries') = Len(entries) - k + 1
      /\ DOMAIN entries' = 1..Len(entries') /\ DOMAIN entries = 1..Len(entries)
      /\ \A i \in 1..(Len(entries') - 1) : i + k \in DOMAIN entries /\ entries'[i] = entries[i + k]
  BY <1>1, <1>2, <1>3, Pushed
<1>k. k \in {0, 1} /\ (Full <=> k = 1) /\ Len(entries') \in Nat \ {0}
  <2>1. k \in {0, 1} /\ (Full <=> k = 1)
    <3>1. CASE Full
      BY <3>1 DEF Full
    <3>2. CASE ~Full
      BY <3>2 DEF Full
    <3> QED BY <3>1, <3>2
  <2>2. Len(entries') \in 1..Limit
    BY <1>4
  <2>3. Len(entries') \in Nat \ {0}
    BY <2>2 DEF ReplayConstants
  <2> QED BY <2>1, <2>3
<1> HIDE DEF k
<1>5. ASSUME NEW j \in DOMAIN entries'
      PROVE  \/ j = Len(entries') /\ entries'[j] = e
             \/ j # Len(entries') /\ j + k \in DOMAIN entries /\ entries'[j] = entries[j + k]
  <2>1. j # Len(entries') => j \in 1..(Len(entries') - 1)
    BY <1>4, <1>k
  <2> QED BY <2>1, <1>4
<1>6. ASSUME NEW i \in DOMAIN entries
      PROVE  \/ Full /\ entries[i] = Head(entries)
             \/ \E j \in DOMAIN entries' : entries'[j] = entries[i]
  <2>1. CASE Full /\ i = 1
    BY <1>1, <2>1, ElementOf
  <2>2. CASE ~(Full /\ i = 1)
    <3>1. i - k \in 1..(Len(entries') - 1) /\ (i - k) + k = i
      BY <1>1, <1>4, <1>k, <2>2
    <3>2. i - k \in DOMAIN entries' /\ entries'[i - k] = entries[(i - k) + k]
      BY <1>4, <1>k, <3>1
    <3> QED BY <3>1, <3>2
  <2> QED BY <2>1, <2>2
<1> QED BY <1>1, <1>4, <1>5, <1>6, <1>k DEF e

\* Of what the cache has, only the oldest entry can leave it, for the thread
\* that pushed it out.
LEMMA BuildsCached ==
  ASSUME ReplayConstants, Types, ReplayBounded, NEW t \in Threads, NEW g \in Graphs,
         Builds(t, g), pc[t] = "get"
  PROVE  /\ Cached' \subseteq Cached \cup {g} /\ g \in Cached'
         /\ Cached \subseteq Cached' \cup {retired'[t]}
         /\ retired'[t] \in Cached \cup {None}
         /\ kept'[t] = g
<1>1. entries \in Seq([key : Key, graph : Graphs]) /\ retired \in [Threads -> Graphs \cup {None}]
      /\ kept \in [Threads -> Graphs \cup {None}]
  BY DEF Types
<1>2. retired'[t] = (IF Full THEN Head(entries).graph ELSE None) /\ kept'[t] = g
  BY <1>1 DEF Builds
<1>3. Full => Head(entries).graph \in Cached
  <2>1. Full => entries # <<>>
    BY <1>1 DEF Full, ReplayConstants
  <2> QED BY <1>1, <2>1, ElementOf DEF Cached
<1>4. Cached \subseteq Cached' \cup {retired'[t]}
  <2>1. ASSUME NEW i \in DOMAIN entries PROVE entries[i].graph \in Cached' \cup {retired'[t]}
    <3>1. CASE Full /\ entries[i] = Head(entries)
      BY <1>2, <3>1
    <3>2. CASE \E j \in DOMAIN entries' : entries'[j] = entries[i]
      BY <3>2 DEF Cached
    <3> QED BY <3>1, <3>2, BuildsEntries
  <2> QED BY <2>1 DEF Cached
<1>5. Cached' \subseteq Cached \cup {g} /\ g \in Cached'
  <2>1. PICK k \in {0, 1} : \A j \in DOMAIN entries' :
          \/ j = Len(entries') /\ entries'[j] = [key |-> key[t], graph |-> g]
          \/ j # Len(entries') /\ j + k \in DOMAIN entries /\ entries'[j] = entries[j + k]
    BY BuildsEntries
  <2>2. \A j \in DOMAIN entries' : entries'[j].graph \in Cached \cup {g}
    BY <2>1 DEF Cached
  <2>3. Len(entries') \in DOMAIN entries' /\ entries'[Len(entries')].graph = g
    <3>1. /\ Len(entries') \in Nat \ {0} /\ DOMAIN entries' = 1..Len(entries')
          /\ entries'[Len(entries')] = [key |-> key[t], graph |-> g]
      BY BuildsEntries
    <3> QED BY <3>1
  <2> QED BY <2>2, <2>3 DEF Cached
<1> QED BY <1>2, <1>3, <1>4, <1>5

\* The three ends that dropping an Arc can have.
Destroys(g) == built' = [built EXCEPT ![g] = Free] /\ UNCHANGED stranded
Strands(g) == stranded' = stranded \cup {g} /\ UNCHANGED built

LEMMA DropsDo ==
  ASSUME Types, Arcs, NEW t \in Threads, Retire(t) \/ Drop(t)
  PROVE  \E g \in Graphs :
           /\ g \in {kept[t], retired[t]} /\ g \notin {kept'[t], retired'[t]}
           /\ {kept'[t], retired'[t]} \subseteq {kept[t], retired[t], None}
           /\ {kept[t], retired[t]} \subseteq {kept'[t], retired'[t], g, None}
           /\ \/ Shared(t, g) /\ UNCHANGED <<built, stranded>>
              \/ ~Shared(t, g) /\ (Destroys(g) \/ Strands(g))
           /\ UNCHANGED <<seen, entries, key, stack, forgotten, flying, doubtful, asked>>
<1>1. CASE Retire(t)
  <2>1. retired[t] \in Graphs /\ DropArc(t, retired[t]) /\ retired[t] # kept[t]
    BY <1>1 DEF Types, Arcs, ArcsOf, Retire
  <2>2. kept' = kept /\ retired'[t] = None /\ retired[t] # None
    BY <1>1 DEF Types, Arcs, ArcsOf, Retire
  <2>3. UNCHANGED <<seen, entries, key, forgotten, flying, doubtful, asked>>
    BY <1>1 DEF Retire
  <2> QED BY <2>1, <2>2, <2>3, DropArcDoes DEF Destroys, Strands
<1>2. CASE Drop(t)
  <2>1. kept[t] \in Graphs /\ DropArc(t, kept[t]) /\ kept[t] # None /\ retired[t] = None
    BY <1>2 DEF Types, Arcs, ArcsOf, Drop
  <2>2. retired' = retired /\ kept'[t] = None
    BY <1>2 DEF Types, Drop
  <2>3. UNCHANGED <<seen, entries, key, forgotten, flying, doubtful, asked>>
    BY <1>2 DEF Drop
  <2> QED BY <2>1, <2>2, <2>3, DropArcDoes DEF Destroys, Strands
<1> QED BY <1>1, <1>2

-----------------------------------------------------------------------------
(* What is held exists, and what exists is held.                           *)

LEMMA ArcsStep ==
  ASSUME ReplayConstants, Types, Arcs, Alive, ReplayBounded, NEW t \in Threads,
         Begin(t) \/ Step(t), OnlyThread(t)
  PROVE  Arcs'
<1>1. ASSUME NEW u \in Threads \ {t} PROVE ArcsOf(u)'
  BY DEF Arcs, ArcsOf, OnlyThread
<1>2. ArcsOf(t) /\ doubtful \subseteq forgotten /\ None \notin Graphs
  BY DEF Arcs, ReplayConstants
<1>3. /\ pc \in [Threads -> Places] /\ kept \in [Threads -> Graphs \cup {None}]
      /\ retired \in [Threads -> Graphs \cup {None}]
      /\ flying \in [Threads -> Graphs \cup {None}]
  BY DEF Types
<1>4. ArcsOf(t)' /\ doubtful' \subseteq forgotten'
  <2>1. CASE Begin(t)
    BY <1>2, <1>3, <2>1 DEF Begin, Goto, ArcsOf
  <2>2. CASE Get(t)
    <3>1. UNCHANGED <<forgotten, flying, doubtful>> /\ pc[t] = "get"
      BY <2>2 DEF Get
    <3>2. CASE Hit(t)
      <4>1. PICK i \in DOMAIN entries : kept' = [kept EXCEPT ![t] = entries[i].graph]
        BY <3>2 DEF Hit
      <4>2. entries[i].graph \in Graphs
        <5>1. entries[i] \in [key : Key, graph : Graphs]
          BY ElementOf DEF Types
        <5> QED BY <5>1
      <4>3. pc'[t] = "acquire" /\ retired' = retired
        BY <1>3, <3>2 DEF Hit, Goto
      <4> QED BY <1>2, <1>3, <3>1, <4>1, <4>2, <4>3 DEF ArcsOf
    <3>3. CASE Goto(t, "wait") /\ UNCHANGED <<kept, retired>>
      BY <1>2, <1>3, <3>1, <3>3 DEF Goto, ArcsOf
    <3>4. CASE \E g \in Graphs : Builds(t, g)
      <4>1. PICK g \in Graphs : Builds(t, g)
        BY <3>4
      <4>2. kept'[t] = g /\ g \notin Cached /\ retired'[t] \in Cached \cup {None}
        BY <3>1, <4>1, BuildsCached DEF Alive, HasArc, Builds
      <4>3. retired'[t] # None <=> pc'[t] = "retire"
        <5>2. Full => Head(entries).graph \in Graphs
          <6>1. Full => entries # <<>>
            BY DEF Full, ReplayConstants
          <6>2. entries \in Seq([key : Key, graph : Graphs])
            BY DEF Types
          <6>3. Full => Head(entries) \in [key : Key, graph : Graphs]
            BY <6>1, <6>2, ElementOf
          <6> QED BY <6>3
        <5>3. /\ retired'[t] = (IF Full THEN Head(entries).graph ELSE None)
              /\ pc'[t] = (IF Full THEN "retire" ELSE "acquire")
          BY <1>3, <4>1 DEF Builds, Goto
        <5> QED BY <1>2, <5>2, <5>3
      <4>4. pc'[t] \in {"retire", "acquire"}
        BY <1>3, <4>1 DEF Builds, Goto
      <4> QED BY <1>2, <1>3, <3>1, <4>2, <4>3, <4>4 DEF ArcsOf
    <3>5. Unseen(t) => Goto(t, "wait") /\ UNCHANGED <<kept, retired>>
      BY DEF Unseen
    <3> QED BY <2>2, <3>2, <3>3, <3>4, <3>5, CountedDoes DEF Get
  <2>3. CASE Bypass(t) \/ Acquire(t) \/ Submit(t)
    BY <1>2, <1>3, <2>3 DEF Bypass, Acquire, Submit, Goto, ArcsOf
  <2>4. CASE Retire(t) \/ Drop(t)
    BY <1>2, <1>3, <2>4 DEF Retire, Drop, Goto, ArcsOf
  <2>5. CASE Wait(t)
    BY <1>2, <1>3, <2>5 DEF Wait, Forget, Goto, ArcsOf
  <2>6. CASE Leave(t)
    BY <1>2, <1>3, <2>6 DEF Leave, Goto, ArcsOf
  <2> QED BY <2>1, <2>2, <2>3, <2>4, <2>5, <2>6 DEF Step
<1> QED BY <1>1, <1>4 DEF Arcs

\* Who has an Arc after a step, and who lost it.
LEMMA StepKeeps ==
  ASSUME Types, NEW t \in Threads, Begin(t) \/ Step(t), OnlyThread(t),
         ~Retire(t), ~Drop(t), ~(Get(t) /\ \E g \in Graphs : Builds(t, g))
  PROVE  /\ UNCHANGED <<entries, built, stranded>>
         /\ retired'[t] = retired[t]
         /\ \/ kept'[t] = kept[t] /\ forgotten' = forgotten
            \/ forgotten' = forgotten /\ kept'[t] \in Cached /\ Hit(t) /\ Get(t)
            \/ Wait(t) /\ kept'[t] = None /\ forgotten' = forgotten \cup ({kept[t]} \ {None})
<1> USE DEF Types
<1>1. CASE Begin(t)
  BY <1>1 DEF Begin
<1>2. CASE Get(t)
  <2>1. UNCHANGED <<forgotten, stranded>> /\ pc[t] = "get"
    BY <1>2 DEF Get
  <2>2. CASE Hit(t)
    BY <1>2, <2>1, <2>2 DEF Hit, Cached
  <2>3. CASE Unseen(t)
    BY <2>1, <2>3 DEF Unseen
  <2>4. CASE Counted(t)
    BY <1>2, <2>1, <2>4, CountedDoes
  <2> QED BY <1>2, <2>2, <2>3, <2>4 DEF Get
<1>3. CASE Bypass(t) \/ Acquire(t) \/ Submit(t)
  BY <1>3 DEF Bypass, Acquire, Submit
<1>4. CASE Wait(t)
  BY <1>4 DEF Wait, Forget
<1>5. CASE Leave(t)
  BY <1>5 DEF Leave
<1> QED BY <1>1, <1>2, <1>3, <1>4, <1>5 DEF Step

\* Only the third request of a key that has no entry builds.
LEMMA BuildsIsThird ==
  ASSUME ReplayConstants, Types, Alive, Counts, ReplayBounded, NEW t \in Threads,
         Get(t), NEW g \in Graphs, Builds(t, g)
  PROVE  /\ \A i \in DOMAIN entries : entries[i].key # key[t]
         /\ g \notin Cached /\ key[t] \in Key
         /\ asked'[key[t]] = 3
<1>1. pc[t] = "get" /\ key[t] \in Key
  BY DEF Get, Types
<1>2. g \notin Cached /\ entries' # entries
  <2>1. g \notin Cached
    BY DEF Builds, Alive, HasArc
  <2>2. g \in Cached'
    BY <1>1, BuildsCached
  <2> QED BY <2>1, <2>2 DEF Cached
<1>3. ~Hit(t) /\ ~Unseen(t)
  BY <1>2 DEF Hit, Unseen
<1>4. Counted(t) /\ \A i \in DOMAIN entries : entries[i].key # key[t]
  BY <1>3 DEF Get
<1>5. PICK i \in DOMAIN seen :
        /\ seen[i].key = key[t] /\ seen[i].hits \in 1..3
        /\ \/ UNCHANGED entries
           \/ Upto3(seen[i].hits + 1) = 3
  BY <1>4, CountedDoes
<1>6. seen[i].hits <= asked[key[t]] /\ asked[key[t]] \in 0..3
  BY <1>1, <1>5 DEF Counts, Types
<1>7. Upto3(asked[key[t]] + 1) = 3
  BY <1>2, <1>5, <1>6 DEF Upto3
<1>8. asked'[key[t]] = Upto3(asked[key[t]] + 1)
  BY <1>1 DEF Get, Types
<1> QED BY <1>1, <1>2, <1>4, <1>7, <1>8

\* The Arcs of the thread that builds, and of all.
LEMMA BuildsArcs ==
  ASSUME ReplayConstants, Types, Arcs, ReplayBounded, NEW t \in Threads, OnlyThread(t),
         Get(t), NEW g \in Graphs, Builds(t, g)
  PROVE  /\ \A h \in Graphs : HasArc(h)' <=> h = g \/ HasArc(h)
         /\ UNCHANGED <<forgotten, stranded>>
         /\ built' = [built EXCEPT ![g] = [state |-> "built", key |-> key[t], context |-> key[t].context]]
<1>1. pc[t] = "get" /\ UNCHANGED <<forgotten, stranded>>
  BY DEF Get
<1>2. /\ Cached' \subseteq Cached \cup {g} /\ g \in Cached'
      /\ Cached \subseteq Cached' \cup {retired'[t]}
      /\ retired'[t] \in Cached \cup {None} /\ kept'[t] = g
  BY <1>1, BuildsCached
<1>3. kept[t] = None /\ retired[t] = None /\ None \notin Graphs
  BY <1>1 DEF Arcs, ArcsOf, ReplayConstants
<1>4. \A u \in Threads : u # t => kept'[u] = kept[u] /\ retired'[u] = retired[u]
  BY DEF OnlyThread
<1>5. \A h \in Graphs : HasArc(h)' <=> h = g \/ HasArc(h)
  <2>1. ASSUME NEW h \in Graphs, HasArc(h)' PROVE h = g \/ HasArc(h)
    BY <1>1, <1>2, <1>3, <1>4, <2>1 DEF HasArc
  <2>2. ASSUME NEW h \in Graphs, h = g \/ HasArc(h) PROVE HasArc(h)'
    BY <1>1, <1>2, <1>3, <1>4, <2>2 DEF HasArc
  <2> QED BY <2>1, <2>2
<1>6. Current(t) = key[t].context
  BY <1>1, OneContext DEF Types, Current
<1> QED BY <1>1, <1>5, <1>6 DEF Builds

LEMMA DropsArcs ==
  ASSUME ReplayConstants, Types, Arcs, NEW t \in Threads, OnlyThread(t), Retire(t) \/ Drop(t)
  PROVE  \E g \in Graphs :
           /\ HasArc(g) /\ \A h \in Graphs : HasArc(h)' => HasArc(h)
           /\ \A h \in Graphs : HasArc(h) => h = g \/ HasArc(h)'
           /\ \/ HasArc(g)' /\ UNCHANGED <<built, stranded>>
              \/ ~HasArc(g)' /\ (Destroys(g) \/ Strands(g))
           /\ UNCHANGED <<seen, entries, key, stack, forgotten, flying, doubtful, asked>>
<1>1. PICK g \in Graphs :
        /\ g \in {kept[t], retired[t]} /\ g \notin {kept'[t], retired'[t]}
        /\ {kept'[t], retired'[t]} \subseteq {kept[t], retired[t], None}
        /\ {kept[t], retired[t]} \subseteq {kept'[t], retired'[t], g, None}
        /\ \/ Shared(t, g) /\ UNCHANGED <<built, stranded>>
           \/ ~Shared(t, g) /\ (Destroys(g) \/ Strands(g))
        /\ UNCHANGED <<seen, entries, key, stack, forgotten, flying, doubtful, asked>>
  BY DropsDo
<1>2. \A u \in Threads : u # t => kept'[u] = kept[u] /\ retired'[u] = retired[u]
  BY DEF OnlyThread
<1>3. Cached' = Cached /\ None \notin Graphs
  BY <1>1 DEF Cached, ReplayConstants
<1>4. HasArc(g)' <=> Shared(t, g)
  BY <1>1, <1>2, <1>3 DEF HasArc, Shared
<1>5. HasArc(g) /\ \A h \in Graphs : HasArc(h)' => HasArc(h)
  BY <1>1, <1>2, <1>3 DEF HasArc
<1>6. \A h \in Graphs : HasArc(h) => h = g \/ HasArc(h)'
  BY <1>1, <1>2, <1>3 DEF HasArc
<1> QED BY <1>1, <1>4, <1>5, <1>6

\* Any other step passes Arcs on.
LEMMA KeepsArcs ==
  ASSUME ReplayConstants, Types, Arcs, NEW t \in Threads, Begin(t) \/ Step(t), OnlyThread(t),
         ~Retire(t), ~Drop(t), ~(Get(t) /\ \E g \in Graphs : Builds(t, g))
  PROVE  /\ UNCHANGED <<entries, built, stranded>>
         /\ \A h \in Graphs : HasArc(h)' <=> HasArc(h)
<1>1. /\ UNCHANGED <<entries, built, stranded>> /\ retired'[t] = retired[t]
      /\ \/ kept'[t] = kept[t] /\ forgotten' = forgotten
         \/ forgotten' = forgotten /\ kept'[t] \in Cached /\ Hit(t) /\ Get(t)
         \/ Wait(t) /\ kept'[t] = None /\ forgotten' = forgotten \cup ({kept[t]} \ {None})
  BY StepKeeps
<1>2. \A u \in Threads : u # t => kept'[u] = kept[u] /\ retired'[u] = retired[u]
  BY DEF OnlyThread
<1>3. Cached' = Cached /\ None \notin Graphs
  BY <1>1 DEF Cached, ReplayConstants
<1>4. CASE kept'[t] = kept[t] /\ forgotten' = forgotten
  BY <1>1, <1>2, <1>3, <1>4 DEF HasArc
<1>5. CASE forgotten' = forgotten /\ kept'[t] \in Cached /\ Get(t)
  <2>1. kept[t] = None
    BY <1>5 DEF Get, Arcs, ArcsOf
  <2> QED BY <1>1, <1>2, <1>3, <1>5, <2>1 DEF HasArc
<1>6. CASE kept'[t] = None /\ forgotten' = forgotten \cup ({kept[t]} \ {None})
  BY <1>1, <1>2, <1>3, <1>6 DEF HasArc
<1> QED BY <1>1, <1>4, <1>5, <1>6

-----------------------------------------------------------------------------
(* The invariants, step by step.                                           *)

LEMMA AliveStep ==
  ASSUME ReplayConstants, Types, Arcs, Alive, NoneLeaks, ReplayBounded, NEW t \in Threads,
         Begin(t) \/ Step(t), OnlyThread(t)
  PROVE  Alive' /\ NoneLeaks'
<1>1. NoneLeaks <=> \A h \in Graphs : built[h] # Free => HasArc(h) \/ h \in stranded
  BY DEF NoneLeaks, HasArc
<1>2. NoneLeaks' <=> \A h \in Graphs : built'[h] # Free => HasArc(h)' \/ h \in stranded'
  BY DEF NoneLeaks, HasArc
<1>3. built \in [Graphs -> {Free} \cup Executable]
  BY DEF Types
<1>4. CASE Get(t) /\ \E g \in Graphs : Builds(t, g)
  <2>1. PICK g \in Graphs : Builds(t, g)
    BY <1>4
  <2>2. /\ \A h \in Graphs : HasArc(h)' <=> h = g \/ HasArc(h)
        /\ UNCHANGED stranded
        /\ built' = [built EXCEPT ![g] = [state |-> "built", key |-> key[t], context |-> key[t].context]]
    BY <1>4, <2>1, BuildsArcs
  <2>3. key[t] \in Key /\ key[t].context \in Contexts
    BY <1>4 DEF Types, Get, Key
  <2>4. built'[g] # Free /\ \A h \in Graphs : h # g => built'[h] = built[h]
    <3>1. built'[g] \in Executable
      BY <1>3, <2>2, <2>3 DEF Executable
    <3> QED BY <1>3, <2>2, <3>1, FreeIsNotBuilt
  <2> QED BY <1>1, <1>2, <2>2, <2>4 DEF Alive
<1>5. CASE Retire(t) \/ Drop(t)
  <2>1. PICK g \in Graphs :
          /\ HasArc(g) /\ \A h \in Graphs : HasArc(h)' => HasArc(h)
          /\ \A h \in Graphs : HasArc(h) => h = g \/ HasArc(h)'
          /\ \/ HasArc(g)' /\ UNCHANGED <<built, stranded>>
             \/ ~HasArc(g)' /\ (Destroys(g) \/ Strands(g))
    BY <1>5, DropsArcs
  <2>2. CASE HasArc(g)' /\ UNCHANGED <<built, stranded>>
    BY <1>1, <1>2, <2>1, <2>2 DEF Alive
  <2>3. CASE ~HasArc(g)' /\ Destroys(g)
    <3>1. built'[g] = Free /\ stranded' = stranded /\ \A h \in Graphs : h # g => built'[h] = built[h]
      BY <1>3, <2>3 DEF Destroys
    <3> QED BY <1>1, <1>2, <2>1, <2>3, <3>1 DEF Alive
  <2>4. CASE ~HasArc(g)' /\ Strands(g)
    BY <1>1, <1>2, <2>1, <2>4 DEF Alive, Strands
  <2> QED BY <2>1, <2>2, <2>3, <2>4
<1>6. CASE ~Retire(t) /\ ~Drop(t) /\ ~(Get(t) /\ \E g \in Graphs : Builds(t, g))
  BY <1>1, <1>2, <1>6, KeepsArcs DEF Alive
<1> QED BY <1>4, <1>5, <1>6

LEMMA GraphOf ==
  ASSUME Types, NEW i \in DOMAIN entries
  PROVE  entries[i].graph \in Graphs /\ entries[i].graph \in Cached /\ entries[i].key \in Key
<1>1. entries[i] \in [key : Key, graph : Graphs]
  <2>1. entries \in Seq([key : Key, graph : Graphs])
    BY DEF Types
  <2> QED BY <2>1, ElementOf
<1> QED BY <1>1 DEF Cached

LEMMA LabelledStep ==
  ASSUME ReplayConstants, Types, Arcs, Alive, Labelled, Counts, ReplayBounded,
         NEW t \in Threads, Begin(t) \/ Step(t), OnlyThread(t), Arcs', Types'
  PROVE  Labelled'
<1>1. /\ built \in [Graphs -> {Free} \cup Executable] /\ pc \in [Threads -> Places]
      /\ kept \in [Threads -> Graphs \cup {None}] /\ None \notin Graphs
  BY DEF Types, ReplayConstants
<1>2. CASE Get(t) /\ \E g \in Graphs : Builds(t, g)
  <2>1. PICK g \in Graphs : Builds(t, g)
    BY <1>2
  <2>2. /\ built' = [built EXCEPT ![g] = [state |-> "built", key |-> key[t], context |-> key[t].context]]
        /\ g \notin Cached /\ kept'[t] = g /\ key' = key /\ pc[t] = "get"
        /\ entries'[Len(entries')] = [key |-> key[t], graph |-> g]
    BY <1>2, <2>1, BuildsArcs, BuildsIsThird, BuildsCached, BuildsEntries DEF Get
  <2>3. built'[g].key = key[t] /\ built'[g].context = key[t].context
    BY <1>1, <2>2
  <2>4. \A h \in Graphs : h # g => built'[h] = built[h]
    BY <1>1, <2>2
  <2>5. ASSUME NEW j \in DOMAIN entries' PROVE built'[entries'[j].graph].key = entries'[j].key
    <3>1. PICK k \in {0, 1} :
            \/ j = Len(entries')
            \/ j + k \in DOMAIN entries /\ entries'[j] = entries[j + k]
      BY <2>1, <2>2, BuildsEntries
    <3>2. CASE j = Len(entries')
      BY <2>2, <2>3, <3>2
    <3>3. CASE j + k \in DOMAIN entries /\ entries'[j] = entries[j + k]
      <4>1. entries[j + k].graph \in Graphs /\ entries[j + k].graph # g
        BY <2>2, <3>3, GraphOf
      <4> QED BY <2>4, <3>3, <4>1 DEF Labelled
    <3> QED BY <3>1, <3>2, <3>3
  <2>6. ASSUME NEW u \in Threads, pc'[u] \in {"retire", "acquire", "submit"}
        PROVE  built'[kept'[u]].key = key'[u]
    <3>1. CASE u = t
      BY <2>2, <2>3, <3>1
    <3>2. CASE u # t
      <4>1. kept'[u] = kept[u] /\ pc'[u] = pc[u] /\ key'[u] = key[u]
        BY <3>2 DEF OnlyThread
      <4>2. kept[u] \in Graphs /\ kept[u] # g
        BY <1>1, <2>1, <2>6, <4>1 DEF Arcs, ArcsOf, Alive, HasArc, Builds
      <4> QED BY <2>4, <2>6, <4>1, <4>2 DEF Labelled
    <3> QED BY <3>1, <3>2
  <2>7. \A h \in Graphs : built'[h] # Free => built'[h].context = built'[h].key.context
    BY <2>3, <2>4 DEF Labelled
  <2> QED BY <2>5, <2>6, <2>7 DEF Labelled
<1>3. CASE Retire(t) \/ Drop(t)
  <2>1. PICK g \in Graphs :
          /\ \/ HasArc(g)' /\ UNCHANGED <<built, stranded>>
             \/ ~HasArc(g)' /\ (Destroys(g) \/ Strands(g))
          /\ UNCHANGED <<entries, key>>
    BY <1>3, DropsArcs
  <2>2. \A h \in Graphs : HasArc(h)' => built'[h] = built[h]
    BY <1>1, <2>1 DEF Destroys, Strands
  <2>3. \A h \in Graphs : built'[h] # Free => built'[h] = built[h]
    BY <1>1, <2>1 DEF Destroys, Strands
  <2>4. ASSUME NEW i \in DOMAIN entries' PROVE built'[entries'[i].graph].key = entries'[i].key
    <3>1. i \in DOMAIN entries /\ entries'[i] = entries[i] /\ Cached' = Cached
      BY <2>1 DEF Cached
    <3>2. entries[i].graph \in Graphs /\ HasArc(entries[i].graph)'
      BY <3>1, GraphOf DEF HasArc
    <3> QED BY <2>2, <3>1, <3>2 DEF Labelled
  <2>5. ASSUME NEW u \in Threads, pc'[u] \in {"retire", "acquire", "submit"}
        PROVE  built'[kept'[u]].key = key'[u]
    <3>1. kept'[u] = kept[u] /\ key'[u] = key[u] /\ pc[u] \in {"retire", "acquire", "submit"}
      <4>1. CASE u = t
        BY <1>1, <1>3, <2>5, <4>1 DEF Retire, Drop, Goto
      <4>2. CASE u # t
        BY <2>5, <4>2 DEF OnlyThread
      <4> QED BY <4>1, <4>2
    <3>2. kept[u] \in Graphs /\ \A h \in Graphs : h = kept'[u] => HasArc(h)'
      BY <1>1, <3>1 DEF Arcs, ArcsOf, HasArc
    <3> QED BY <2>2, <3>1, <3>2 DEF Labelled
  <2> QED BY <2>3, <2>4, <2>5 DEF Labelled
<1>4. CASE ~Retire(t) /\ ~Drop(t) /\ ~(Get(t) /\ \E g \in Graphs : Builds(t, g))
  <2>1. UNCHANGED <<entries, built>>
    BY <1>4, KeepsArcs
  <2>2. ASSUME NEW u \in Threads, pc'[u] \in {"retire", "acquire", "submit"}
        PROVE  built[kept'[u]].key = key'[u]
    <3>1. CASE u # t
      BY <2>2, <3>1 DEF OnlyThread, Labelled
    <3>2. CASE u = t
      <4>1. CASE Acquire(t)
        BY <3>2, <4>1 DEF Acquire, Labelled
      <4>2. CASE Get(t) /\ Hit(t)
        <5>1. PICK i \in DOMAIN entries :
                entries[i].key = key[t] /\ kept' = [kept EXCEPT ![t] = entries[i].graph]
          BY <4>2 DEF Hit, IsEntry
        <5> QED BY <1>1, <3>2, <4>2, <5>1 DEF Labelled, Get
      <4>3. ~Acquire(t) => Get(t) /\ Hit(t)
        <5>1. CASE Get(t) /\ ~Hit(t)
          <6>1. pc'[t] = "wait"
            BY <1>1, <1>4, <5>1, CountedDoes DEF Get, Unseen, Goto
          <6> QED BY <2>2, <3>2, <6>1
        <5>2. CASE Begin(t) \/ Bypass(t) \/ Submit(t) \/ Wait(t) \/ Leave(t)
          <6>1. pc'[t] \in {"get", "wait", "leave", "drop", "idle"}
            BY <1>1, <5>2 DEF Begin, Bypass, Submit, Wait, Forget, Leave, Goto
          <6> QED BY <2>2, <3>2, <6>1
        <5> QED BY <1>4, <5>1, <5>2 DEF Step
      <4> QED BY <4>1, <4>2, <4>3
    <3> QED BY <3>1, <3>2
  <2> QED BY <2>1, <2>2 DEF Labelled
<1> QED BY <1>2, <1>3, <1>4

LEMMA CountsStep ==
  ASSUME ReplayConstants, Types, Counts, ReplayBounded, NEW t \in Threads, Begin(t) \/ Step(t)
  PROVE  /\ Counts'
         /\ Len(seen') <= Limit
         /\ \A i, j \in DOMAIN seen' : seen'[i].key = seen'[j].key => i = j
         /\ \A k \in Key : asked[k] = 3 => asked'[k] = 3
<1>1. /\ seen \in Seq([key : Key, hits : 1..3]) /\ DOMAIN seen = 1..Len(seen)
      /\ asked \in [Key -> 0..3] /\ Len(seen) <= Limit /\ Limit \in Nat \ {0}
      /\ \A i \in DOMAIN seen : seen[i].key \in Key /\ seen[i].hits \in 1..3
  <2>1. seen \in Seq([key : Key, hits : 1..3])
    BY DEF Types
  <2>2. \A i \in DOMAIN seen : seen[i] \in [key : Key, hits : 1..3]
    BY <2>1, ElementOf
  <2> QED BY <2>1, <2>2 DEF Types, ReplayBounded, ReplayConstants
<1>2. \A i, j \in DOMAIN seen : seen[i].key = seen[j].key => i = j
  BY DEF ReplayBounded
<1>3. CASE Get(t)
  <2>1. /\ asked' = [asked EXCEPT ![key[t]] = Upto3(@ + 1)] /\ key[t] \in Key
    BY <1>3 DEF Get, Types
  <2>2. /\ asked'[key[t]] = Upto3(asked[key[t]] + 1)
        /\ \A k \in Key : k # key[t] => asked'[k] = asked[k]
    BY <1>1, <2>1
  <2>3. \A k \in Key : asked'[k] >= asked[k] /\ asked'[k] \in 0..3
    BY <1>1, <2>2 DEF Upto3
  <2>4. \A k \in Key : asked[k] = 3 => asked'[k] = 3
    BY <1>1, <2>3
  <2>5. CASE UNCHANGED seen
    <3>1. ASSUME NEW i \in DOMAIN seen PROVE seen[i].hits <= asked'[seen[i].key]
      BY <1>1, <2>3 DEF Counts
    <3> QED BY <1>1, <1>2, <2>4, <2>5, <3>1 DEF Counts
  <2>6. CASE Unseen(t)
    <3> DEFINE e == [key |-> key[t], hits |-> 1]
               k == IF Len(seen) = Limit THEN 1 ELSE 0
    <3>1. e \in [key : Key, hits : 1..3]
      BY <2>1
    <3>2. seen' = Append(IF Len(seen) = Limit THEN Tail(seen) ELSE seen, e)
      BY <2>6 DEF Unseen
    <3>3. e.key = key[t] /\ e.hits = 1 /\ k \in {0, 1}
      OBVIOUS
    <3>0. /\ seen \in Seq([key : Key, hits : 1..3])
          /\ Len(seen) <= Limit /\ Limit \in Nat \ {0} /\ Len(seen) \in Nat
      BY <1>1
    <3> HIDE DEF e
    <3>4. /\ Len(seen') \in 1..Limit /\ seen'[Len(seen')] = e
          /\ Len(seen') = Len(seen) - k + 1
          /\ DOMAIN seen' = 1..Len(seen') /\ DOMAIN seen = 1..Len(seen)
          /\ \A i \in 1..(Len(seen') - 1) : i + k \in DOMAIN seen /\ seen'[i] = seen[i + k]
      BY <3>0, <3>1, <3>2, Pushed
    <3> HIDE DEF k
    <3>5. Len(seen') \in Nat \ {0} /\ Len(seen') <= Limit
      BY <3>4 DEF ReplayConstants
    <3>6. ASSUME NEW i \in DOMAIN seen'
          PROVE  \/ i = Len(seen') /\ seen'[i] = e
                 \/ i # Len(seen') /\ i + k \in DOMAIN seen /\ seen'[i] = seen[i + k]
      <4>1. i # Len(seen') => i \in 1..(Len(seen') - 1)
        BY <3>4, <3>5
      <4> QED BY <3>4, <4>1
    <3>7. \A i \in DOMAIN seen : seen[i].key # key[t]
      BY <2>6 DEF Unseen
    <3>8. ASSUME NEW i \in DOMAIN seen', NEW j \in DOMAIN seen', seen'[i].key = seen'[j].key
          PROVE  i = j
      <4>1. i \in Nat /\ j \in Nat
        BY <3>4, <3>5
      <4>2. CASE i # Len(seen') /\ j # Len(seen')
        <5>1. i + k = j + k
          BY <1>2, <3>6, <3>8, <4>2
        <5> QED BY <3>3, <4>1, <5>1
      <4>3. CASE i = Len(seen') \/ j = Len(seen')
        BY <3>3, <3>6, <3>7, <3>8, <4>3
      <4> QED BY <4>2, <4>3
    <3>9. ASSUME NEW i \in DOMAIN seen' PROVE seen'[i].hits <= asked'[seen'[i].key]
      <4>1. CASE seen'[i] = e
        <5>1. Upto3(asked[key[t]] + 1) >= 1
          BY <1>1, <2>1 DEF Upto3
        <5> QED BY <2>2, <3>3, <4>1, <5>1
      <4>2. CASE i + k \in DOMAIN seen /\ seen'[i] = seen[i + k]
        BY <1>1, <2>3, <4>2 DEF Counts
      <4> QED BY <3>6, <4>1, <4>2
    <3> QED BY <2>4, <3>5, <3>8, <3>9 DEF Counts
  <2>7. CASE Counted(t)
    <3>1. PICK i \in DOMAIN seen :
            /\ seen[i].key = key[t] /\ seen[i].hits \in 1..3
            /\ seen' = [seen EXCEPT ![i].hits = Upto3(seen[i].hits + 1)]
      BY <2>7, CountedDoes
    <3> DEFINE h == [seen[i] EXCEPT !.hits = Upto3(seen[i].hits + 1)]
    <3>2. /\ seen' = [seen EXCEPT ![i] = h]
          /\ h.key = key[t] /\ h.hits = Upto3(seen[i].hits + 1)
      <4>1. seen[i] \in [key : Key, hits : 1..3]
        BY <1>1, ElementOf
      <4> QED BY <3>1, <4>1
    <3> HIDE DEF h
    <3>3. /\ DOMAIN seen' = DOMAIN seen /\ Len(seen') = Len(seen) /\ seen'[i] = h
          /\ \A j \in DOMAIN seen : j # i => seen'[j] = seen[j]
      BY <1>1, <3>2
    <3>4. \A j \in DOMAIN seen : seen'[j].key = seen[j].key
      BY <3>1, <3>2, <3>3
    <3>5. ASSUME NEW j \in DOMAIN seen PROVE seen'[j].hits <= asked'[seen'[j].key]
      <4>1. CASE j = i
        <5>1. seen[i].hits <= asked[key[t]]
          BY <3>1 DEF Counts
        <5>2. Upto3(seen[i].hits + 1) <= Upto3(asked[key[t]] + 1)
          BY <1>1, <2>1, <3>1, <5>1 DEF Upto3
        <5> QED BY <2>2, <3>2, <3>3, <4>1, <5>2
      <4>2. CASE j # i
        BY <1>1, <2>3, <3>3, <4>2 DEF Counts
      <4> QED BY <4>1, <4>2
    <3> QED BY <1>1, <1>2, <2>4, <3>3, <3>4, <3>5 DEF Counts
  <2> QED BY <1>3, <2>5, <2>6, <2>7 DEF Get, Hit
<1>4. CASE ~Get(t)
  <2>1. UNCHANGED <<seen, asked>>
    BY <1>4 DEF Step, Begin, Bypass, Retire, Acquire, Submit, Wait, Drop, Leave
  <2> QED BY <1>1, <1>2, <2>1 DEF Counts
<1> QED BY <1>3, <1>4

LEMMA BoundedStep ==
  ASSUME ReplayConstants, Types, Arcs, Alive, Labelled, Counts, ReplayBounded,
         NEW t \in Threads, Begin(t) \/ Step(t), OnlyThread(t)
  PROVE  ReplayBounded'
<1>1. /\ Len(seen') <= Limit
      /\ \A i, j \in DOMAIN seen' : seen'[i].key = seen'[j].key => i = j
      /\ \A k \in Key : asked[k] = 3 => asked'[k] = 3
  BY CountsStep
<1>2. built \in [Graphs -> {Free} \cup Executable]
  BY DEF Types
<1>3. \A h \in Graphs : built[h] # Free => built[h].key \in Key /\ asked'[built[h].key] = 3
  <2>1. ASSUME NEW h \in Graphs, built[h] # Free PROVE built[h].key \in Key
    BY <1>2, <2>1 DEF Executable
  <2> QED BY <1>1, <2>1 DEF ReplayBounded
<1>4. CASE Get(t) /\ \E g \in Graphs : Builds(t, g)
  <2>1. PICK g \in Graphs : Builds(t, g)
    BY <1>4
  <2>2. /\ \A i \in DOMAIN entries : entries[i].key # key[t]
        /\ g \notin Cached /\ key[t] \in Key /\ asked'[key[t]] = 3 /\ pc[t] = "get"
    BY <1>4, <2>1, BuildsIsThird DEF Get
  <2>3. PICK k \in {0, 1} : \A j \in DOMAIN entries' :
          \/ j = Len(entries') /\ entries'[j] = [key |-> key[t], graph |-> g]
          \/ j # Len(entries') /\ j + k \in DOMAIN entries /\ entries'[j] = entries[j + k]
    BY <2>1, <2>2, BuildsEntries
  <2>4. /\ Len(entries') <= Limit /\ Len(entries') \in Nat
        /\ DOMAIN entries' = 1..Len(entries')
    BY <2>1, <2>2, BuildsEntries
  <2>5. ASSUME NEW i \in DOMAIN entries', NEW j \in DOMAIN entries',
               entries'[i].key = entries'[j].key \/ entries'[i].graph = entries'[j].graph
        PROVE  i = j
    <3>1. \A h \in DOMAIN entries : entries[h].graph # g /\ entries[h].key # key[t]
      BY <2>2, GraphOf
    <3>2. CASE i # Len(entries') /\ j # Len(entries')
      <4>1. i + k = j + k
        BY <2>3, <2>5, <3>2 DEF ReplayBounded
      <4> QED BY <2>4, <4>1
    <3>3. CASE i = Len(entries') \/ j = Len(entries')
      BY <2>3, <2>5, <3>1, <3>3
    <3> QED BY <3>2, <3>3
  <2>6. built' = [built EXCEPT ![g] = [state |-> "built", key |-> key[t], context |-> key[t].context]]
    BY <1>4, <2>1, BuildsArcs
  <2>7. \A h \in Graphs : built'[h] # Free => asked'[built'[h].key] = 3
    BY <1>2, <1>3, <2>2, <2>6
  <2> QED BY <1>1, <2>4, <2>5, <2>7 DEF ReplayBounded
<1>5. CASE ~(Get(t) /\ \E g \in Graphs : Builds(t, g))
  <2>1. entries' = entries /\ \A h \in Graphs : built'[h] \in {built[h], Free}
    <3>1. CASE Retire(t) \/ Drop(t)
      <4>1. PICK g \in Graphs : (UNCHANGED built \/ Destroys(g) \/ Strands(g)) /\ UNCHANGED entries
        BY <3>1, DropsArcs
      <4> QED BY <1>2, <4>1 DEF Destroys, Strands
    <3>2. CASE ~Retire(t) /\ ~Drop(t)
      BY <1>5, <3>2, KeepsArcs
    <3> QED BY <3>1, <3>2
  <2>2. \A h \in Graphs : built'[h] # Free => asked'[built'[h].key] = 3
    BY <1>3, <2>1
  <2> QED BY <1>1, <2>1, <2>2 DEF ReplayBounded
<1> QED BY <1>4, <1>5

-----------------------------------------------------------------------------
(* The theorems.                                                           *)

LEMMA ReplayInit ==
  ASSUME ReplayConstants, Init
  PROVE  ReplayInv
<1>1. /\ seen = <<>> /\ entries = <<>> /\ DOMAIN seen = {} /\ DOMAIN entries = {}
      /\ Len(seen) = 0 /\ Len(entries) = 0 /\ Limit \in Nat \ {0}
  BY DEF Init, ReplayConstants
<1>2. /\ \A t \in Threads : pc[t] = "idle" /\ kept[t] = None /\ retired[t] = None /\ flying[t] = None
      /\ \A g \in Graphs : built[g] = Free
      /\ forgotten = {} /\ doubtful = {} /\ Cached = {} /\ None \notin Graphs
  BY <1>1 DEF Init, Cached, ReplayConstants
<1>3. Types
  BY <1>1 DEF Init, Types, Places
<1>4. Arcs
  BY <1>2 DEF Arcs, ArcsOf
<1>5. Alive
  BY <1>2 DEF Alive, HasArc
<1>6. Labelled /\ Counts
  BY <1>1, <1>2 DEF Labelled, Counts
<1>7. NoneLeaks
  BY <1>2 DEF NoneLeaks
<1>8. ReplayBounded
  BY <1>1, <1>2 DEF ReplayBounded
<1> QED BY <1>3, <1>4, <1>5, <1>6, <1>7, <1>8 DEF ReplayInv

LEMMA ReplayStep ==
  ASSUME ReplayConstants, ReplayInv, [Next]_vars
  PROVE  ReplayInv'
<1>1. CASE Next
  <2>1. PICK t \in Threads : Begin(t) \/ Step(t)
    BY <1>1 DEF Next
  <2>2. OnlyThread(t)
    BY <2>1, StepAlone DEF ReplayInv
  <2>3. Types' /\ Arcs'
    BY <2>1, <2>2, TypesStep, ArcsStep DEF ReplayInv
  <2>4. Alive' /\ NoneLeaks'
    BY <2>1, <2>2, AliveStep DEF ReplayInv
  <2>5. Labelled' /\ Counts'
    BY <2>1, <2>2, <2>3, LabelledStep, CountsStep DEF ReplayInv
  <2>6. ReplayBounded'
    BY <2>1, <2>2, BoundedStep DEF ReplayInv
  <2> QED BY <2>3, <2>4, <2>5, <2>6 DEF ReplayInv
<1>2. CASE UNCHANGED vars
  BY <1>2 DEF vars, ReplayInv, Types, Arcs, ArcsOf, Alive, HasArc, Cached, Labelled, Counts,
              ReplayBounded, NoneLeaks
<1> QED BY <1>1, <1>2

LEMMA ReplayInvariant == Spec => []ReplayInv
<1>1. Init => ReplayInv
  BY ReplayInit, ReplayConstants
<1>2. ReplayInv /\ [Next]_vars => ReplayInv'
  BY ReplayStep, ReplayConstants
<1> QED BY <1>1, <1>2, PTL DEF Spec

LEMMA InUseIsHeld ==
  ASSUME ReplayConstants, ReplayInv
  PROVE  InUseNotDestroyed
<1>1. /\ kept \in [Threads -> Graphs \cup {None}] /\ flying \in [Threads -> Graphs \cup {None}]
      /\ forgotten \subseteq Graphs /\ None \notin Graphs
  BY DEF ReplayInv, Types, ReplayConstants
<1>2. ASSUME NEW g \in InUse PROVE g \in Graphs /\ HasArc(g)
  <2>1. CASE g \in Cached
    <3>1. PICK i \in DOMAIN entries : g = entries[i].graph
      BY <2>1 DEF Cached
    <3> QED BY <2>1, <3>1, GraphOf DEF ReplayInv, HasArc
  <2>2. CASE g \in doubtful
    BY <1>1, <2>2 DEF ReplayInv, Arcs, HasArc
  <2>3. CASE \E t \in Threads : g = kept[t] /\ g # None
    BY <1>1, <2>3 DEF HasArc
  <2>4. CASE \E t \in Threads : g = flying[t] /\ g # None
    BY <1>1, <2>4 DEF HasArc, ReplayInv, Arcs, ArcsOf
  <2> QED BY <2>1, <2>2, <2>3, <2>4 DEF InUse
<1> QED BY <1>2 DEF InUseNotDestroyed, ReplayInv, Alive

LEMMA SubmitsWhatWasAsked ==
  ASSUME ReplayConstants, ReplayInv
  PROVE  LaunchesWhatWasAsked
<1>1. SUFFICES ASSUME NEW t \in Threads, pc[t] = "submit"
               PROVE  /\ built[kept[t]].key = key[t]
                      /\ built[kept[t]].context = Current(t)
                      /\ Current(t) = key[t].context
  BY DEF LaunchesWhatWasAsked
<1>2. stack[t] = <<key[t].context>>
  BY <1>1 DEF ReplayInv, Types
<1>3. Current(t) = key[t].context
  BY <1>2, OneContext DEF Current
<1>4. kept[t] \in Graphs /\ built[kept[t]] # Free
  BY <1>1 DEF ReplayInv, Types, Arcs, ArcsOf, Alive, HasArc
<1>5. built[kept[t]].key = key[t] /\ built[kept[t]].context = key[t].context
  BY <1>1, <1>4 DEF ReplayInv, Labelled
<1> QED BY <1>3, <1>5

(***************************************************************************)
(* While an executable is cached, held by an addition, running, or of      *)
(* unknown completion, no thread's drop(retired) or drop(replay) destroys  *)
(* it: CudaFloat32Storage::add keeps its Arc until its wait has returned.  *)
(***************************************************************************)
THEOREM NotDestroyedInUse == Spec => []InUseNotDestroyed
<1>1. ReplayInv => InUseNotDestroyed
  BY InUseIsHeld, ReplayConstants
<1> QED BY <1>1, ReplayInvariant, PTL

(***************************************************************************)
(* Replay::launch relaunches what was built for the arguments it was asked *)
(* for, and in the current context of its thread: the pop that follows the *)
(* destruction of an executable of another context brings it back.         *)
(***************************************************************************)
THEOREM LaunchesAsAsked == Spec => []LaunchesWhatWasAsked
<1>1. ReplayInv => LaunchesWhatWasAsked
  BY SubmitsWhatWasAsked, ReplayConstants
<1> QED BY <1>1, ReplayInvariant, PTL

(***************************************************************************)
(* The lists of replay::get stay within LIMIT and name nothing twice, and  *)
(* what was built had been requested three times.                          *)
(***************************************************************************)
THEOREM BoundedReplay == Spec => []ReplayBounded
<1>1. ReplayInv => ReplayBounded
  BY DEF ReplayInv
<1> QED BY <1>1, ReplayInvariant, PTL

(***************************************************************************)
(* An executable whose last Arc is gone was destroyed, unless the driver   *)
(* refused to.                                                             *)
(***************************************************************************)
THEOREM ReplayLeaksNothing == Spec => []NoneLeaks
<1>1. ReplayInv => NoneLeaks
  BY DEF ReplayInv
<1> QED BY <1>1, ReplayInvariant, PTL
=============================================================================
