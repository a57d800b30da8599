--------------------------- MODULE BackwardProofs ---------------------------
(***************************************************************************)
(* What a backward call does to saved values and gradients, for every      *)
(* graph, however nodes and outputs are shared in it, every number of      *)
(* nodes, threads and calls.  The properties are those of calls that never *)
(* have to lay out a gradient anew.                                        *)
(***************************************************************************)
EXTENDS Backward, DataLemmas

-----------------------------------------------------------------------------
(***************************************************************************)
(* Graphs, as functions of nodes: an edge leads to an output of an earlier *)
(* node.                                                                   *)
(***************************************************************************)
AllKinds == {"absent", "leaf", "add_subtract", "multiply", "chunk"}
Known(g) == {n \in Nodes : g[n].kind # "absent"}
OutputsIn(g, n) == IF g[n].kind = "chunk" THEN Outputs ELSE {0}
TensorIn(g, x) == x \in Tensor /\ x.node \in Known(g) /\ x.output \in OutputsIn(g, x.node)
Inputs(g, n) == {g[n].edges[i].node : i \in DOMAIN g[n].edges}

SoundNode(g, n) ==
  /\ g[n].kind \in AllKinds
  /\ g[n].edges \in Seq(Tensor) /\ Len(g[n].edges) <= 2
  /\ g[n].kind \in {"absent", "leaf"} => g[n].edges = <<>>
  /\ \A i \in DOMAIN g[n].edges :
       TensorIn(g, g[n].edges[i]) /\ g[n].edges[i].node < n

Sound(g) ==
  /\ DOMAIN g = Nodes
  /\ \A n \in Nodes : SoundNode(g, n)
  /\ \A n \in Known(g) : 1..n \subseteq Known(g)

Extends(g, h) == \A n \in Known(g) : n \in Known(h) /\ h[n] = g[n]

LEMMA EdgesOf ==
  ASSUME NEW g, Sound(g), NEW n \in Nodes
  PROVE  /\ DOMAIN g[n].edges \in {{}, {1}, {1, 2}}
         /\ DOMAIN g[n].edges \subseteq {1, 2}
         /\ \A i \in DOMAIN g[n].edges :
              /\ g[n].edges[i] \in Tensor /\ TensorIn(g, g[n].edges[i])
              /\ g[n].edges[i].node \in Nodes /\ g[n].edges[i].node \in 1..(n - 1)
              /\ g[n].edges[i].output \in Outputs
         /\ Inputs(g, n) \subseteq 1..(n - 1)
<1>1. g[n].edges \in Seq(Tensor) /\ Len(g[n].edges) <= 2
      /\ \A i \in DOMAIN g[n].edges : TensorIn(g, g[n].edges[i]) /\ g[n].edges[i].node < n
  BY DEF Sound, SoundNode
<1>2. DOMAIN g[n].edges = 1..Len(g[n].edges) /\ Len(g[n].edges) \in {0, 1, 2}
  <2>1. DOMAIN g[n].edges = 1..Len(g[n].edges) /\ Len(g[n].edges) \in Nat
    BY <1>1
  <2>2. \A k \in Nat : k <= 2 => k \in {0, 1, 2}
    OBVIOUS
  <2> QED BY <1>1, <2>1, <2>2
<1>3. DOMAIN g[n].edges \in {{}, {1}, {1, 2}}
  <2>1. 1..0 = {} /\ 1..1 = {1} /\ 1..2 = {1, 2}
    OBVIOUS
  <2> QED BY <1>2, <2>1
<1>4. ASSUME NEW i \in DOMAIN g[n].edges
      PROVE  /\ g[n].edges[i] \in Tensor /\ TensorIn(g, g[n].edges[i])
             /\ g[n].edges[i].node \in Nodes /\ g[n].edges[i].node \in 1..(n - 1)
             /\ g[n].edges[i].output \in Outputs
  <2>1. g[n].edges[i] \in Tensor /\ g[n].edges[i].node < n
    BY <1>1
  <2>2. g[n].edges[i].node \in Nodes /\ g[n].edges[i].output \in Outputs
    BY <2>1 DEF Tensor
  <2> QED BY <1>1, <2>1, <2>2, BackwardConstants DEF Nodes
<1> QED BY <1>3, <1>4 DEF Inputs

-----------------------------------------------------------------------------
(***************************************************************************)
(* The nodes reachable from a node.                                        *)
(***************************************************************************)
ReachFrom(f, g, n) == {n} \cup UNION {f[g[n].edges[i].node] : i \in DOMAIN g[n].edges}
IsReach(f, g) == f = [n \in Nodes |-> ReachFrom(f, g, n)]
ReachIn(g) == CHOOSE f : IsReach(f, g)
ReachOf(g, roots) == UNION {ReachIn(g)[roots[i].node] : i \in DOMAIN roots}

LEMMA ReachDefined ==
  ASSUME NEW g, Sound(g)
  PROVE  \A n \in Nodes : ReachIn(g)[n] = ReachFrom(ReachIn(g), g, n)
<1> DEFINE A == SUBSET Nodes
           step == [n \in 1..Limit |-> [f \in [1..Limit -> A] |-> ReachFrom(f, g, n)]]
<1>0. Nodes = 1..Limit /\ Limit \in Nat
  BY BackwardConstants DEF Nodes
<1>1. ASSUME NEW n \in Nodes, NEW f \in [Nodes -> A] PROVE ReachFrom(f, g, n) \in A
  BY EdgesOf DEF ReachFrom
<1>2. step \in Courses(Limit, A)
  BY <1>0, <1>1 DEF Courses
<1>3. LooksBack(step, Limit, A)
  <2> SUFFICES ASSUME NEW n \in Nodes, NEW f \in [Nodes -> A], NEW h \in [Nodes -> A],
                      \A m \in 1..(n - 1) : f[m] = h[m]
               PROVE  ReachFrom(f, g, n) = ReachFrom(h, g, n)
    BY <1>0 DEF LooksBack
  <2>1. \A i \in DOMAIN g[n].edges : f[g[n].edges[i].node] = h[g[n].edges[i].node]
    BY EdgesOf
  <2> QED BY <2>1 DEF ReachFrom
<1>4. PICK f : CourseOf(f, step, Limit, A)
  <2> HIDE DEF A, step
  <2>1. A # {}
    BY DEF A
  <2> QED BY <1>0, <1>2, <1>3, <2>1, CourseDefines
<1>5. f \in [Nodes -> A] /\ \A n \in Nodes : f[n] = ReachFrom(f, g, n)
  BY <1>0, <1>4 DEF CourseOf
<1>6. IsReach(f, g)
  BY <1>5 DEF IsReach
<1>7. IsReach(ReachIn(g), g)
  BY <1>6 DEF ReachIn
<1> DEFINE r == ReachIn(g)
<1> HIDE DEF r
<1>8. r = [n \in Nodes |-> ReachFrom(r, g, n)]
  BY <1>7 DEF IsReach, r
<1>9. \A n \in Nodes : r[n] = ReachFrom(r, g, n)
  BY <1>8
<1> QED BY <1>9 DEF r

\* What is reached is the node itself, or reached from one of its inputs.
LEMMA ReachSteps ==
  ASSUME NEW g, Sound(g), NEW n \in Nodes
  PROVE  /\ n \in ReachIn(g)[n]
         /\ \A p \in Inputs(g, n) : ReachIn(g)[p] \subseteq ReachIn(g)[n]
         /\ \A m \in ReachIn(g)[n] : m = n \/ \E p \in Inputs(g, n) : m \in ReachIn(g)[p]
BY ReachDefined DEF ReachFrom, Inputs

\* It is the least set with the node and its members' inputs.
LEMMA ReachLeast ==
  ASSUME NEW g, Sound(g), NEW T, \A m \in T \cap Nodes : Inputs(g, m) \subseteq T
  PROVE  \A n \in T \cap Nodes : ReachIn(g)[n] \subseteq T
<1> DEFINE G == {n \in Nodes : n \in T => ReachIn(g)[n] \subseteq T}
<1>1. ASSUME NEW n \in 1..Limit, \A m \in 1..(n - 1) : m \in G PROVE n \in G
  <2>1. n \in Nodes
    BY DEF Nodes
  <2>2. ASSUME n \in T, NEW m \in ReachIn(g)[n] PROVE m \in T
    <3>1. CASE m = n
      BY <2>2, <3>1
    <3>2. ASSUME NEW p \in Inputs(g, n), m \in ReachIn(g)[p] PROVE m \in T
      <4>1. p \in T /\ p \in 1..(n - 1)
        BY <2>1, <2>2, <3>2, EdgesOf
      <4>2. p \in G
        BY <1>1, <4>1
      <4> QED BY <3>2, <4>1, <4>2
    <3> QED BY <2>1, <2>2, <3>1, <3>2, ReachSteps
  <2> QED BY <2>1, <2>2
<1> HIDE DEF G
<1>2. 1..Limit \subseteq G
  BY <1>1, SetStrongInduction, BackwardConstants
<1> QED BY <1>2 DEF G, Nodes

LEMMA ReachClosed ==
  ASSUME NEW g, Sound(g), NEW n \in Nodes
  PROVE  /\ ReachIn(g)[n] \subseteq 1..n
         /\ \A m \in ReachIn(g)[n] : Inputs(g, m) \subseteq ReachIn(g)[n]
         /\ \A m \in ReachIn(g)[n] : m = n \/ \E p \in ReachIn(g)[n] : m \in Inputs(g, p)
<1> DEFINE r == ReachIn(g)
           Closed(k) == /\ r[k] \subseteq 1..k
                        /\ \A m \in r[k] : Inputs(g, m) \subseteq r[k]
                        /\ \A m \in r[k] : m = k \/ \E p \in r[k] : m \in Inputs(g, p)
           G == {k \in Nodes : Closed(k)}
<1>1. ASSUME NEW k \in 1..Limit, \A m \in 1..(k - 1) : m \in G PROVE k \in G
  <2>1. /\ k \in Nodes /\ k \in r[k]
        /\ \A p \in Inputs(g, k) : p \in 1..(k - 1) /\ p \in Nodes /\ r[p] \subseteq r[k] /\ p \in r[p]
        /\ \A m \in r[k] : m = k \/ \E p \in Inputs(g, k) : m \in r[p]
    <3>1. k \in Nodes /\ Inputs(g, k) \subseteq 1..(k - 1)
      BY EdgesOf DEF Nodes
    <3>2. \A p \in 1..(k - 1) : p \in Nodes
      BY <3>1, BackwardConstants DEF Nodes
    <3> QED BY <3>1, <3>2, ReachSteps
  <2> HIDE DEF r
  <2>2. ASSUME NEW m \in r[k] PROVE m \in 1..k
    <3>1. CASE m = k
      BY <3>1
    <3>2. ASSUME NEW p \in Inputs(g, k), m \in r[p] PROVE m \in 1..k
      <4>1. r[p] \subseteq 1..p /\ p \in 1..(k - 1)
        BY <1>1, <2>1
      <4> QED BY <3>2, <4>1
    <3> QED BY <2>1, <3>1, <3>2
  <2>3. ASSUME NEW m \in r[k] PROVE Inputs(g, m) \subseteq r[k]
    <3>1. CASE m = k
      BY <2>1, <3>1
    <3>2. ASSUME NEW p \in Inputs(g, k), m \in r[p] PROVE Inputs(g, m) \subseteq r[k]
      <4>1. Inputs(g, m) \subseteq r[p] /\ r[p] \subseteq r[k]
        BY <1>1, <2>1, <3>2
      <4> QED BY <4>1
    <3> QED BY <2>1, <3>1, <3>2
  <2>4. ASSUME NEW m \in r[k], m # k PROVE \E p \in r[k] : m \in Inputs(g, p)
    <3>1. PICK p \in Inputs(g, k) : m \in r[p]
      BY <2>1, <2>4
    <3>2. CASE m = p
      BY <2>1, <3>1, <3>2
    <3>3. CASE \E q \in r[p] : m \in Inputs(g, q)
      BY <2>1, <3>1, <3>3
    <3> QED BY <1>1, <2>1, <3>1, <3>2, <3>3
  <2> QED BY <2>1, <2>2, <2>3, <2>4
<1> HIDE DEF G, Closed
<1>2. 1..Limit \subseteq G
  BY <1>1, SetStrongInduction, BackwardConstants
<1>3. Closed(n)
  BY <1>2 DEF G, Nodes
<1> QED BY <1>3 DEF Closed

\* Recording further nodes changes nothing that is reached from a known one.
LEMMA ReachKept ==
  ASSUME NEW g, Sound(g), NEW h, Sound(h), Extends(g, h), NEW n \in Known(g)
  PROVE  ReachIn(h)[n] = ReachIn(g)[n] /\ ReachIn(g)[n] \subseteq Known(g)
<1> DEFINE G == {k \in Nodes : k \in Known(g) => ReachIn(h)[k] = ReachIn(g)[k]
                                                /\ ReachIn(g)[k] \subseteq Known(g)}
<1>1. ASSUME NEW k \in 1..Limit, \A m \in 1..(k - 1) : m \in G PROVE k \in G
  <2> SUFFICES ASSUME k \in Known(g)
               PROVE  ReachIn(h)[k] = ReachIn(g)[k] /\ ReachIn(g)[k] \subseteq Known(g)
    BY DEF Nodes
  <2>1. k \in Nodes /\ h[k] = g[k]
    BY DEF Extends, Known
  <2>2. \A i \in DOMAIN g[k].edges : g[k].edges[i].node \in Known(g) /\ g[k].edges[i].node \in 1..(k - 1)
    BY <2>1, EdgesOf DEF TensorIn
  <2>3. \A i \in DOMAIN g[k].edges :
          /\ ReachIn(h)[g[k].edges[i].node] = ReachIn(g)[g[k].edges[i].node]
          /\ ReachIn(g)[g[k].edges[i].node] \subseteq Known(g)
    BY <1>1, <2>2
  <2>4. ReachIn(h)[k] = ReachFrom(ReachIn(h), h, k) /\ ReachIn(g)[k] = ReachFrom(ReachIn(g), g, k)
    BY <2>1, ReachDefined
  <2> QED BY <2>1, <2>3, <2>4 DEF ReachFrom
<1> HIDE DEF G
<1>2. 1..Limit \subseteq G
  BY <1>1, SetStrongInduction, BackwardConstants
<1> QED BY <1>2 DEF G, Nodes, Known

-----------------------------------------------------------------------------
(***************************************************************************)
(* The derivatives of the outputs of nodes by a leaf.                      *)
(***************************************************************************)
Terms(f, g, n, o) ==
  [i \in DOMAIN g[n].edges |->
     Derivative(g[n].kind, i, o) * f[g[n].edges[i].node][g[n].edges[i].output]]
SlopeFrom(f, g, leaf, n) ==
  [o \in Outputs |-> IF n = leaf THEN IF o = 0 THEN 1 ELSE 0 ELSE SumFunction(Terms(f, g, n, o))]
IsSlope(f, g, leaf) == f = [n \in Nodes |-> SlopeFrom(f, g, leaf, n)]
SlopeIn(g, leaf) == CHOOSE f : IsSlope(f, g, leaf)

LEMMA DerivativeInt ==
  ASSUME NEW kind \in {"add_subtract", "multiply", "chunk"}, NEW i, NEW o
  PROVE  Derivative(kind, i, o) \in Int
BY DEF Derivative

LEMMA TermsInt ==
  ASSUME NEW g, Sound(g), NEW n \in Nodes, NEW o \in Outputs, NEW f \in [Nodes -> [Outputs -> Int]]
  PROVE  /\ DOMAIN Terms(f, g, n, o) = DOMAIN g[n].edges
         /\ \A i \in DOMAIN g[n].edges : Terms(f, g, n, o)[i] \in Int
         /\ SumFunction(Terms(f, g, n, o)) \in Int
<1> DEFINE w == Terms(f, g, n, o)
<1>1. ASSUME NEW i \in DOMAIN g[n].edges PROVE w[i] \in Int
  <2>1. g[n].kind \in {"add_subtract", "multiply", "chunk"}
    BY DEF Sound, SoundNode, AllKinds
  <2>2. Derivative(g[n].kind, i, o) \in Int
    BY <2>1, DerivativeInt
  <2>3. f[g[n].edges[i].node][g[n].edges[i].output] \in Int
    BY EdgesOf
  <2> QED BY <2>2, <2>3 DEF Terms
<1>2. DOMAIN w = DOMAIN g[n].edges
  BY DEF Terms
<1> HIDE DEF w
<1>3. DOMAIN w \in {{}, {1}, {1, 2}}
  BY <1>2, EdgesOf
<1>4. SumFunction(w) \in Int
  <2>1. CASE DOMAIN w = {}
    BY <2>1, SummedFew
  <2>2. CASE DOMAIN w = {1}
    BY <1>1, <1>2, <2>2, SummedFew
  <2>3. CASE DOMAIN w = {1, 2}
    <3>1. w[1] \in Int /\ w[2] \in Int /\ 1 # 2
      BY <1>1, <1>2, <2>3
    <3>2. SumFunction(w) = w[1] + w[2]
      BY <1>1, <1>2, <2>3, <3>1, SummedFew
    <3> QED BY <3>1, <3>2
  <2> QED BY <1>3, <2>1, <2>2, <2>3
<1> QED BY <1>1, <1>2, <1>4 DEF w

LEMMA SlopeDefined ==
  ASSUME NEW g, Sound(g), NEW leaf
  PROVE  \A n \in Nodes : SlopeIn(g, leaf)[n] = SlopeFrom(SlopeIn(g, leaf), g, leaf, n)
<1> DEFINE A == [Outputs -> Int]
           step == [n \in 1..Limit |-> [f \in [1..Limit -> A] |-> SlopeFrom(f, g, leaf, n)]]
<1>0. Nodes = 1..Limit /\ Limit \in Nat
  BY BackwardConstants DEF Nodes
<1>1. ASSUME NEW n \in Nodes, NEW f \in [Nodes -> A] PROVE SlopeFrom(f, g, leaf, n) \in A
  <2>1. \A o \in Outputs : SumFunction(Terms(f, g, n, o)) \in Int
    BY TermsInt
  <2> QED BY <2>1 DEF SlopeFrom
<1>2. step \in Courses(Limit, A)
  BY <1>0, <1>1 DEF Courses
<1>3. LooksBack(step, Limit, A)
  <2> SUFFICES ASSUME NEW n \in Nodes, NEW f \in [Nodes -> A], NEW h \in [Nodes -> A],
                      \A m \in 1..(n - 1) : f[m] = h[m]
               PROVE  SlopeFrom(f, g, leaf, n) = SlopeFrom(h, g, leaf, n)
    BY <1>0 DEF LooksBack
  <2>1. \A i \in DOMAIN g[n].edges : f[g[n].edges[i].node] = h[g[n].edges[i].node]
    BY EdgesOf
  <2>2. \A o \in Outputs : Terms(f, g, n, o) = Terms(h, g, n, o)
    BY <2>1 DEF Terms
  <2> QED BY <2>2 DEF SlopeFrom
<1>4. PICK f : CourseOf(f, step, Limit, A)
  <2> HIDE DEF A, step
  <2>1. A # {}
    <3>1. [o \in Outputs |-> 0] \in A
      BY DEF A
    <3> QED BY <3>1
  <2> QED BY <1>0, <1>2, <1>3, <2>1, CourseDefines
<1>5. f \in [Nodes -> A] /\ \A n \in Nodes : f[n] = SlopeFrom(f, g, leaf, n)
  BY <1>0, <1>4 DEF CourseOf
<1>6. IsSlope(f, g, leaf)
  BY <1>5 DEF IsSlope
<1>7. IsSlope(SlopeIn(g, leaf), g, leaf)
  BY <1>6 DEF SlopeIn
<1> DEFINE r == SlopeIn(g, leaf)
<1> HIDE DEF r
<1>8. r = [n \in Nodes |-> SlopeFrom(r, g, leaf, n)]
  BY <1>7 DEF IsSlope, r
<1>9. \A n \in Nodes : r[n] = SlopeFrom(r, g, leaf, n)
  BY <1>8
<1> QED BY <1>9 DEF r

LEMMA SlopeType ==
  ASSUME NEW g, Sound(g), NEW leaf
  PROVE  SlopeIn(g, leaf) \in [Nodes -> [Outputs -> Int]]
<1> DEFINE r == SlopeIn(g, leaf)
           A == [Outputs -> Int]
           z == [o \in Outputs |-> 0]
           G == {n \in Nodes : r[n] \in A}
<1>1. ASSUME NEW n \in 1..Limit, \A m \in 1..(n - 1) : m \in G PROVE n \in G
  <2> DEFINE f == [m \in Nodes |-> IF r[m] \in A THEN r[m] ELSE z]
  <2>1. n \in Nodes /\ f \in [Nodes -> A]
    BY DEF Nodes
  <2>2. \A i \in DOMAIN g[n].edges : f[g[n].edges[i].node] = r[g[n].edges[i].node]
    BY <1>1, <2>1, EdgesOf
  <2> HIDE DEF f
  <2>3. \A o \in Outputs : Terms(f, g, n, o) = Terms(r, g, n, o)
    BY <2>2 DEF Terms
  <2>4. \A o \in Outputs : SumFunction(Terms(r, g, n, o)) \in Int
    BY <2>1, <2>3, TermsInt
  <2>5. r[n] = SlopeFrom(r, g, leaf, n)
    BY <2>1, SlopeDefined
  <2> HIDE DEF r
  <2> QED BY <2>1, <2>4, <2>5 DEF SlopeFrom
<1>2. 1..Limit \subseteq G
  <2> HIDE DEF G
  <2> QED BY <1>1, SetStrongInduction, BackwardConstants
<1>3. DOMAIN r = Nodes /\ r = [n \in Nodes |-> r[n]]
  <2>1. IsSlope(r, g, leaf)
    <3>1. \A n \in Nodes : r[n] = SlopeFrom(r, g, leaf, n)
      BY SlopeDefined
    <3> DEFINE q == [n \in Nodes |-> r[n]]
    <3>2. \A n \in Nodes : q[n] = SlopeFrom(r, g, leaf, n)
      BY <3>1
    <3>3. ASSUME NEW n \in Nodes PROVE SlopeFrom(q, g, leaf, n) = SlopeFrom(r, g, leaf, n)
      <4>1. \A i \in DOMAIN g[n].edges : q[g[n].edges[i].node] = r[g[n].edges[i].node]
        BY EdgesOf
      <4>2. \A o \in Outputs : Terms(q, g, n, o) = Terms(r, g, n, o)
        BY <4>1 DEF Terms
      <4> QED BY <4>2 DEF SlopeFrom
    <3>4. q = [n \in Nodes |-> SlopeFrom(q, g, leaf, n)]
      BY <3>2, <3>3
    <3>5. IsSlope(q, g, leaf)
      BY <3>4 DEF IsSlope
    <3> HIDE DEF q
    <3> QED BY <3>5 DEF SlopeIn
  <2>2. r = [n \in Nodes |-> SlopeFrom(r, g, leaf, n)]
    BY <2>1 DEF IsSlope
  <2> HIDE DEF r
  <2> QED BY <2>2
<1> HIDE DEF r
<1>4. \A n \in Nodes : r[n] \in A
  BY <1>2 DEF Nodes
<1> QED BY <1>3, <1>4 DEF r

\* By itself a leaf has the derivative 1; another node's is that of its edges.
LEMMA SlopeSteps ==
  ASSUME NEW g, Sound(g), NEW leaf \in Nodes, NEW n \in Nodes, NEW o \in Outputs
  PROVE  LET S == SlopeIn(g, leaf)
             d(i) == Derivative(g[n].kind, i, o)
             s(i) == S[g[n].edges[i].node][g[n].edges[i].output]
         IN  /\ n = leaf => S[n][o] = IF o = 0 THEN 1 ELSE 0
             /\ n # leaf /\ DOMAIN g[n].edges = {} => S[n][o] = 0
             /\ n # leaf /\ DOMAIN g[n].edges = {1} => S[n][o] = d(1) * s(1)
             /\ n # leaf /\ DOMAIN g[n].edges = {1, 2} => S[n][o] = d(1) * s(1) + d(2) * s(2)
<1> DEFINE S == SlopeIn(g, leaf)
           w == Terms(S, g, n, o)
           d(i) == Derivative(g[n].kind, i, o)
           s(i) == S[g[n].edges[i].node][g[n].edges[i].output]
<1>1. S[n] = SlopeFrom(S, g, leaf, n)
  BY SlopeDefined
<1>2. /\ DOMAIN w = DOMAIN g[n].edges
      /\ \A i \in DOMAIN w : w[i] \in Int
  BY SlopeType, TermsInt
<1>3. \A i \in DOMAIN w : w[i] = d(i) * s(i)
  BY DEF Terms
<1> HIDE DEF S, w, d, s
<1>4. S[n][o] = IF n = leaf THEN IF o = 0 THEN 1 ELSE 0 ELSE SumFunction(w)
  BY <1>1 DEF SlopeFrom, w
<1>5. /\ DOMAIN w = {} => SumFunction(w) = 0
      /\ DOMAIN w = {1} => SumFunction(w) = w[1]
      /\ DOMAIN w = {1, 2} => SumFunction(w) = w[1] + w[2]
  <2>1. 1 # 2
    OBVIOUS
  <2> QED BY <1>2, <2>1, SummedFew
<1>6. /\ n = leaf => S[n][o] = IF o = 0 THEN 1 ELSE 0
      /\ n # leaf /\ DOMAIN g[n].edges = {} => S[n][o] = 0
      /\ n # leaf /\ DOMAIN g[n].edges = {1} => S[n][o] = d(1) * s(1)
      /\ n # leaf /\ DOMAIN g[n].edges = {1, 2} => S[n][o] = d(1) * s(1) + d(2) * s(2)
  BY <1>2, <1>3, <1>4, <1>5
<1> QED BY <1>6 DEF S, d, s

\* A later leaf does not matter, and later nodes do not either.
LEMMA SlopeOfLater ==
  ASSUME NEW g, Sound(g), NEW leaf \in Nodes
  PROVE  \A n \in 1..(leaf - 1), o \in Outputs : SlopeIn(g, leaf)[n][o] = 0
<1> DEFINE S == SlopeIn(g, leaf)
           G == {n \in Nodes : n < leaf => \A o \in Outputs : S[n][o] = 0}
<1>1. ASSUME NEW n \in 1..Limit, \A m \in 1..(n - 1) : m \in G PROVE n \in G
  <2> SUFFICES ASSUME n < leaf, NEW o \in Outputs PROVE S[n][o] = 0
    BY DEF Nodes
  <2>1. n \in Nodes /\ n # leaf /\ leaf \in Int
    BY BackwardConstants DEF Nodes
  <2>2. \A i \in DOMAIN g[n].edges : S[g[n].edges[i].node][g[n].edges[i].output] = 0
    <3>1. ASSUME NEW i \in DOMAIN g[n].edges
          PROVE  S[g[n].edges[i].node][g[n].edges[i].output] = 0
      <4>1. /\ g[n].edges[i].node \in 1..(n - 1) /\ g[n].edges[i].output \in Outputs
            /\ g[n].edges[i].node \in Nodes
        BY <2>1, EdgesOf
      <4>2. g[n].edges[i].node < leaf
        BY <2>1, <4>1 DEF Nodes
      <4> QED BY <1>1, <4>1, <4>2
    <3> QED BY <3>1
  <2>3. \A i \in DOMAIN g[n].edges : Derivative(g[n].kind, i, o) \in Int
    <3>1. DOMAIN g[n].edges # {} => g[n].kind \in {"add_subtract", "multiply", "chunk"}
      BY <2>1 DEF Sound, SoundNode, AllKinds
    <3> QED BY <3>1, DerivativeInt
  <2>4. \A x \in Int : x * 0 = 0
    OBVIOUS
  <2>5. DOMAIN g[n].edges \in {{}, {1}, {1, 2}}
    BY <2>1, EdgesOf
  <2>6. CASE DOMAIN g[n].edges = {}
    BY <2>1, <2>6, SlopeSteps
  <2>7. CASE DOMAIN g[n].edges = {1}
    <3>1. S[n][o] = Derivative(g[n].kind, 1, o) * S[g[n].edges[1].node][g[n].edges[1].output]
      BY <2>1, <2>7, SlopeSteps
    <3> HIDE DEF S
    <3> QED BY <2>2, <2>3, <2>4, <2>7, <3>1
  <2>8. CASE DOMAIN g[n].edges = {1, 2}
    <3>1. S[n][o] = Derivative(g[n].kind, 1, o) * S[g[n].edges[1].node][g[n].edges[1].output]
                    + Derivative(g[n].kind, 2, o) * S[g[n].edges[2].node][g[n].edges[2].output]
      BY <2>1, <2>8, SlopeSteps
    <3> HIDE DEF S
    <3> QED BY <2>2, <2>3, <2>4, <2>8, <3>1
  <2> QED BY <2>5, <2>6, <2>7, <2>8
<1>2. 1..Limit \subseteq G
  <2> HIDE DEF G
  <2> QED BY <1>1, SetStrongInduction, BackwardConstants
<1> HIDE DEF S
<1>3. \A n \in 1..(leaf - 1) : n \in 1..Limit /\ n < leaf
  BY BackwardConstants DEF Nodes
<1> QED BY <1>2, <1>3 DEF S

LEMMA SlopeKept ==
  ASSUME NEW g, Sound(g), NEW h, Sound(h), Extends(g, h), NEW leaf \in Nodes, NEW n \in Known(g)
  PROVE  SlopeIn(h, leaf)[n] = SlopeIn(g, leaf)[n]
<1> DEFINE G == {k \in Nodes : k \in Known(g) => SlopeIn(h, leaf)[k] = SlopeIn(g, leaf)[k]}
<1>1. ASSUME NEW k \in 1..Limit, \A m \in 1..(k - 1) : m \in G PROVE k \in G
  <2> SUFFICES ASSUME k \in Known(g) PROVE SlopeIn(h, leaf)[k] = SlopeIn(g, leaf)[k]
    BY DEF Nodes
  <2>1. k \in Nodes /\ h[k] = g[k]
    BY DEF Extends, Known
  <2>2. \A i \in DOMAIN g[k].edges : g[k].edges[i].node \in Known(g) /\ g[k].edges[i].node \in 1..(k - 1)
    BY <2>1, EdgesOf DEF TensorIn
  <2>3. \A i \in DOMAIN g[k].edges :
          SlopeIn(h, leaf)[g[k].edges[i].node] = SlopeIn(g, leaf)[g[k].edges[i].node]
    BY <1>1, <2>2
  <2>4. /\ SlopeIn(h, leaf)[k] = SlopeFrom(SlopeIn(h, leaf), h, leaf, k)
        /\ SlopeIn(g, leaf)[k] = SlopeFrom(SlopeIn(g, leaf), g, leaf, k)
    BY <2>1, SlopeDefined
  <2>5. \A o \in Outputs : Terms(SlopeIn(h, leaf), h, k, o) = Terms(SlopeIn(g, leaf), g, k, o)
    BY <2>1, <2>3 DEF Terms
  <2> QED BY <2>4, <2>5 DEF SlopeFrom
<1> HIDE DEF G
<1>2. 1..Limit \subseteq G
  BY <1>1, SetStrongInduction, BackwardConstants
<1> QED BY <1>2 DEF G, Nodes, Known

-----------------------------------------------------------------------------
(***************************************************************************)
(* What the gradients of a pass amount to for a leaf: each times the       *)
(* derivative of its tensor.  Passing on what arrived at a node, the step  *)
(* of the pass, does not change it.                                        *)
(***************************************************************************)
Gradients == [Tensor -> Int \cup {None}]
Value(gr, x) == IF gr[x] = None THEN 0 ELSE gr[x]
SlopeAt(g, leaf, x) == SlopeIn(g, leaf)[x.node][x.output]
Weights(gr, g, leaf) == [x \in Tensor |-> Value(gr, x) * SlopeAt(g, leaf, x)]
Flow(gr, g, leaf) == SumOf(Weights(gr, g, leaf), Tensor)

Out(n, o) == [node |-> n, output |-> o]
ArrivedIn(g, gr, n) == {o \in OutputsIn(g, n) : gr[Out(n, o)] # None}
ThroughIn(g, gr, n, i) ==
  SumFunction([o \in ArrivedIn(g, gr, n) |-> gr[Out(n, o)] * Derivative(g[n].kind, i, o)])
Into(g, n, x) == {i \in DOMAIN g[n].edges : g[n].edges[i] = x}
PropagatedIn(g, gr, n) ==
  [x \in Tensor |->
     IF x.node = n THEN None
     ELSE IF Into(g, n, x) = {} THEN gr[x]
     ELSE Added(gr, x, SumFunction([i \in Into(g, n, x) |-> ThroughIn(g, gr, n, i)]))]

\* Only the outputs a node has get gradients.
Wellformed(gr, g) == gr \in Gradients /\ \A x \in Tensor : gr[x] # None => TensorIn(g, x)

LEMMA TensorFinite == IsFiniteSet(Tensor)
<1> DEFINE P == Nodes \X Outputs
           f == [q \in P |-> Out(q[1], q[2])]
<1>1. IsFiniteSet(Nodes) /\ IsFiniteSet(Outputs)
  <2>1. IsFiniteSet(Nodes)
    BY FS_Interval, BackwardConstants DEF Nodes
  <2>2. IsFiniteSet({0}) /\ Outputs = {0} \cup {1}
    BY FS_Singleton DEF Outputs
  <2> QED BY <2>1, <2>2, FS_AddElement
<1>2. IsFiniteSet(P)
  BY <1>1, FS_Product
<1>3. f \in Surjection(P, Tensor)
  <2>1. f \in [P -> Tensor]
    BY DEF Tensor, Out
  <2>2. ASSUME NEW x \in Tensor PROVE \E q \in P : f[q] = x
    <3>1. <<x.node, x.output>> \in P /\ Out(x.node, x.output) = x
      BY DEF Tensor, Out
    <3>2. f[<<x.node, x.output>>] = x
      BY <3>1
    <3> QED BY <3>1, <3>2
  <2> QED BY <2>1, <2>2 DEF Surjection
<1> HIDE DEF P, f
<1> QED BY <1>2, <1>3, FS_Surjection

LEMMA OutTensor ==
  ASSUME NEW n \in Nodes
  PROVE  /\ \A o \in Outputs : Out(n, o) \in Tensor /\ Out(n, o).node = n /\ Out(n, o).output = o
         /\ \A x \in Tensor : x.node = n => x = Out(n, 0) \/ x = Out(n, 1)
         /\ Out(n, 0) # Out(n, 1)
<1>1. \A x \in Tensor : x = Out(x.node, x.output) /\ x.output \in {0, 1}
  BY DEF Tensor, Out, Outputs
<1>2. Out(n, 0).output = 0 /\ Out(n, 1).output = 1
  BY DEF Out
<1>3. \A o \in Outputs : Out(n, o) \in Tensor /\ Out(n, o).node = n /\ Out(n, o).output = o
  BY DEF Tensor, Out
<1> QED BY <1>1, <1>2, <1>3

LEMMA ValueInt ==
  ASSUME NEW gr \in Gradients, NEW x \in Tensor
  PROVE  Value(gr, x) \in Int
BY DEF Gradients, Value

LEMMA WeightsInt ==
  ASSUME NEW g, Sound(g), NEW gr \in Gradients, NEW leaf
  PROVE  /\ \A x \in Tensor : SlopeAt(g, leaf, x) \in Int
         /\ \A x \in Tensor : Weights(gr, g, leaf)[x] \in Int
<1>1. ASSUME NEW x \in Tensor PROVE SlopeAt(g, leaf, x) \in Int
  <2>1. x.node \in Nodes /\ x.output \in Outputs
    BY DEF Tensor
  <2> QED BY <2>1, SlopeType DEF SlopeAt
<1> QED BY <1>1, ValueInt DEF Weights

LEMMA ThroughValue ==
  ASSUME NEW g, Sound(g), NEW gr, Wellformed(gr, g), NEW n \in Nodes, NEW i,
         g[n].kind \in {"add_subtract", "multiply", "chunk"}
  PROVE  /\ ThroughIn(g, gr, n, i) = Value(gr, Out(n, 0)) * Derivative(g[n].kind, i, 0)
                                     + Value(gr, Out(n, 1)) * Derivative(g[n].kind, i, 1)
         /\ ThroughIn(g, gr, n, i) \in Int
<1> DEFINE a == Out(n, 0)
           b == Out(n, 1)
           A == ArrivedIn(g, gr, n)
           d0 == Derivative(g[n].kind, i, 0)
           d1 == Derivative(g[n].kind, i, 1)
           w == [o \in A |-> gr[Out(n, o)] * Derivative(g[n].kind, i, o)]
<1>1. a \in Tensor /\ b \in Tensor /\ b.output = 1 /\ b.node = n /\ a.node = n
  BY OutTensor DEF Outputs
<1>2. gr \in Gradients
  BY DEF Wellformed
<1>3. d0 \in Int /\ d1 \in Int /\ Value(gr, a) \in Int /\ Value(gr, b) \in Int
  BY <1>1, <1>2, DerivativeInt, ValueInt
<1>4. /\ 0 \in A <=> gr[a] # None
      /\ 1 \in A <=> gr[b] # None
      /\ A \subseteq {0, 1}
  <2>1. 0 \in OutputsIn(g, n) /\ OutputsIn(g, n) \subseteq {0, 1}
    BY DEF OutputsIn, Outputs
  <2>2. gr[b] # None => 1 \in OutputsIn(g, n)
    BY <1>1 DEF Wellformed, TensorIn
  <2> QED BY <2>1, <2>2 DEF ArrivedIn
<1>5. /\ 0 \in A => w[0] = Value(gr, a) * d0
      /\ 1 \in A => w[1] = Value(gr, b) * d1
      /\ 0 \notin A => Value(gr, a) = 0
      /\ 1 \notin A => Value(gr, b) = 0
      /\ DOMAIN w = A
  BY <1>4 DEF Value
<1>6. ThroughIn(g, gr, n, i) = SumFunction(w)
  BY DEF ThroughIn
<1>7. A \in {{}, {0}, {1}, {0, 1}}
  BY <1>4
<1> DEFINE u == Value(gr, a)
           v == Value(gr, b)
<1> HIDE DEF A, w, a, b, d0, d1, u, v
<1>8. u \in Int /\ v \in Int /\ d0 \in Int /\ d1 \in Int
  BY <1>3 DEF u, v
<1>9. /\ u * d0 \in Int /\ v * d1 \in Int
      /\ u = 0 => u * d0 = 0
      /\ v = 0 => v * d1 = 0
  BY <1>8
<1>10. \A o \in DOMAIN w : w[o] \in Int
  BY <1>4, <1>5, <1>9 DEF u, v
<1>11. SumFunction(w) = u * d0 + v * d1
  <2>1. CASE A = {}
    BY <1>5, <1>9, <1>10, <2>1, SummedFew DEF u, v
  <2>2. CASE A = {0}
    <3>1. SumFunction(w) = w[0]
      BY <1>5, <1>10, <2>2, SummedFew
    <3> QED BY <1>5, <1>9, <2>2, <3>1 DEF u, v
  <2>3. CASE A = {1}
    <3>1. SumFunction(w) = w[1]
      BY <1>5, <1>10, <2>3, SummedFew
    <3> QED BY <1>5, <1>9, <2>3, <3>1 DEF u, v
  <2>4. CASE A = {0, 1}
    <3>1. SumFunction(w) = w[0] + w[1]
      <4>1. 0 # 1
        OBVIOUS
      <4> QED BY <1>5, <1>10, <2>4, <4>1, SummedFew
    <3> QED BY <1>5, <2>4, <3>1 DEF u, v
  <2> QED BY <1>7, <2>1, <2>2, <2>3, <2>4
<1> QED BY <1>6, <1>9, <1>11 DEF u, v, a, b, d0, d1

\* What a tensor gets from the i-th edge of n.
Gets(g, gr, n, i, x) ==
  IF i \in DOMAIN g[n].edges /\ g[n].edges[i] = x THEN ThroughIn(g, gr, n, i) ELSE 0

LEMMA PropagatedValue ==
  ASSUME NEW g, Sound(g), NEW gr, Wellformed(gr, g), NEW n \in Nodes,
         g[n].kind \in {"add_subtract", "multiply", "chunk"}
  PROVE  LET q == PropagatedIn(g, gr, n)
         IN  /\ Wellformed(q, g)
             /\ \A x \in Tensor : x.node = n => q[x] = None
             /\ \A x \in Tensor : x.node # n =>
                  /\ Value(q, x) = Value(gr, x) + Gets(g, gr, n, 1, x) + Gets(g, gr, n, 2, x)
                  /\ q[x] # None <=> gr[x] # None \/ \E i \in DOMAIN g[n].edges : g[n].edges[i] = x
<1> DEFINE q == PropagatedIn(g, gr, n)
           T(i) == ThroughIn(g, gr, n, i)
           E == DOMAIN g[n].edges
<1>0. gr \in Gradients
  BY DEF Wellformed
<1>1. \A i : T(i) \in Int
  BY ThroughValue
<1>2. E \subseteq {1, 2}
  BY EdgesOf
<1>3. \A x \in Tensor : x.node = n => q[x] = None
  BY DEF PropagatedIn
<1>4. ASSUME NEW x \in Tensor, x.node # n
      PROVE  /\ Value(q, x) = Value(gr, x) + Gets(g, gr, n, 1, x) + Gets(g, gr, n, 2, x)
             /\ q[x] # None <=> gr[x] # None \/ \E i \in E : g[n].edges[i] = x
             /\ q[x] \in Int \cup {None}
  <2> DEFINE I == Into(g, n, x)
             w == [i \in I |-> T(i)]
  <2>1. I \subseteq {1, 2} /\ I = {i \in E : g[n].edges[i] = x} /\ DOMAIN w = I
    BY <1>2 DEF Into
  <2>2. /\ Gets(g, gr, n, 1, x) = IF 1 \in I THEN T(1) ELSE 0
        /\ Gets(g, gr, n, 2, x) = IF 2 \in I THEN T(2) ELSE 0
    BY <2>1 DEF Gets
  <2>3. q[x] = IF I = {} THEN gr[x] ELSE Added(gr, x, SumFunction(w))
    BY <1>4 DEF PropagatedIn
  <2>4. gr[x] \in Int \cup {None} /\ None \notin Int
    BY <1>0, BackwardConstants DEF Gradients
  <2>5. \A i \in DOMAIN w : w[i] \in Int /\ w[i] = T(i)
    BY <1>1
  <2>6. T(1) \in Int /\ T(2) \in Int
    BY <1>1
  <2> HIDE DEF T, I, w, q, E
  <2>7. I # {} => SumFunction(w) = Gets(g, gr, n, 1, x) + Gets(g, gr, n, 2, x)
    <3>1. CASE I = {1}
      <4>1. SumFunction(w) = w[1] /\ w[1] = T(1)
        BY <2>1, <2>5, <3>1, SummedFew
      <4> QED BY <2>2, <2>6, <3>1, <4>1
    <3>2. CASE I = {2}
      <4>1. SumFunction(w) = w[2] /\ w[2] = T(2)
        BY <2>1, <2>5, <3>2, SummedFew
      <4> QED BY <2>2, <2>6, <3>2, <4>1
    <3>3. CASE I = {1, 2}
      <4>1. 1 # 2 /\ DOMAIN w = {1, 2} /\ w[1] = T(1) /\ w[2] = T(2)
        BY <2>1, <2>5, <3>3
      <4>2. SumFunction(w) = w[1] + w[2]
        BY <2>5, <4>1, SummedFew
      <4> QED BY <2>2, <3>3, <4>1, <4>2
    <3>4. I \in {{}, {1}, {2}, {1, 2}}
      BY <2>1
    <3> QED BY <3>1, <3>2, <3>3, <3>4
  <2>8. Gets(g, gr, n, 1, x) \in Int /\ Gets(g, gr, n, 2, x) \in Int
    BY <2>2, <2>6
  <2>9. CASE I = {}
    <3>1. q[x] = gr[x] /\ Gets(g, gr, n, 1, x) = 0 /\ Gets(g, gr, n, 2, x) = 0
      BY <2>2, <2>3, <2>9
    <3>2. Value(q, x) = Value(gr, x) /\ Value(gr, x) \in Int
      BY <2>4, <3>1 DEF Value
    <3> QED BY <2>1, <2>4, <2>9, <3>1, <3>2
  <2>10. CASE I # {}
    <3> DEFINE k == SumFunction(w)
    <3>1. k \in Int /\ k = Gets(g, gr, n, 1, x) + Gets(g, gr, n, 2, x)
      BY <2>7, <2>8, <2>10
    <3>2. q[x] = IF gr[x] = None THEN k ELSE gr[x] + k
      BY <2>3, <2>10 DEF Added
    <3> HIDE DEF k
    <3>3. q[x] \in Int /\ q[x] # None
      BY <2>4, <3>1, <3>2
    <3>4. Value(q, x) = Value(gr, x) + k
      BY <2>4, <3>1, <3>2, <3>3 DEF Value
    <3>5. Value(gr, x) \in Int
      BY <2>4 DEF Value
    <3> QED BY <2>1, <2>8, <2>10, <3>1, <3>3, <3>4, <3>5
  <2> QED BY <2>9, <2>10 DEF E
<1>5. q \in Gradients
  <2>1. ASSUME NEW x \in Tensor PROVE q[x] \in Int \cup {None}
    BY <1>3, <1>4
  <2>2. q = [x \in Tensor |-> q[x]]
    BY DEF PropagatedIn
  <2> HIDE DEF q
  <2> QED BY <2>1, <2>2 DEF Gradients
<1>6. ASSUME NEW x \in Tensor, q[x] # None PROVE TensorIn(g, x)
  <2>1. x.node # n
    BY <1>3, <1>6
  <2>2. gr[x] # None \/ \E i \in E : g[n].edges[i] = x
    BY <1>4, <1>6, <2>1
  <2> QED BY <2>2, EdgesOf DEF Wellformed
<1> HIDE DEF q
<1>7. Wellformed(q, g)
  BY <1>5, <1>6 DEF Wellformed
<1> QED BY <1>3, <1>4, <1>7 DEF q

LEMMA SlopeOfOutputs ==
  ASSUME NEW g, Sound(g), NEW gr, Wellformed(gr, g), NEW n \in Nodes, NEW leaf \in Nodes, leaf # n,
         g[n].kind \in {"add_subtract", "multiply", "chunk"}
  PROVE  Value(gr, Out(n, 0)) * SlopeAt(g, leaf, Out(n, 0))
           + Value(gr, Out(n, 1)) * SlopeAt(g, leaf, Out(n, 1))
         = (IF 1 \in DOMAIN g[n].edges
            THEN ThroughIn(g, gr, n, 1) * SlopeAt(g, leaf, g[n].edges[1]) ELSE 0)
           + (IF 2 \in DOMAIN g[n].edges
              THEN ThroughIn(g, gr, n, 2) * SlopeAt(g, leaf, g[n].edges[2]) ELSE 0)
<1> DEFINE u == Value(gr, Out(n, 0))
           v == Value(gr, Out(n, 1))
           D(i, o) == Derivative(g[n].kind, i, o)
           S(i) == SlopeAt(g, leaf, g[n].edges[i])
           T(i) == ThroughIn(g, gr, n, i)
           R(o) == SlopeAt(g, leaf, Out(n, o))
           E == DOMAIN g[n].edges
<1>1. u \in Int /\ v \in Int
  BY OutTensor, ValueInt DEF Wellformed, Outputs
<1>2. D(1, 0) \in Int /\ D(1, 1) \in Int /\ D(2, 0) \in Int /\ D(2, 1) \in Int
  BY DerivativeInt
<1>3. /\ T(1) = u * D(1, 0) + v * D(1, 1)
      /\ T(2) = u * D(2, 0) + v * D(2, 1)
  BY ThroughValue
<1>4. \A i \in E : S(i) \in Int
  <2>1. gr \in Gradients
    BY DEF Wellformed
  <2>2. \A i \in E : g[n].edges[i] \in Tensor
    BY EdgesOf
  <2> QED BY <2>1, <2>2, WeightsInt
<1>5. ASSUME NEW o \in Outputs
      PROVE  /\ E = {} => R(o) = 0
             /\ E = {1} => R(o) = D(1, o) * S(1)
             /\ E = {1, 2} => R(o) = D(1, o) * S(1) + D(2, o) * S(2)
  <2>1. R(o) = SlopeIn(g, leaf)[n][o]
    BY OutTensor DEF SlopeAt
  <2>2. /\ S(1) = SlopeIn(g, leaf)[g[n].edges[1].node][g[n].edges[1].output]
        /\ S(2) = SlopeIn(g, leaf)[g[n].edges[2].node][g[n].edges[2].output]
    BY DEF SlopeAt
  <2>3. LET Z == SlopeIn(g, leaf)
            d(i) == Derivative(g[n].kind, i, o)
            s(i) == Z[g[n].edges[i].node][g[n].edges[i].output]
        IN  /\ n = leaf => Z[n][o] = IF o = 0 THEN 1 ELSE 0
            /\ n # leaf /\ DOMAIN g[n].edges = {} => Z[n][o] = 0
            /\ n # leaf /\ DOMAIN g[n].edges = {1} => Z[n][o] = d(1) * s(1)
            /\ n # leaf /\ DOMAIN g[n].edges = {1, 2} => Z[n][o] = d(1) * s(1) + d(2) * s(2)
    BY SlopeSteps
  <2>4. /\ E = {} => SlopeIn(g, leaf)[n][o] = 0
        /\ E = {1} => SlopeIn(g, leaf)[n][o] =
                        D(1, o) * SlopeIn(g, leaf)[g[n].edges[1].node][g[n].edges[1].output]
        /\ E = {1, 2} => SlopeIn(g, leaf)[n][o] =
                        D(1, o) * SlopeIn(g, leaf)[g[n].edges[1].node][g[n].edges[1].output]
                        + D(2, o) * SlopeIn(g, leaf)[g[n].edges[2].node][g[n].edges[2].output]
    BY <2>3
  <2> HIDE DEF D, R, S, E
  <2> QED BY <2>1, <2>2, <2>4
<1>6. E \in {{}, {1}, {1, 2}}
  BY EdgesOf
<1>7. 0 \in Outputs /\ 1 \in Outputs
  BY DEF Outputs
<1> HIDE DEF u, v, D, S, T, R, E
<1>8. \A a, b, c, d, s \in Int : a * (c * s) + b * (d * s) = (a * c + b * d) * s
  OBVIOUS
<1>9. \A a, b, c, d \in Int : a * (c + d) = a * c + a * d
  OBVIOUS
<1>a. \A a, b \in Int : a * b \in Int
  OBVIOUS
<1>10. u * R(0) + v * R(1) = (IF 1 \in E THEN T(1) * S(1) ELSE 0) + (IF 2 \in E THEN T(2) * S(2) ELSE 0)
  <2>1. CASE E = {}
    <3>1. R(0) = 0 /\ R(1) = 0
      BY <1>5, <1>7, <2>1
    <3> QED BY <1>1, <2>1, <3>1
  <2>2. CASE E = {1}
    <3>1. R(0) = D(1, 0) * S(1) /\ R(1) = D(1, 1) * S(1) /\ S(1) \in Int
      BY <1>4, <1>5, <1>7, <2>2
    <3>2. u * R(0) + v * R(1) = T(1) * S(1)
      BY <1>1, <1>2, <1>3, <1>8, <3>1
    <3>3. T(1) * S(1) \in Int
      BY <1>1, <1>2, <1>3, <3>1
    <3> QED BY <2>2, <3>2, <3>3
  <2>3. CASE E = {1, 2}
    <3> DEFINE p0 == D(1, 0) * S(1)
               p1 == D(1, 1) * S(1)
               q0 == D(2, 0) * S(2)
               q1 == D(2, 1) * S(2)
    <3>1. /\ R(0) = p0 + q0 /\ R(1) = p1 + q1
          /\ S(1) \in Int /\ S(2) \in Int
      BY <1>4, <1>5, <1>7, <2>3
    <3>2. p0 \in Int /\ p1 \in Int /\ q0 \in Int /\ q1 \in Int
      BY <1>2, <1>a, <3>1
    <3>3. u * p0 + v * p1 = T(1) * S(1) /\ u * q0 + v * q1 = T(2) * S(2)
      BY <1>1, <1>2, <1>3, <1>8, <3>1
    <3> HIDE DEF p0, p1, q0, q1
    <3>4. u * R(0) = u * p0 + u * q0 /\ v * R(1) = v * p1 + v * q1
      BY <1>1, <1>9, <3>1, <3>2
    <3>5. u * p0 \in Int /\ u * q0 \in Int /\ v * p1 \in Int /\ v * q1 \in Int
      BY <1>1, <1>a, <3>2
    <3>6. u * R(0) + v * R(1) = T(1) * S(1) + T(2) * S(2)
      BY <3>3, <3>4, <3>5
    <3> QED BY <2>3, <3>6
  <2> QED BY <1>6, <2>1, <2>2, <2>3
<1> QED BY <1>10 DEF u, v, D, S, T, R, E

LEMMA FlowPropagated ==
  ASSUME NEW g, Sound(g), NEW gr, Wellformed(gr, g), NEW n \in Nodes, NEW leaf \in Nodes, leaf # n,
         g[n].kind \in {"add_subtract", "multiply", "chunk"}
  PROVE  Flow(PropagatedIn(g, gr, n), g, leaf) = Flow(gr, g, leaf)
<1> DEFINE q == PropagatedIn(g, gr, n)
           S(x) == SlopeAt(g, leaf, x)
           a == Out(n, 0)
           b == Out(n, 1)
           ua == Value(gr, a) * S(a)
           ub == Value(gr, b) * S(b)
           E == DOMAIN g[n].edges
           y(i) == IF i \in E THEN g[n].edges[i] ELSE a
           d(i) == IF i \in E THEN ThroughIn(g, gr, n, i) * S(g[n].edges[i]) ELSE 0
           w0 == Weights(gr, g, leaf)
           w1 == Bumped(w0, Tensor, a, -ua)
           w2 == Bumped(w1, Tensor, b, -ub)
           w3 == Bumped(w2, Tensor, y(1), d(1))
           w4 == Bumped(w3, Tensor, y(2), d(2))
<1>1. gr \in Gradients /\ q \in Gradients
  BY PropagatedValue DEF Wellformed
<1>2. \A x \in Tensor : S(x) \in Int /\ Value(gr, x) \in Int /\ w0[x] \in Int
  BY <1>1, WeightsInt, ValueInt
<1>3. /\ a \in Tensor /\ b \in Tensor /\ a # b /\ a.node = n /\ b.node = n
      /\ \A x \in Tensor : x.node = n => x = a \/ x = b
  BY OutTensor DEF Outputs
<1>4. ua \in Int /\ ub \in Int /\ -ua \in Int /\ -ub \in Int
  <2>1. \A j, k \in Int : j * k \in Int
    OBVIOUS
  <2> HIDE DEF S
  <2> QED BY <1>2, <1>3, <2>1
<1>5. \A i : ThroughIn(g, gr, n, i) \in Int
  BY ThroughValue
<1>6. \A i \in E : g[n].edges[i] \in Tensor /\ g[n].edges[i].node # n
  <2>1. \A i \in E : g[n].edges[i].node \in 1..(n - 1)
    BY EdgesOf
  <2>2. n \in Nat
    BY DEF Nodes
  <2>3. n \notin 1..(n - 1)
    BY <2>2
  <2> QED BY <2>1, <2>3, EdgesOf
<1>7. \A i : y(i) \in Tensor /\ d(i) \in Int
  <2>1. \A j, k \in Int : j * k \in Int
    OBVIOUS
  <2> HIDE DEF S
  <2> QED BY <1>2, <1>3, <1>5, <1>6, <2>1
<1>8. d(1) + d(2) = ua + ub
  BY SlopeOfOutputs
<1> HIDE DEF ua, ub, w0
<1>9. SumOf(w4, Tensor) = SumOf(w0, Tensor) + (-ua) + (-ub) + d(1) + d(2)
  <2> HIDE DEF y, d, w1, w2, w3, w4
  <2>1. SumOf(w1, Tensor) = SumOf(w0, Tensor) + (-ua) /\ \A x \in Tensor : w1[x] \in Int
    BY <1>2, <1>3, <1>4, TensorFinite, SumBumped DEF w1
  <2>2. SumOf(w2, Tensor) = SumOf(w1, Tensor) + (-ub) /\ \A x \in Tensor : w2[x] \in Int
    BY <1>3, <1>4, <2>1, TensorFinite, SumBumped DEF w2
  <2>3. SumOf(w3, Tensor) = SumOf(w2, Tensor) + d(1) /\ \A x \in Tensor : w3[x] \in Int
    BY <1>7, <2>2, TensorFinite, SumBumped DEF w3
  <2>4. SumOf(w4, Tensor) = SumOf(w3, Tensor) + d(2)
    BY <1>7, <2>3, TensorFinite, SumBumped DEF w4
  <2> QED BY <2>1, <2>2, <2>3, <2>4
<1>10. SumOf(w0, Tensor) \in Int
  BY <1>2, TensorFinite, SumInt
<1>11. SumOf(w4, Tensor) = SumOf(w0, Tensor)
  <2> DEFINE z == SumOf(w0, Tensor)
             d1 == d(1)
             d2 == d(2)
  <2>1. d1 \in Int /\ d2 \in Int /\ z \in Int /\ d1 + d2 = ua + ub
        /\ SumOf(w4, Tensor) = z + (-ua) + (-ub) + d1 + d2
    BY <1>7, <1>8, <1>9, <1>10
  <2> HIDE DEF z, d1, d2, w4
  <2>2. SumOf(w4, Tensor) = z
    BY <1>4, <2>1
  <2> QED BY <2>2 DEF z
<1> DEFINE c(i, x) == Gets(g, gr, n, i, x)
           v == Weights(q, g, leaf)
<1>12. ASSUME NEW x \in Tensor, x.node = n PROVE v[x] = w4[x]
  <2>1. v[x] = 0
    <3>1. Value(q, x) = 0
      BY <1>12, PropagatedValue DEF Value
    <3>2. S(x) \in Int
      BY <1>2
    <3>3. v[x] = Value(q, x) * S(x)
      BY DEF Weights
    <3> HIDE DEF v, S
    <3> QED BY <3>1, <3>2, <3>3
  <2>2. w0[a] = ua /\ w0[b] = ub
    BY <1>3 DEF w0, ua, ub, Weights
  <2>3. x = a \/ x = b
    BY <1>3, <1>12
  <2>4. w1[x] = IF x = a THEN 0 ELSE ub
    <3>1. ua + (-ua) = 0
      BY <1>4
    <3> HIDE DEF a, b
    <3> QED BY <2>2, <2>3, <3>1, <1>3 DEF Bumped
  <2>5. w2[x] = 0
    <3>1. ub + (-ub) = 0
      BY <1>4
    <3> HIDE DEF a, b, w1
    <3> QED BY <2>3, <2>4, <3>1, <1>3 DEF Bumped
  <2>6. \A i : x = y(i) => d(i) = 0
    BY <1>6, <1>12
  <2> HIDE DEF w1, w2, y, d
  <2>7. w3[x] = 0
    BY <2>5, <2>6 DEF Bumped
  <2> HIDE DEF w3
  <2>8. w4[x] = 0
    BY <2>6, <2>7 DEF Bumped
  <2> QED BY <2>1, <2>8
<1>13. ASSUME NEW x \in Tensor, x.node # n PROVE v[x] = w4[x]
  <2>1. v[x] = Value(q, x) * S(x) /\ w0[x] = Value(gr, x) * S(x)
    BY DEF Weights, w0
  <2>2. Value(q, x) = Value(gr, x) + c(1, x) + c(2, x)
    BY <1>13, PropagatedValue
  <2>3. ASSUME NEW i PROVE c(i, x) \in Int /\ c(i, x) * S(x) = IF x = y(i) THEN d(i) ELSE 0
    <3>1. CASE i \in E /\ g[n].edges[i] = x
      BY <1>5, <3>1 DEF Gets
    <3>2. CASE ~(i \in E /\ g[n].edges[i] = x)
      <4>1. c(i, x) = 0 /\ x # y(i)
        BY <1>3, <1>13, <3>2 DEF Gets
      <4>2. S(x) \in Int
        BY <1>2
      <4>3. 0 * S(x) = 0
        <5> HIDE DEF S
        <5> QED BY <4>2
      <4> QED BY <4>1, <4>3
    <3> QED BY <3>1, <3>2
  <2>4. w2[x] = w0[x]
    BY <1>3, <1>13 DEF Bumped
  <2>5. w4[x] = w0[x] + (IF x = y(1) THEN d(1) ELSE 0) + (IF x = y(2) THEN d(2) ELSE 0)
    <3>1. w0[x] \in Int /\ d(1) \in Int /\ d(2) \in Int
      BY <1>2, <1>7
    <3> HIDE DEF w2, y, d
    <3>2. w3[x] = w0[x] + (IF x = y(1) THEN d(1) ELSE 0)
      BY <2>4, <3>1 DEF Bumped
    <3> HIDE DEF w3
    <3> QED BY <3>1, <3>2 DEF Bumped
  <2>6. Value(gr, x) \in Int /\ S(x) \in Int /\ c(1, x) \in Int /\ c(2, x) \in Int
    BY <1>2, <2>3
  <2>7. \A j, k, l, m \in Int : (j + k + l) * m = j * m + k * m + l * m
    OBVIOUS
  <2> DEFINE e0 == Value(gr, x)
             e1 == c(1, x)
             e2 == c(2, x)
             e3 == S(x)
  <2>8. (e0 + e1 + e2) * e3 = e0 * e3 + e1 * e3 + e2 * e3
    <3> HIDE DEF e0, e1, e2, e3
    <3>1. e0 \in Int /\ e1 \in Int /\ e2 \in Int /\ e3 \in Int
      BY <2>6 DEF e0, e1, e2, e3
    <3> QED BY <2>7, <3>1
  <2> HIDE DEF v, w4, w0, q, c, S, y, d
  <2>9. v[x] = e0 * e3 + e1 * e3 + e2 * e3
    BY <2>1, <2>2, <2>8
  <2> QED BY <2>1, <2>3, <2>5, <2>9
<1>14. \A x \in Tensor : v[x] = w4[x]
  BY <1>12, <1>13
<1>15. \A x \in Tensor : v[x] \in Int
  BY <1>1, WeightsInt
<1> HIDE DEF v, w4, w0, q
<1>16. SumOf(w4, Tensor) = SumOf(v, Tensor)
  <2>1. \A x \in Tensor : w4[x] = v[x]
    BY <1>14
  <2> QED BY <1>15, <2>1, TensorFinite, SumSame
<1> QED BY <1>11, <1>16 DEF Flow, v, w0, q

LEMMA FlowZero ==
  ASSUME NEW g, Sound(g), NEW gr \in Gradients, NEW leaf,
         \A x \in Tensor : gr[x] # None => SlopeAt(g, leaf, x) = 0
  PROVE  Flow(gr, g, leaf) = 0
<1> DEFINE w == Weights(gr, g, leaf)
<1>1. ASSUME NEW x \in Tensor PROVE w[x] = 0
  <2>1. Value(gr, x) \in Int /\ SlopeAt(g, leaf, x) \in Int /\ w[x] = Value(gr, x) * SlopeAt(g, leaf, x)
    BY ValueInt, WeightsInt DEF Weights
  <2>2. Value(gr, x) = 0 \/ SlopeAt(g, leaf, x) = 0
    BY DEF Value
  <2>3. \A j, k \in Int : j = 0 \/ k = 0 => j * k = 0
    OBVIOUS
  <2> HIDE DEF w
  <2> QED BY <2>1, <2>2, <2>3
<1> HIDE DEF w
<1> QED BY <1>1, TensorFinite, SumZero DEF Flow, w

\* A pass begins with the gradient 1 of its root.
LEMMA FlowStart ==
  ASSUME NEW g, Sound(g), NEW root, TensorIn(g, root), NEW leaf
  PROVE  LET gr == [NoGradients EXCEPT ![root] = 1]
         IN  Wellformed(gr, g) /\ Flow(gr, g, leaf) = SlopeAt(g, leaf, root)
<1> DEFINE gr == [NoGradients EXCEPT ![root] = 1]
           z == Weights(NoGradients, g, leaf)
           s == SlopeAt(g, leaf, root)
           w == Weights(gr, g, leaf)
           v == Bumped(z, Tensor, root, s)
<1>1. root \in Tensor /\ NoGradients \in Gradients /\ gr \in Gradients
  BY DEF TensorIn, NoGradients, Gradients
<1>2. /\ \A x \in Tensor : NoGradients[x] = None
      /\ \A x \in Tensor : gr[x] = IF x = root THEN 1 ELSE None
      /\ 1 # None
  BY <1>1, BackwardConstants DEF NoGradients
<1>3. Wellformed(gr, g)
  BY <1>1, <1>2 DEF Wellformed
<1>4. s \in Int /\ \A x \in Tensor : z[x] \in Int /\ w[x] \in Int
  BY <1>1, WeightsInt
<1>5. Flow(NoGradients, g, leaf) = 0
  BY <1>1, <1>2, FlowZero
<1>6. ASSUME NEW x \in Tensor PROVE v[x] = w[x]
  <2>1. SlopeAt(g, leaf, x) \in Int
    BY <1>1, WeightsInt
  <2>2. z[x] = 0
    <3>1. z[x] = Value(NoGradients, x) * SlopeAt(g, leaf, x) /\ Value(NoGradients, x) = 0
      BY <1>2 DEF Value, Weights
    <3> HIDE DEF z
    <3> QED BY <2>1, <3>1
  <2>3. w[x] = IF x = root THEN s ELSE 0
    <3>1. w[x] = Value(gr, x) * SlopeAt(g, leaf, x) /\ Value(gr, x) = IF x = root THEN 1 ELSE 0
      BY <1>2 DEF Value, Weights
    <3> HIDE DEF w, gr
    <3> QED BY <2>1, <3>1
  <2>4. v[x] = IF x = root THEN z[x] + s ELSE z[x]
    BY DEF Bumped
  <2> HIDE DEF v, z, w, s
  <2> QED BY <1>4, <2>2, <2>3, <2>4
<1> HIDE DEF z, v, w, s
<1>7. SumOf(v, Tensor) = SumOf(z, Tensor) + s
  BY <1>1, <1>4, TensorFinite, SumBumped DEF v
<1>8. SumOf(v, Tensor) = SumOf(w, Tensor)
  BY <1>4, <1>6, TensorFinite, SumSame
<1>9. SumOf(z, Tensor) = 0
  BY <1>5 DEF Flow, z
<1>10. SumOf(w, Tensor) = s
  BY <1>4, <1>7, <1>8, <1>9
<1> QED BY <1>3, <1>10 DEF Flow, w, s

\* A leaf's gradient leaves the pass: for that leaf, and for no other.
LEMMA FlowTaken ==
  ASSUME NEW g, Sound(g), NEW gr, Wellformed(gr, g), NEW n \in Nodes, g[n].kind = "leaf",
         NEW leaf \in Nodes
  PROVE  LET q == [gr EXCEPT ![Out(n, 0)] = None]
         IN  /\ Wellformed(q, g)
             /\ Flow(gr, g, leaf) = Flow(q, g, leaf) + IF leaf = n THEN Value(gr, Out(n, 0)) ELSE 0
<1> DEFINE own == Out(n, 0)
           q == [gr EXCEPT ![own] = None]
           s == SlopeAt(g, leaf, own)
           u == Value(gr, own)
           k == IF leaf = n THEN u ELSE 0
           w == Weights(gr, g, leaf)
           v == Weights(q, g, leaf)
           b == Bumped(w, Tensor, own, -k)
<1>1. own \in Tensor /\ own.node = n /\ own.output = 0
  BY OutTensor DEF Outputs
<1>2. gr \in Gradients /\ q \in Gradients /\ \A x \in Tensor : q[x] = IF x = own THEN None ELSE gr[x]
  BY <1>1 DEF Wellformed, Gradients
<1>3. Wellformed(q, g)
  BY <1>2 DEF Wellformed
<1>4. s = IF leaf = n THEN 1 ELSE 0
  <2>1. DOMAIN g[n].edges = {}
    BY DEF Sound, SoundNode
  <2>2. 0 \in Outputs
    BY DEF Outputs
  <2>3. n # leaf => SlopeIn(g, leaf)[n][0] = 0
    BY <2>1, <2>2, SlopeSteps
  <2>4. n = leaf => SlopeIn(g, leaf)[n][0] = 1
    BY <2>2, SlopeSteps
  <2> QED BY <1>1, <2>3, <2>4 DEF SlopeAt
<1>5. u \in Int /\ k \in Int /\ -k \in Int /\ \A x \in Tensor : w[x] \in Int /\ v[x] \in Int
  BY <1>1, <1>2, ValueInt, WeightsInt
<1>6. w[own] = k
  <2>1. w[own] = u * s
    BY <1>1 DEF Weights
  <2> HIDE DEF u, s, w
  <2> QED BY <1>4, <1>5, <2>1
<1>7. ASSUME NEW x \in Tensor PROVE b[x] = v[x]
  <2>1. CASE x = own
    <3>1. v[x] = 0
      <4>1. v[x] = Value(q, x) * SlopeAt(g, leaf, x) /\ Value(q, x) = 0 /\ SlopeAt(g, leaf, x) \in Int
        BY <1>2, <2>1, WeightsInt DEF Weights, Value
      <4> HIDE DEF v
      <4> QED BY <4>1
    <3>2. b[x] = w[own] + (-k)
      BY <2>1 DEF Bumped
    <3> HIDE DEF b, v, w, k
    <3> QED BY <1>5, <1>6, <3>1, <3>2
  <2>2. CASE x # own
    <3>1. b[x] = w[x]
      BY <2>2 DEF Bumped
    <3>2. Value(q, x) = Value(gr, x)
      BY <1>2, <2>2 DEF Value
    <3> QED BY <3>1, <3>2 DEF Weights
  <2> QED BY <2>1, <2>2
<1> HIDE DEF b, v, w, k, q
<1>8. SumOf(b, Tensor) = SumOf(w, Tensor) + (-k)
  BY <1>1, <1>5, TensorFinite, SumBumped DEF b
<1>9. SumOf(b, Tensor) = SumOf(v, Tensor)
  BY <1>5, <1>7, TensorFinite, SumSame
<1>10. SumOf(w, Tensor) \in Int
  BY <1>5, TensorFinite, SumInt
<1>11. SumOf(w, Tensor) = SumOf(v, Tensor) + k
  BY <1>5, <1>8, <1>9, <1>10
<1>12. Flow(gr, g, leaf) = Flow(q, g, leaf) + k
  BY <1>11 DEF Flow, w, v
<1> QED BY <1>3, <1>12 DEF q, k, u

\* Nodes recorded since do not matter.
LEMMA FlowKept ==
  ASSUME NEW g, Sound(g), NEW h, Sound(h), Extends(g, h), NEW gr, Wellformed(gr, g)
  PROVE  /\ Wellformed(gr, h)
         /\ \A leaf \in Nodes : Flow(gr, h, leaf) = Flow(gr, g, leaf)
         /\ \A leaf \in Nodes \ Known(g) : Flow(gr, h, leaf) = 0
<1>1. gr \in Gradients
  BY DEF Wellformed
<1>2. Wellformed(gr, h)
  BY DEF Wellformed, TensorIn, Extends, OutputsIn
<1>3. ASSUME NEW leaf \in Nodes PROVE Flow(gr, h, leaf) = Flow(gr, g, leaf)
  <2> DEFINE w == Weights(gr, g, leaf)
             v == Weights(gr, h, leaf)
  <2>1. \A x \in Tensor : w[x] \in Int /\ v[x] \in Int
    BY <1>1, WeightsInt
  <2>2. ASSUME NEW x \in Tensor PROVE v[x] = w[x]
    <3>1. CASE gr[x] # None
      <4>1. x.node \in Known(g)
        BY <3>1 DEF Wellformed, TensorIn
      <4>2. SlopeIn(h, leaf)[x.node] = SlopeIn(g, leaf)[x.node]
        BY <4>1, SlopeKept
      <4> QED BY <4>2 DEF Weights, SlopeAt
    <3>2. CASE gr[x] = None
      <4>1. /\ Value(gr, x) = 0 /\ SlopeAt(h, leaf, x) \in Int /\ SlopeAt(g, leaf, x) \in Int
            /\ v[x] = Value(gr, x) * SlopeAt(h, leaf, x)
            /\ w[x] = Value(gr, x) * SlopeAt(g, leaf, x)
        BY <1>1, <3>2, WeightsInt DEF Value, Weights
      <4> HIDE DEF v, w
      <4> QED BY <4>1
    <3> QED BY <3>1, <3>2
  <2> HIDE DEF v, w
  <2>3. SumOf(v, Tensor) = SumOf(w, Tensor)
    BY <2>1, <2>2, TensorFinite, SumSame
  <2> QED BY <2>3 DEF Flow, v, w
<1>4. ASSUME NEW leaf \in Nodes \ Known(g) PROVE Flow(gr, h, leaf) = 0
  <2>1. ASSUME NEW x \in Tensor, gr[x] # None PROVE SlopeAt(h, leaf, x) = 0
    <3>1. x.node \in Known(g) /\ x.node \in Nodes /\ x.output \in Outputs /\ leaf \in Nodes
      BY <2>1 DEF Wellformed, TensorIn, Tensor
    <3>2. 1..x.node \subseteq Known(g)
      BY <3>1 DEF Sound
    <3>3. leaf \notin 1..x.node
      BY <3>2
    <3>4. x.node \in 1..(leaf - 1)
      BY <3>1, <3>3, BackwardConstants DEF Nodes
    <3> QED BY <3>1, <3>4, SlopeOfLater DEF SlopeAt
  <2> QED BY <1>1, <2>1, FlowZero
<1> QED BY <1>2, <1>3, <1>4
-----------------------------------------------------------------------------
(***************************************************************************)
(* The search of collect_topology: a frame that exits a node lies under    *)
(* the frames of its inputs, and the nodes on the stack descend from one   *)
(* such frame to all above it.                                             *)
(***************************************************************************)
Frames == [frame : {"enter", "exit"}, node : Nodes]
FramesIn(g, n) ==
  <<[frame |-> "exit", node |-> n]>>
    \o Reverse([i \in DOMAIN g[n].edges |-> [frame |-> "enter", node |-> g[n].edges[i].node]])

Exits(stack) == {n \in Nodes : \E k \in DOMAIN stack : stack[k].frame = "exit" /\ stack[k].node = n}
Descending(stack) ==
  \A j, k \in DOMAIN stack : j < k /\ stack[j].frame = "exit" => stack[k].node < stack[j].node
Awaited(stack, topology, g) ==
  \A j \in DOMAIN stack : stack[j].frame = "exit" =>
    \A m \in Inputs(g, stack[j].node) :
      m \in Range(topology) \/ \E k \in DOMAIN stack : j < k /\ stack[k].node = m
Ordered(topology, g) ==
  \A k \in DOMAIN topology : \A m \in Inputs(g, topology[k]) :
    \E j \in 1..(k - 1) : topology[j] = m
Within(stack, topology, set) ==
  Range(topology) \subseteq set /\ \A k \in DOMAIN stack : stack[k].node \in set

Searching(root, stack, seen, topology, g) ==
  /\ stack \in Seq(Frames) /\ topology \in Seq(Nodes) /\ IsInjective(topology)
  /\ seen = Range(topology) \cup Exits(stack)
  /\ Range(topology) \cap Exits(stack) = {}
  /\ Descending(stack)
  /\ Awaited(stack, topology, g)
  /\ Ordered(topology, g)
  /\ root \in Range(topology) \/ \E k \in DOMAIN stack : stack[k].node = root
  /\ Within(stack, topology, ReachIn(g)[root])

Expands(x, n, inputs) ==
  /\ x \in Seq(Frames) /\ DOMAIN x = 1..Len(x) /\ Len(x) \in Nat \ {0}
  /\ x[1] = [frame |-> "exit", node |-> n]
  /\ \A k \in DOMAIN x : k # 1 => x[k].frame = "enter" /\ x[k].node \in inputs
  /\ \A m \in inputs : \E k \in DOMAIN x : k # 1 /\ x[k].node = m

LEMMA FramesFacts ==
  ASSUME NEW g, Sound(g), NEW n \in Nodes
  PROVE  Expands(FramesIn(g, n), n, Inputs(g, n))
<1> DEFINE e == g[n].edges
           w == [i \in DOMAIN e |-> [frame |-> "enter", node |-> e[i].node]]
           r == Reverse(w)
           x == [frame |-> "exit", node |-> n]
           f == <<x>> \o r
<1>1. e \in Seq(Tensor) /\ Len(e) \in Nat /\ DOMAIN e = 1..Len(e)
  BY DEF Sound, SoundNode
<1>2. \A i \in DOMAIN e : e[i].node \in Nodes /\ e[i].node \in Inputs(g, n)
  BY EdgesOf DEF Inputs
<1>3. w \in Seq(Frames) /\ Len(w) = Len(e)
  BY <1>1, <1>2 DEF Frames
<1>4. r = [i \in 1..Len(e) |-> w[(Len(e) - i) + 1]]
  BY <1>3 DEF Reverse
<1>5. \A i \in 1..Len(e) : (Len(e) - i) + 1 \in 1..Len(e)
  BY <1>1
<1>6. /\ r \in Seq(Frames) /\ Len(r) = Len(e)
      /\ \A i \in 1..Len(e) : r[i] = [frame |-> "enter", node |-> e[(Len(e) - i) + 1].node]
  <2>1. \A i \in 1..Len(e) : w[(Len(e) - i) + 1] = [frame |-> "enter", node |-> e[(Len(e) - i) + 1].node]
    BY <1>1, <1>5
  <2>2. \A i \in 1..Len(e) : w[(Len(e) - i) + 1] \in Frames
    BY <1>1, <1>2, <1>5 DEF Frames
  <2> HIDE DEF w
  <2> QED BY <1>1, <1>4, <2>1, <2>2
<1> HIDE DEF r, w
<1>7. x \in Frames
  BY DEF Frames
<1>8. /\ f \in Seq(Frames) /\ Len(f) = Len(e) + 1 /\ DOMAIN f = 1..(Len(e) + 1)
      /\ f[1] = x /\ \A k \in 2..(Len(e) + 1) : f[k] = r[k - 1]
  BY <1>1, <1>6, <1>7
<1> HIDE DEF f
<1>9. ASSUME NEW k \in DOMAIN f, k # 1 PROVE f[k].frame = "enter" /\ f[k].node \in Inputs(g, n)
  <2>1. k \in 2..(Len(e) + 1) /\ k - 1 \in 1..Len(e)
    BY <1>1, <1>8, <1>9
  <2>2. f[k] = [frame |-> "enter", node |-> e[(Len(e) - (k - 1)) + 1].node]
    BY <1>6, <1>8, <2>1
  <2>3. (Len(e) - (k - 1)) + 1 \in DOMAIN e
    BY <1>1, <1>5, <2>1
  <2> QED BY <1>2, <2>2, <2>3
<1>10. ASSUME NEW m \in Inputs(g, n) PROVE \E k \in DOMAIN f : k # 1 /\ f[k].node = m
  <2>1. PICK i \in DOMAIN e : e[i].node = m
    BY DEF Inputs
  <2> DEFINE k == Len(e) - i + 2
  <2>2. k \in 2..(Len(e) + 1) /\ k - 1 \in 1..Len(e) /\ (Len(e) - (k - 1)) + 1 = i /\ k # 1
    <3>1. i \in 1..Len(e)
      BY <1>1
    <3>2. \A l \in Nat : \A j \in 1..l :
            /\ l - j + 2 \in 2..(l + 1) /\ (l - j + 2) - 1 \in 1..l
            /\ (l - ((l - j + 2) - 1)) + 1 = j /\ l - j + 2 # 1
      OBVIOUS
    <3> QED BY <1>1, <3>1, <3>2
  <2> HIDE DEF k
  <2>3. f[k] = [frame |-> "enter", node |-> e[i].node]
    BY <1>6, <1>8, <2>2
  <2>4. k \in DOMAIN f
    <3>1. k \in 1..(Len(e) + 1)
      BY <1>1, <2>2
    <3> QED BY <1>8, <3>1
  <2> QED BY <2>1, <2>2, <2>3, <2>4
<1>11. f = FramesIn(g, n)
  BY DEF f, r, w, FramesIn
<1> QED BY <1>1, <1>8, <1>9, <1>10, <1>11 DEF Expands

LEMMA Joined ==
  ASSUME NEW S, NEW s \in Seq(S), NEW t \in Seq(S), NEW l, l = Len(s), NEW m, m = Len(t)
  PROVE  /\ s \o t \in Seq(S) /\ DOMAIN (s \o t) = 1..(l + m)
         /\ \A k \in 1..l : (s \o t)[k] = s[k]
         /\ \A k \in 1..m : (s \o t)[l + k] = t[k]
OBVIOUS

LEMMA TopFrame ==
  ASSUME NEW stack \in Seq(Frames), stack # <<>>
  PROVE  LET L == Len(stack)
         IN  /\ L \in Nat \ {0} /\ DOMAIN stack = 1..L /\ L \in DOMAIN stack
             /\ Last(stack) = stack[L] /\ stack[L] \in Frames /\ stack[L].node \in Nodes
             /\ stack[L].frame \in {"enter", "exit"}
             /\ Front(stack) \in Seq(Frames)
             /\ Len(Front(stack)) = L - 1 /\ DOMAIN Front(stack) = 1..(L - 1)
             /\ \A k \in 1..(L - 1) : Front(stack)[k] = stack[k] /\ k \in DOMAIN stack /\ k < L
             /\ \A k \in DOMAIN stack : k = L \/ k \in 1..(L - 1)
<1>1. Len(stack) \in Nat \ {0} /\ DOMAIN stack = 1..Len(stack)
  OBVIOUS
<1>2. Len(stack) \in DOMAIN stack /\ stack[Len(stack)] \in Frames
  BY <1>1
<1>3. stack[Len(stack)].node \in Nodes /\ stack[Len(stack)].frame \in {"enter", "exit"}
  BY <1>2 DEF Frames
<1>4. Front(stack) = SubSeq(stack, 1, Len(stack) - 1)
  BY DEF Front
<1>5. /\ Front(stack) \in Seq(Frames)
      /\ Len(Front(stack)) = Len(stack) - 1 /\ DOMAIN Front(stack) = 1..(Len(stack) - 1)
      /\ \A k \in 1..(Len(stack) - 1) : Front(stack)[k] = stack[k]
  BY <1>1, <1>4
<1>6. \A k \in 1..(Len(stack) - 1) : k \in DOMAIN stack /\ k < Len(stack)
  BY <1>1
<1>7. \A k \in DOMAIN stack : k = Len(stack) \/ k \in 1..(Len(stack) - 1)
  BY <1>1
<1> QED BY <1>1, <1>2, <1>3, <1>5, <1>6, <1>7 DEF Last

LEMMA SearchStarts ==
  ASSUME NEW g, Sound(g), NEW root \in Nodes
  PROVE  Searching(root, <<[frame |-> "enter", node |-> root]>>, {}, <<>>, g)
<1> DEFINE s == <<[frame |-> "enter", node |-> root]>>
<1>1. s \in Seq(Frames) /\ DOMAIN s = {1} /\ s[1].frame = "enter" /\ s[1].node = root
  BY DEF Frames
<1>2. /\ <<>> \in Seq(Nodes) /\ IsInjective(<<>>) /\ Range(<<>>) = {} /\ DOMAIN <<>> = {}
  BY EmptyBlocks DEF Range
<1>3. root \in ReachIn(g)[root]
  BY ReachSteps
<1> HIDE DEF s
<1>4. "enter" # "exit"
  OBVIOUS
<1> QED BY <1>1, <1>2, <1>3, <1>4
        DEF Searching, Exits, Descending, Awaited, Ordered, Within, s

LEMMA PopSeen ==
  ASSUME NEW g, Sound(g), NEW root \in Nodes, NEW stack, NEW seen, NEW topology,
         Searching(root, stack, seen, topology, g), stack # <<>>,
         Last(stack).frame = "enter", Last(stack).node \in seen
  PROVE  Searching(root, Front(stack), seen, topology, g)
<1> DEFINE L == Len(stack)
           n == stack[L].node
           f == Front(stack)
<1>1. /\ L \in Nat \ {0} /\ DOMAIN stack = 1..L /\ L \in DOMAIN stack
      /\ Last(stack) = stack[L] /\ n \in Nodes
      /\ f \in Seq(Frames) /\ DOMAIN f = 1..(L - 1)
      /\ \A k \in 1..(L - 1) : f[k] = stack[k] /\ k \in DOMAIN stack /\ k < L
      /\ \A k \in DOMAIN stack : k = L \/ k \in 1..(L - 1)
  BY TopFrame DEF Searching
<1>2. stack[L].frame = "enter" /\ n \in seen
  BY <1>1
<1> HIDE DEF L, f
<1>3. n \in Range(topology)
  <2>1. ASSUME NEW k \in DOMAIN stack, stack[k].frame = "exit", stack[k].node = n PROVE FALSE
    <3>1. k \in 1..(L - 1)
      BY <1>1, <1>2, <2>1
    <3>2. n < n
      BY <1>1, <2>1, <3>1 DEF Searching, Descending
    <3> QED BY <1>1, <3>2, BackwardConstants DEF Nodes
  <2> QED BY <1>2, <2>1 DEF Searching, Exits
<1>4. Exits(f) = Exits(stack)
  BY <1>1, <1>2 DEF Exits
<1>5. Descending(f)
  BY <1>1 DEF Searching, Descending
<1>6. Awaited(f, topology, g)
  BY <1>1, <1>3 DEF Searching, Awaited
<1>7. root \in Range(topology) \/ \E k \in DOMAIN f : f[k].node = root
  BY <1>1, <1>3 DEF Searching
<1>8. Within(f, topology, ReachIn(g)[root])
  BY <1>1 DEF Searching, Within
<1> QED BY <1>1, <1>4, <1>5, <1>6, <1>7, <1>8 DEF Searching, f

LEMMA PopExit ==
  ASSUME NEW g, Sound(g), NEW root \in Nodes, NEW stack, NEW seen, NEW topology,
         Searching(root, stack, seen, topology, g), stack # <<>>,
         Last(stack).frame = "exit"
  PROVE  Searching(root, Front(stack), seen, Append(topology, Last(stack).node), g)
<1> DEFINE L == Len(stack)
           n == stack[L].node
           f == Front(stack)
           a == Append(topology, n)
<1>1. /\ L \in Nat \ {0} /\ DOMAIN stack = 1..L /\ L \in DOMAIN stack
      /\ Last(stack) = stack[L] /\ n \in Nodes
      /\ f \in Seq(Frames) /\ DOMAIN f = 1..(L - 1)
      /\ \A k \in 1..(L - 1) : f[k] = stack[k] /\ k \in DOMAIN stack /\ k < L
      /\ \A k \in DOMAIN stack : k = L \/ k \in 1..(L - 1)
  BY TopFrame DEF Searching
<1>2. stack[L].frame = "exit"
  BY <1>1
<1> HIDE DEF L, f
<1>3. n \in Exits(stack) /\ n \notin Range(topology)
  BY <1>1, <1>2 DEF Searching, Exits
<1>4. /\ topology \in Seq(Nodes) /\ a \in Seq(Nodes)
      /\ Range(a) = Range(topology) \cup {n} /\ IsInjective(a)
  BY <1>1, <1>3, AppendBlocks DEF Searching
<1>5. /\ DOMAIN topology = 1..Len(topology) /\ Len(topology) \in Nat
      /\ DOMAIN a = 1..(Len(topology) + 1) /\ a[Len(topology) + 1] = n
      /\ \A k \in DOMAIN topology : a[k] = topology[k]
  BY <1>1, <1>4
<1> HIDE DEF a
<1>6. \A k \in 1..(L - 1) : stack[k].frame = "exit" => stack[k].node # n
  <2> SUFFICES ASSUME NEW k \in 1..(L - 1), stack[k].frame = "exit", stack[k].node = n PROVE FALSE
    OBVIOUS
  <2>1. n < n
    BY <1>1 DEF Searching, Descending
  <2> QED BY <1>1, <2>1, BackwardConstants DEF Nodes
<1>7. Exits(stack) = Exits(f) \cup {n} /\ n \notin Exits(f)
  BY <1>1, <1>2, <1>6 DEF Exits
<1>8. seen = Range(a) \cup Exits(f) /\ Range(a) \cap Exits(f) = {}
  BY <1>4, <1>7 DEF Searching
<1>9. Descending(f)
  BY <1>1 DEF Searching, Descending
<1>10. Awaited(f, a, g)
  <2> SUFFICES ASSUME NEW j \in DOMAIN f, f[j].frame = "exit", NEW m \in Inputs(g, f[j].node),
                      m \notin Range(a)
               PROVE  \E k \in DOMAIN f : j < k /\ f[k].node = m
    BY DEF Awaited
  <2>1. j \in DOMAIN stack /\ f[j] = stack[j] /\ m \notin Range(topology) /\ m # n
    BY <1>1, <1>4
  <2>2. PICK k \in DOMAIN stack : j < k /\ stack[k].node = m
    BY <2>1 DEF Searching, Awaited
  <2>3. k \in 1..(L - 1)
    BY <1>1, <2>1, <2>2
  <2> QED BY <1>1, <2>2, <2>3
<1>11. Ordered(a, g)
  <2>1. ASSUME NEW m \in Inputs(g, n) PROVE \E j \in 1..((Len(topology) + 1) - 1) : a[j] = m
    <3>1. m \in Range(topology)
      <4>1. ASSUME NEW k \in DOMAIN stack, L < k PROVE FALSE
        BY <1>1, <4>1
      <4> QED BY <1>1, <1>2, <4>1 DEF Searching, Awaited
    <3>2. PICK j \in DOMAIN topology : topology[j] = m
      BY <3>1 DEF Range
    <3>3. j \in 1..((Len(topology) + 1) - 1)
      BY <1>5
    <3> QED BY <1>5, <3>2, <3>3
  <2>2. ASSUME NEW k \in DOMAIN topology, NEW m \in Inputs(g, a[k])
        PROVE  \E j \in 1..(k - 1) : a[j] = m
    <3>1. PICK j \in 1..(k - 1) : topology[j] = m
      BY <1>5, <2>2 DEF Searching, Ordered
    <3>2. j \in DOMAIN topology
      BY <1>5
    <3> QED BY <1>5, <3>1, <3>2
  <2>3. \A k \in DOMAIN a : k \in DOMAIN topology \/ k = Len(topology) + 1
    BY <1>5
  <2> QED BY <1>5, <2>1, <2>2, <2>3 DEF Ordered
<1>12. root \in Range(a) \/ \E k \in DOMAIN f : f[k].node = root
  BY <1>1, <1>4 DEF Searching
<1>13. Within(f, a, ReachIn(g)[root])
  BY <1>1, <1>4 DEF Searching, Within
<1>14. Searching(root, f, seen, a, g)
  BY <1>1, <1>4, <1>8, <1>9, <1>10, <1>11, <1>12, <1>13 DEF Searching
<1> QED BY <1>1, <1>14 DEF f, a

LEMMA PopNew ==
  ASSUME NEW g, Sound(g), NEW root \in Nodes, NEW stack, NEW seen, NEW topology,
         Searching(root, stack, seen, topology, g), stack # <<>>, Last(stack).node \notin seen
  PROVE  Searching(root, Front(stack) \o FramesIn(g, Last(stack).node),
                   seen \cup {Last(stack).node}, topology, g)
<1> DEFINE L == Len(stack)
           n == stack[L].node
           f == Front(stack)
           x == FramesIn(g, n)
           X == Len(x)
           q == f \o x
<1>1. /\ L \in Nat \ {0} /\ DOMAIN stack = 1..L /\ L \in DOMAIN stack
      /\ Last(stack) = stack[L] /\ n \in Nodes
      /\ f \in Seq(Frames) /\ Len(f) = L - 1 /\ DOMAIN f = 1..(L - 1)
      /\ \A k \in 1..(L - 1) : f[k] = stack[k] /\ k \in DOMAIN stack /\ k < L
      /\ \A k \in DOMAIN stack : k = L \/ k \in 1..(L - 1)
  BY TopFrame DEF Searching
<1> HIDE DEF f
<1>2. /\ x \in Seq(Frames) /\ DOMAIN x = 1..X /\ X \in Nat \ {0}
      /\ x[1].frame = "exit" /\ x[1].node = n
      /\ \A k \in DOMAIN x : k # 1 => x[k].frame = "enter" /\ x[k].node \in Inputs(g, n)
      /\ \A m \in Inputs(g, n) : \E k \in DOMAIN x : k # 1 /\ x[k].node = m
  <2>1. Expands(x, n, Inputs(g, n))
    BY <1>1, FramesFacts
  <2> HIDE DEF x
  <2> QED BY <2>1 DEF Expands
<1>3. \A m \in Inputs(g, n) : m \in Nodes /\ m < n
  <2>1. Inputs(g, n) \subseteq 1..(n - 1) /\ n \in 1..Limit /\ Limit \in Nat
    BY <1>1, EdgesOf, BackwardConstants DEF Nodes
  <2> QED BY <2>1 DEF Nodes
<1> HIDE DEF L, x, X
<1>4. /\ q \in Seq(Frames) /\ DOMAIN q = 1..((L - 1) + X)
      /\ \A k \in 1..(L - 1) : q[k] = f[k]
      /\ \A k \in 1..X : q[(L - 1) + k] = x[k]
  <2>1. Len(x) = X
    BY DEF X
  <2>2. f \in Seq(Frames) /\ x \in Seq(Frames) /\ L - 1 = Len(f)
    BY <1>1, <1>2
  <2> QED BY <2>1, <2>2, Joined
<1> HIDE DEF q
\* Where the frames come from.
<1>5. /\ \A k \in 1..(L - 1) : k \in DOMAIN q /\ q[k] = stack[k]
      /\ L \in DOMAIN q /\ q[L].frame = "exit" /\ q[L].node = n
      /\ \A k \in DOMAIN q : \/ k \in 1..(L - 1)
                             \/ k = L
                             \/ L < k /\ q[k].frame = "enter" /\ q[k].node \in Inputs(g, n)
      /\ \A m \in Inputs(g, n) : \E k \in DOMAIN q : L < k /\ q[k].node = m
  <2>1. \A k \in 1..(L - 1) : k \in DOMAIN q /\ q[k] = stack[k]
    <3>1. \A k \in 1..(L - 1) : k \in 1..((L - 1) + X)
      BY <1>1, <1>2
    <3>2. \A k \in 1..(L - 1) : q[k] = f[k] /\ f[k] = stack[k]
      BY <1>1, <1>4
    <3> QED BY <1>4, <3>1, <3>2
  <2>2. L \in DOMAIN q /\ q[L] = x[1]
    <3>1. (L - 1) + 1 = L /\ 1 \in 1..X /\ L \in 1..((L - 1) + X)
      BY <1>1, <1>2
    <3>2. q[(L - 1) + 1] = x[1]
      BY <1>4, <3>1
    <3> QED BY <1>4, <3>1, <3>2
  <2>3. ASSUME NEW k \in DOMAIN q, k \notin 1..(L - 1), k # L
        PROVE  L < k /\ q[k].frame = "enter" /\ q[k].node \in Inputs(g, n)
    <3> DEFINE i == k - (L - 1)
    <3>1. k \in 1..((L - 1) + X)
      BY <1>4
    <3>2. i \in 1..X /\ i # 1 /\ (L - 1) + i = k /\ L < k
      BY <1>1, <1>2, <2>3, <3>1
    <3> HIDE DEF i
    <3>3. q[(L - 1) + i] = x[i]
      BY <1>4, <3>2
    <3> QED BY <1>2, <3>2, <3>3
  <2>4. ASSUME NEW m \in Inputs(g, n) PROVE \E k \in DOMAIN q : L < k /\ q[k].node = m
    <3>1. PICK i \in DOMAIN x : i # 1 /\ x[i].node = m
      BY <1>2
    <3> DEFINE k == (L - 1) + i
    <3>2. i \in 1..X
      BY <1>2
    <3>3. k \in 1..((L - 1) + X) /\ L < k
      BY <1>1, <1>2, <3>1, <3>2
    <3>4. q[k] = x[i]
      BY <1>4, <3>2
    <3> HIDE DEF k
    <3> QED BY <1>4, <3>1, <3>3, <3>4
  <2> QED BY <1>2, <2>1, <2>2, <2>3, <2>4
<1>6. n \notin seen /\ n \notin Range(topology) /\ n \notin Exits(stack)
  BY <1>1 DEF Searching
<1>7. stack[L].frame # "exit"
  BY <1>1, <1>6 DEF Exits
<1>8. Exits(q) = Exits(stack) \cup {n}
  <2>1. ASSUME NEW m \in Nodes, NEW k \in DOMAIN q, q[k].frame = "exit", q[k].node = m
        PROVE  m \in Exits(stack) \cup {n}
    <3>1. CASE k \in 1..(L - 1)
      BY <1>1, <1>5, <2>1, <3>1 DEF Exits
    <3>2. CASE k = L
      BY <1>5, <2>1, <3>2
    <3>3. CASE q[k].frame = "enter"
      BY <2>1, <3>3
    <3> QED BY <1>5, <3>1, <3>2, <3>3
  <2>2. ASSUME NEW m \in Nodes, NEW k \in DOMAIN stack, stack[k].frame = "exit", stack[k].node = m
        PROVE  m \in Exits(q)
    <3>1. k \in 1..(L - 1)
      BY <1>1, <1>7, <2>2
    <3> QED BY <1>5, <2>2, <3>1 DEF Exits
  <2>3. n \in Exits(q)
    BY <1>1, <1>5 DEF Exits
  <2> QED BY <2>1, <2>2, <2>3 DEF Exits
<1>9. \A j \in 1..(L - 1) : stack[j].frame = "exit" => n < stack[j].node /\ stack[j].node \in Nodes
  <2> SUFFICES ASSUME NEW j \in 1..(L - 1), stack[j].frame = "exit"
               PROVE  n < stack[j].node /\ stack[j].node \in Nodes
    OBVIOUS
  <2>1. n < stack[j].node
    BY <1>1 DEF Searching, Descending
  <2>2. stack[j] \in Frames
    BY <1>1 DEF Searching
  <2> QED BY <2>1, <2>2 DEF Frames
<1>10. Descending(q)
  <2> SUFFICES ASSUME NEW j \in DOMAIN q, NEW k \in DOMAIN q, j < k, q[j].frame = "exit"
               PROVE  q[k].node < q[j].node
    BY DEF Descending
  <2>0. j \in Nat /\ k \in Nat
    BY <1>4
  <2>1. CASE j \in 1..(L - 1) /\ k \in 1..(L - 1)
    BY <1>1, <1>5, <2>1 DEF Searching, Descending
  <2>2. CASE j \in 1..(L - 1) /\ k = L
    BY <1>5, <1>9, <2>2
  <2>3. CASE j \in 1..(L - 1) /\ L < k /\ q[k].node \in Inputs(g, n)
    <3>1. q[k].node < n /\ q[k].node \in Nodes /\ n < q[j].node /\ q[j].node \in Nodes
      BY <1>3, <1>5, <1>9, <2>3
    <3> QED BY <1>1, <3>1, BackwardConstants DEF Nodes
  <2>4. CASE j = L /\ L < k /\ q[k].node \in Inputs(g, n)
    BY <1>3, <1>5, <2>4
  <2>5. j = L \/ j \in 1..(L - 1)
    BY <1>5
  <2>6. \/ k \in 1..(L - 1)
        \/ k = L
        \/ L < k /\ q[k].node \in Inputs(g, n)
    BY <1>5
  <2>7. L \in Nat /\ (j = L /\ k \in 1..(L - 1) => FALSE) /\ (j = L /\ k = L => FALSE)
    BY <1>1, <2>0
  <2> QED BY <2>1, <2>2, <2>3, <2>4, <2>5, <2>6, <2>7
<1>11. Awaited(q, topology, g)
  <2> SUFFICES ASSUME NEW j \in DOMAIN q, q[j].frame = "exit", NEW m \in Inputs(g, q[j].node),
                      m \notin Range(topology)
               PROVE  \E k \in DOMAIN q : j < k /\ q[k].node = m
    BY DEF Awaited
  <2>1. CASE j = L
    BY <1>5, <2>1
  <2>2. CASE j \in 1..(L - 1)
    <3>1. PICK k \in DOMAIN stack : j < k /\ stack[k].node = m
      BY <1>1, <1>5, <2>2 DEF Searching, Awaited
    <3>2. CASE k = L
      BY <1>1, <1>5, <3>1, <3>2
    <3>3. CASE k \in 1..(L - 1)
      BY <1>5, <3>1, <3>3
    <3> QED BY <1>1, <3>2, <3>3
  <2> QED BY <1>5, <2>1, <2>2
<1>12. root \in Range(topology) \/ \E k \in DOMAIN q : q[k].node = root
  <2>1. ASSUME NEW k \in DOMAIN stack, stack[k].node = root PROVE \E i \in DOMAIN q : q[i].node = root
    <3>1. CASE k = L
      BY <1>5, <2>1, <3>1
    <3>2. CASE k \in 1..(L - 1)
      BY <1>5, <2>1, <3>2
    <3> QED BY <1>1, <3>1, <3>2
  <2> QED BY <2>1 DEF Searching
<1>13. Within(q, topology, ReachIn(g)[root])
  <2>1. n \in ReachIn(g)[root]
    BY <1>1 DEF Searching, Within
  <2>2. Inputs(g, n) \subseteq ReachIn(g)[root]
    BY <2>1, ReachClosed
  <2>3. ASSUME NEW k \in DOMAIN q PROVE q[k].node \in ReachIn(g)[root]
    BY <1>1, <1>5, <2>1, <2>2 DEF Searching, Within
  <2> QED BY <2>3 DEF Searching, Within
<1>14. Searching(root, q, seen \cup {n}, topology, g)
  BY <1>4, <1>6, <1>8, <1>10, <1>11, <1>12, <1>13 DEF Searching
<1> QED BY <1>1, <1>14 DEF q, f, x

LEMMA Searched ==
  ASSUME NEW g, Sound(g), NEW root \in Nodes, NEW seen, NEW topology,
         Searching(root, <<>>, seen, topology, g)
  PROVE  /\ topology # <<>> /\ Len(topology) \in Nat \ {0} /\ Len(topology) \in DOMAIN topology
         /\ Range(topology) = ReachIn(g)[root] /\ seen = ReachIn(g)[root]
<1>1. Range(topology) \subseteq ReachIn(g)[root] /\ root \in Range(topology) /\ seen = Range(topology)
  BY DEF Searching, Within, Exits
<1>2. \A m \in Range(topology) : Inputs(g, m) \subseteq Range(topology)
  <2> SUFFICES ASSUME NEW k \in DOMAIN topology, NEW m \in Inputs(g, topology[k])
               PROVE  m \in Range(topology)
    BY DEF Range
  <2>1. PICK j \in 1..(k - 1) : topology[j] = m
    BY DEF Searching, Ordered
  <2>2. j \in DOMAIN topology
    BY DEF Searching
  <2> QED BY <2>1, <2>2 DEF Range
<1>3. ReachIn(g)[root] \subseteq Range(topology)
  BY <1>1, <1>2, ReachLeast
<1>4. PICK k \in DOMAIN topology : topology[k] = root
  BY <1>1 DEF Range
<1>5. DOMAIN topology = 1..Len(topology) /\ Len(topology) \in Nat
  BY DEF Searching
<1>6. Len(topology) \in Nat \ {0} /\ Len(topology) \in DOMAIN topology /\ topology # <<>>
  BY <1>4, <1>5
<1> QED BY <1>1, <1>3, <1>6

\* Nodes recorded since do not matter.
LEMMA SearchKept ==
  ASSUME NEW g, Sound(g), NEW h, Sound(h), Extends(g, h), NEW root \in Known(g),
         NEW stack, NEW seen, NEW topology, Searching(root, stack, seen, topology, g)
  PROVE  Searching(root, stack, seen, topology, h)
<1>1. ReachIn(h)[root] = ReachIn(g)[root] /\ ReachIn(g)[root] \subseteq Known(g)
  BY ReachKept
<1>2. \A n \in ReachIn(g)[root] : Inputs(h, n) = Inputs(g, n)
  BY <1>1 DEF Extends, Inputs
<1>3. Within(stack, topology, ReachIn(g)[root])
  BY DEF Searching
<1>4. Awaited(stack, topology, h)
  BY <1>2, <1>3 DEF Searching, Awaited, Within
<1>5. \A k \in DOMAIN topology : topology[k] \in ReachIn(g)[root]
  BY <1>3 DEF Within, Range
<1>6. Ordered(topology, h)
  BY <1>2, <1>5 DEF Searching, Ordered
<1> QED BY <1>1, <1>4, <1>6 DEF Searching

-----------------------------------------------------------------------------
(***************************************************************************)
(* The stages of a call: what its local variables p say of the graph g and *)
(* of the saved values s.                                                  *)
(***************************************************************************)
Owed == [leaf : Nodes, gradient : Int]
Pass == [roots : Seq(Tensor), stack : Seq(Frames), seen : SUBSET Nodes, topology : Seq(Nodes),
         gradients : Gradients, commits : Seq(Owed), at : Nat,
         result : {"none", "ok", "freed", "refused", "failed"},
         took : SUBSET Nodes, given : SUBSET Nodes, skipped : SUBSET Nodes]

Leaf(g, n) == g[n].kind = "leaf"
HasValues(g, s, n) == g[n].kind = "multiply" => n \in s
Leaves(g, set) == {n \in set : Leaf(g, n)}
Multiplies(g, set) == {n \in set : g[n].kind = "multiply"}

Root(p) == p.roots[1]
RootsIn(p, g) ==
  Len(p.roots) \in {1, 2} /\ \A i \in DOMAIN p.roots : TensorIn(g, p.roots[i])
Untouched(p) == p.given = {} /\ p.took = {}

\* The commits, of a leaf each.
CommitLeaves(commits) == {commits[k].leaf : k \in DOMAIN commits}
Single(commits) ==
  \A j, k \in DOMAIN commits : commits[j].leaf = commits[k].leaf => j = k
Owing(commits, leaf) ==
  IF leaf \in CommitLeaves(commits)
  THEN commits[CHOOSE k \in DOMAIN commits : commits[k].leaf = leaf].gradient ELSE 0

DueIn(g, p, leaf) ==
  IF leaf \in p.skipped \/ ~Leaf(g, leaf) THEN 0
  ELSE SumFunction([i \in DOMAIN p.roots |-> SlopeAt(g, leaf, p.roots[i])])

AtRest(p, roots) == p = [NoPass EXCEPT !.roots = roots]
AtLock(p, g) == RootsIn(p, g) /\ Len(p.roots) = 1 /\ AtRest(p, p.roots)
AtLeaves(p, g) ==
  RootsIn(p, g) /\ (\A i \in DOMAIN p.roots : p.roots[i].output = 0) /\ AtRest(p, p.roots)

\* A search that holds the lock, and one that has ended.
Collecting(p, g, s) ==
  /\ RootsIn(p, g) /\ Len(p.roots) = 1 /\ Untouched(p) /\ p.result = "none"
  /\ p.commits = <<>> /\ p.skipped = {}
  /\ p.gradients = [NoGradients EXCEPT ![Root(p)] = 1]
  /\ p.stack # <<>>
  /\ Searching(Root(p).node, p.stack, p.seen, p.topology, g)
  /\ \A n \in p.seen : HasValues(g, s, n)

Sorted(p, g) ==
  /\ RootsIn(p, g) /\ Len(p.roots) = 1
  /\ p.topology # <<>> /\ IsInjective(p.topology) /\ Ordered(p.topology, g)
  /\ Range(p.topology) = ReachIn(g)[Root(p).node]

\* The gradients have gone through the nodes after the first at.
Ahead(p, at) == {n \in Nodes : \E k \in 1..at : p.topology[k] = n}
Behind(p, at) == Range(p.topology) \ Ahead(p, at)

Balanced(p, g) ==
  \A leaf \in Nodes \ p.skipped : g[leaf].kind \in {"leaf", "absent"} =>
    Flow(p.gradients, g, leaf) + Owing(p.commits, leaf) = SlopeAt(g, leaf, Root(p))

Applied(p, g, at) ==
  /\ Wellformed(p.gradients, g)
  /\ p.skipped \subseteq Leaves(g, Behind(p, at))
  /\ \A x \in Tensor : p.gradients[x] # None => x.node \in Ahead(p, at) \/ x.node \in p.skipped
  /\ Root(p).node \in Ahead(p, at) => p.gradients[Root(p)] # None
  /\ \A n \in Behind(p, at) : \A i \in DOMAIN g[n].edges :
       g[n].edges[i].node \in Ahead(p, at) => p.gradients[g[n].edges[i]] # None
  /\ Single(p.commits)
  /\ CommitLeaves(p.commits) = Leaves(g, Behind(p, at)) \ p.skipped
  /\ Balanced(p, g)

Applying(p, g, s) ==
  /\ Sorted(p, g) /\ Untouched(p) /\ p.result = "none"
  /\ \A n \in Range(p.topology) : HasValues(g, s, n)
  /\ p.at \in 1..Len(p.topology)
  /\ Applied(p, g, p.at)

\* All gradients have arrived at the leaves.
Settled(p, g) ==
  /\ Single(p.commits)
  /\ CommitLeaves(p.commits) = Leaves(g, ReachOf(g, p.roots)) \ p.skipped
  /\ \A leaf \in Nodes : Owing(p.commits, leaf) = DueIn(g, p, leaf)

Consuming(p, g, s) ==
  /\ Sorted(p, g) /\ Settled(p, g) /\ p.given = {} /\ p.result = "none"
  /\ p.at \in 1..Len(p.topology)
  /\ p.took = Multiplies(g, Ahead(p, p.at - 1))
  /\ \A n \in Behind(p, p.at - 1) : HasValues(g, s, n)

TookAll(p, g) == p.topology # <<>> => p.took = Multiplies(g, ReachOf(g, p.roots))

Committing(p, g) ==
  /\ RootsIn(p, g) /\ p.result = "none" /\ TookAll(p, g)
  /\ Single(p.commits)
  /\ p.given \cup CommitLeaves(p.commits) = Leaves(g, ReachOf(g, p.roots)) \ p.skipped

Returning(p, g) ==
  /\ RootsIn(p, g)
  /\ IF p.result = "ok"
     THEN TookAll(p, g) /\ p.given = Leaves(g, ReachOf(g, p.roots)) \ p.skipped
     ELSE Untouched(p)

Stage(p, g, s, label) ==
  /\ label = "idle" => p = NoPass
  /\ label = "lock" => AtLock(p, g)
  /\ label = "lock_leaves" => AtLeaves(p, g)
  /\ label = "collect" => Collecting(p, g, s)
  /\ label = "apply" => Applying(p, g, s)
  /\ label = "consume" => Consuming(p, g, s)
  /\ label = "commit" => Committing(p, g)
  /\ label = "return" => Returning(p, g)

-----------------------------------------------------------------------------
(***************************************************************************)
(* The inductive invariant.                                                *)
(***************************************************************************)
Labels == {"idle", "lock", "lock_leaves", "collect", "apply", "consume", "commit", "return"}
Inside == Labels \ {"idle", "lock", "lock_leaves"}

Types ==
  /\ saved \subseteq Nodes /\ enabled \subseteq Nodes /\ spent \subseteq Nodes
  /\ grad \in [Nodes -> Int] /\ owed \in [Nodes -> Int]
  /\ holder \in Threads \cup {None}
  /\ pc \in [Threads -> Labels] /\ pass \in [Threads -> Pass]
  /\ Sound(graph)
  /\ \A n \in Nodes : Leaf(graph, n) => graph[n].layout \in Layouts

Locked == \A t \in Threads : holder = t <=> pc[t] \in Inside

Staged == \A t \in Threads : Stage(pass[t], graph, saved, pc[t])

\* Values are there, or a pass has consumed them.
Values ==
  \A n \in Known(graph) : graph[n].kind = "multiply" =>
    n \in saved \/ n \in spent \/ \E t \in Threads : n \in pass[t].took

\* A call is reported freed over values that an earlier one consumed.
Freed ==
  \A t \in Threads : pc[t] = "return" /\ pass[t].result = "freed" =>
    ReachOf(graph, pass[t].roots) \cap spent # {}

\* What the leaf lacks of its due, or has got before the call returns.
Missing(p, g, label, leaf) ==
  IF label = "commit" THEN DueIn(g, p, leaf) - Owing(p.commits, leaf)
  ELSE IF label = "return" /\ p.result = "ok" THEN DueIn(g, p, leaf)
  ELSE 0

Ledger ==
  /\ holder = None => grad = owed
  /\ \A t \in Threads : holder = t =>
       \A n \in Nodes : grad[n] = owed[n] + Missing(pass[t], graph, pc[t], n)

PassInv == Types /\ Locked /\ Staged /\ Values /\ Freed /\ Ledger

-----------------------------------------------------------------------------
(***************************************************************************)
(* Commits.                                                                *)
(***************************************************************************)
LEMMA OwingOf ==
  ASSUME NEW c \in Seq(Owed), Single(c)
  PROVE  /\ \A k \in DOMAIN c : Owing(c, c[k].leaf) = c[k].gradient
         /\ \A l : Owing(c, l) \in Int
         /\ \A l : l \notin CommitLeaves(c) => Owing(c, l) = 0
         /\ CommitLeaves(c) \subseteq Nodes
<1>1. \A k \in DOMAIN c : c[k].leaf \in Nodes /\ c[k].gradient \in Int
  <2>1. \A k \in DOMAIN c : c[k] \in Owed
    OBVIOUS
  <2> QED BY <2>1 DEF Owed
<1>2. ASSUME NEW k \in DOMAIN c PROVE Owing(c, c[k].leaf) = c[k].gradient
  <2> DEFINE l == c[k].leaf
             j == CHOOSE i \in DOMAIN c : c[i].leaf = l
  <2>1. j \in DOMAIN c /\ c[j].leaf = l
    OBVIOUS
  <2>2. j = k
    BY <2>1 DEF Single
  <2>3. l \in CommitLeaves(c)
    BY DEF CommitLeaves
  <2> QED BY <2>2, <2>3 DEF Owing
<1>3. ASSUME NEW l PROVE Owing(c, l) \in Int
  <2>1. CASE l \in CommitLeaves(c)
    <3>1. PICK k \in DOMAIN c : c[k].leaf = l
      BY <2>1 DEF CommitLeaves
    <3> QED BY <1>1, <1>2, <3>1
  <2>2. CASE l \notin CommitLeaves(c)
    BY <2>2 DEF Owing
  <2> QED BY <2>1, <2>2
<1>4. \A l : l \notin CommitLeaves(c) => Owing(c, l) = 0
  BY DEF Owing
<1> QED BY <1>1, <1>2, <1>3, <1>4 DEF CommitLeaves

\* Two sequences with the same commits, in any order, owe the same.
LEMMA OwingSame ==
  ASSUME NEW c \in Seq(Owed), Single(c), NEW d \in Seq(Owed), Single(d), NEW l,
         NEW j \in DOMAIN c, NEW k \in DOMAIN d, c[j] = d[k], c[j].leaf = l
  PROVE  Owing(c, l) = Owing(d, l)
BY OwingOf

LEMMA OwingAppended ==
  ASSUME NEW c \in Seq(Owed), Single(c), NEW n \in Nodes, n \notin CommitLeaves(c), NEW v \in Int
  PROVE  LET a == Append(c, [leaf |-> n, gradient |-> v])
         IN  /\ a \in Seq(Owed) /\ Single(a) /\ CommitLeaves(a) = CommitLeaves(c) \cup {n}
             /\ Owing(a, n) = v /\ \A l : l # n => Owing(a, l) = Owing(c, l)
<1> DEFINE e == [leaf |-> n, gradient |-> v]
           a == Append(c, e)
<1>1. e \in Owed /\ e.leaf = n /\ e.gradient = v
  BY DEF Owed
<1> HIDE DEF e
<1>2. /\ a \in Seq(Owed) /\ Len(c) \in Nat /\ DOMAIN c = 1..Len(c) /\ DOMAIN a = 1..(Len(c) + 1)
      /\ a[Len(c) + 1] = e /\ \A k \in DOMAIN c : a[k] = c[k]
  BY <1>1
<1> HIDE DEF a
<1>3. /\ Len(c) + 1 \in DOMAIN a /\ DOMAIN c \subseteq DOMAIN a
      /\ \A k \in DOMAIN a : k \in DOMAIN c \/ k = Len(c) + 1
  BY <1>2
<1>4. \A k \in DOMAIN c : c[k].leaf # n
  BY DEF CommitLeaves
<1>5. Single(a)
  BY <1>1, <1>2, <1>3, <1>4 DEF Single
<1>6. CommitLeaves(a) = CommitLeaves(c) \cup {n}
  BY <1>1, <1>2, <1>3 DEF CommitLeaves
<1>7. Owing(a, n) = v
  BY <1>1, <1>2, <1>3, <1>5, OwingOf
<1>8. ASSUME NEW l, l # n PROVE Owing(a, l) = Owing(c, l)
  <2>1. CASE l \in CommitLeaves(c)
    <3>1. PICK k \in DOMAIN c : c[k].leaf = l
      BY <2>1 DEF CommitLeaves
    <3> QED BY <1>2, <1>3, <1>5, <3>1, OwingSame
  <2>2. CASE l \notin CommitLeaves(c)
    BY <1>2, <1>5, <1>6, <1>8, <2>2, OwingOf
  <2> QED BY <2>1, <2>2
<1> QED BY <1>2, <1>5, <1>6, <1>7, <1>8 DEF a, e

LEMMA OwingTail ==
  ASSUME NEW c \in Seq(Owed), Single(c), c # <<>>
  PROVE  /\ Tail(c) \in Seq(Owed) /\ Single(Tail(c)) /\ Head(c) \in Owed
         /\ Head(c).leaf \in CommitLeaves(c)
         /\ CommitLeaves(Tail(c)) = CommitLeaves(c) \ {Head(c).leaf}
         /\ Owing(c, Head(c).leaf) = Head(c).gradient
         /\ Owing(Tail(c), Head(c).leaf) = 0
         /\ \A l : l # Head(c).leaf => Owing(Tail(c), l) = Owing(c, l)
<1> DEFINE d == Tail(c)
<1>1. /\ d \in Seq(Owed) /\ Len(c) \in Nat \ {0} /\ DOMAIN c = 1..Len(c) /\ DOMAIN d = 1..(Len(c) - 1)
      /\ Head(c) = c[1] /\ \A k \in 1..(Len(c) - 1) : d[k] = c[k + 1]
  OBVIOUS
<1> HIDE DEF d
<1>2. /\ 1 \in DOMAIN c /\ c[1] \in Owed
      /\ \A k \in DOMAIN d : k + 1 \in DOMAIN c /\ k + 1 # 1 /\ d[k] = c[k + 1]
      /\ \A k \in DOMAIN c : k = 1 \/ (k - 1 \in DOMAIN d /\ d[k - 1] = c[k])
  <2>1. \A k \in 1..(Len(c) - 1) : k + 1 \in 1..Len(c) /\ k + 1 # 1
    BY <1>1
  <2>2. \A k \in 1..Len(c) : k = 1 \/ (k - 1 \in 1..(Len(c) - 1) /\ (k - 1) + 1 = k)
    BY <1>1
  <2>3. 1 \in DOMAIN c
    BY <1>1
  <2> QED BY <1>1, <2>1, <2>2, <2>3
<1>3. Single(d)
  <2> SUFFICES ASSUME NEW j \in DOMAIN d, NEW k \in DOMAIN d, d[j].leaf = d[k].leaf
               PROVE  j = k
    BY DEF Single
  <2>1. j + 1 = k + 1
    BY <1>2 DEF Single
  <2> QED BY <1>1, <2>1
<1>4. CommitLeaves(d) = CommitLeaves(c) \ {c[1].leaf}
  <2>1. \A k \in DOMAIN d : d[k].leaf # c[1].leaf
    BY <1>2 DEF Single
  <2>2. CommitLeaves(d) \subseteq CommitLeaves(c) \ {c[1].leaf}
    BY <1>2, <2>1 DEF CommitLeaves
  <2>3. CommitLeaves(c) \ {c[1].leaf} \subseteq CommitLeaves(d)
    BY <1>2 DEF CommitLeaves
  <2> QED BY <2>2, <2>3
<1>5. Owing(c, c[1].leaf) = c[1].gradient /\ Owing(d, c[1].leaf) = 0
  BY <1>1, <1>2, <1>3, <1>4, OwingOf
<1>6. ASSUME NEW l, l # c[1].leaf PROVE Owing(d, l) = Owing(c, l)
  <2>1. CASE l \in CommitLeaves(c)
    <3>1. PICK k \in DOMAIN c : c[k].leaf = l
      BY <2>1 DEF CommitLeaves
    <3>2. k - 1 \in DOMAIN d /\ d[k - 1] = c[k]
      BY <1>2, <1>6, <3>1
    <3> QED BY <1>1, <1>3, <3>1, <3>2, OwingSame
  <2>2. CASE l \notin CommitLeaves(c)
    BY <1>1, <1>3, <1>4, <2>2, OwingOf
  <2> QED BY <2>1, <2>2
<1>7. c[1].leaf \in CommitLeaves(c)
  BY <1>2 DEF CommitLeaves
<1> QED BY <1>1, <1>2, <1>3, <1>4, <1>5, <1>6, <1>7 DEF d

LEMMA NoCommits ==
  /\ <<>> \in Seq(Owed) /\ Single(<<>>) /\ CommitLeaves(<<>>) = {}
  /\ \A l : Owing(<<>>, l) = 0
BY DEF Single, CommitLeaves, Owing

-----------------------------------------------------------------------------
(***************************************************************************)
(* The loop over the topology.                                             *)
(***************************************************************************)
LEMMA AheadSteps ==
  ASSUME NEW p \in Pass, NEW g, Sound(g), Sorted(p, g), NEW at \in 1..Len(p.topology)
  PROVE  LET n == p.topology[at]
         IN  /\ n \in Nodes /\ n \in Range(p.topology) /\ n \in Known(g)
             /\ at - 1 \in Nat /\ at \in DOMAIN p.topology
             /\ Ahead(p, at) = Ahead(p, at - 1) \cup {n} /\ n \notin Ahead(p, at - 1)
             /\ Behind(p, at - 1) = Behind(p, at) \cup {n} /\ n \notin Behind(p, at)
             /\ Inputs(g, n) \subseteq Ahead(p, at - 1)
             /\ Ahead(p, 0) = {} /\ Behind(p, 0) = Range(p.topology)
             /\ Behind(p, Len(p.topology)) = {} /\ Ahead(p, Len(p.topology)) = Range(p.topology)
             /\ \A m \in Range(p.topology) : m \in Ahead(p, at) \/ m \in Behind(p, at)
<1> DEFINE T == p.topology
           n == T[at]
<1>1. /\ T \in Seq(Nodes) /\ DOMAIN T = 1..Len(T) /\ Len(T) \in Nat
      /\ IsInjective(T) /\ Ordered(T, g)
  BY DEF Pass, Sorted
<1>2. at \in DOMAIN T /\ at - 1 \in Nat /\ n \in Nodes /\ n \in Range(T)
  BY <1>1 DEF Range
<1>3. n \in Known(g)
  <2>1. Root(p) \in Tensor /\ TensorIn(g, Root(p))
    <3>1. 1 \in DOMAIN p.roots
      BY DEF Sorted, Pass
    <3>2. TensorIn(g, p.roots[1])
      BY <3>1 DEF Sorted, RootsIn
    <3> QED BY <3>2 DEF Root, TensorIn
  <2>2. Root(p).node \in Known(g)
    BY <2>1 DEF TensorIn
  <2>3. Extends(g, g)
    BY DEF Extends
  <2> QED BY <1>2, <2>2, <2>3, ReachKept DEF Sorted
<1> HIDE DEF T
<1>4. \A j, k \in DOMAIN T : T[j] = T[k] => j = k
  BY <1>1 DEF IsInjective
<1>5. n \notin {m \in Nodes : \E k \in 1..(at - 1) : T[k] = m}
  <2>1. \A k \in 1..(at - 1) : k \in DOMAIN T /\ k # at
    BY <1>1, <1>2
  <2> QED BY <1>2, <1>4, <2>1
<1>6. {m \in Nodes : \E k \in 1..at : T[k] = m} = {m \in Nodes : \E k \in 1..(at - 1) : T[k] = m} \cup {n}
  <2>1. \A k \in 1..at : k = at \/ k \in 1..(at - 1)
    BY <1>1, <1>2
  <2>2. \A k \in 1..(at - 1) : k \in 1..at
    BY <1>1, <1>2
  <2>3. at \in 1..at
    BY <1>1, <1>2
  <2> QED BY <1>2, <2>1, <2>2, <2>3
<1>7. Inputs(g, n) \subseteq {m \in Nodes : \E k \in 1..(at - 1) : T[k] = m}
  <2>1. \A m \in Inputs(g, n) : \E k \in 1..(at - 1) : T[k] = m
    BY <1>1, <1>2 DEF Ordered
  <2>2. Inputs(g, n) \subseteq Nodes
    BY <1>2, EdgesOf DEF Inputs
  <2> QED BY <2>1, <2>2
<1>8. {m \in Nodes : \E k \in 1..0 : T[k] = m} = {}
  OBVIOUS
<1>9. {m \in Nodes : \E k \in 1..Len(T) : T[k] = m} = Range(T)
  <2>1. \A k \in DOMAIN T : T[k] \in Nodes
    BY <1>1
  <2> QED BY <1>1, <2>1 DEF Range
<1> QED BY <1>2, <1>3, <1>5, <1>6, <1>7, <1>8, <1>9 DEF Ahead, Behind, T

LEMMA RootIn ==
  ASSUME NEW p \in Pass, NEW g, RootsIn(p, g)
  PROVE  /\ Root(p) \in Tensor /\ TensorIn(g, Root(p)) /\ Root(p).node \in Nodes /\ Root(p).node \in Known(g)
         /\ Root(p) = Out(Root(p).node, Root(p).output) /\ Root(p).output \in OutputsIn(g, Root(p).node)
<1>1. 1 \in DOMAIN p.roots
  BY DEF RootsIn, Pass
<1>2. TensorIn(g, Root(p))
  BY <1>1 DEF RootsIn, Root
<1>3. \A x \in Tensor : x.node \in Nodes /\ x = Out(x.node, x.output)
  BY DEF Tensor, Out
<1> QED BY <1>2, <1>3 DEF TensorIn

\* A node's turn comes after those it is an input of.
LEMMA Arrives ==
  ASSUME NEW p \in Pass, NEW g, Sound(g), Sorted(p, g), NEW at \in 1..Len(p.topology),
         Applied(p, g, at)
  PROVE  ArrivedIn(g, p.gradients, p.topology[at]) # {}
<1> DEFINE T == p.topology
           n == T[at]
           root == Root(p)
<1>1. /\ n \in Nodes /\ n \in Range(T) /\ Ahead(p, at) = Ahead(p, at - 1) \cup {n}
      /\ \A m \in Range(T) : m \in Ahead(p, at) \/ m \in Behind(p, at)
      /\ at \in DOMAIN T
  BY AheadSteps
<1>2. /\ root \in Tensor /\ root.node \in Nodes /\ root = Out(root.node, root.output)
      /\ root.output \in OutputsIn(g, root.node)
  BY RootIn DEF Sorted
<1>3. Range(T) = ReachIn(g)[root.node] /\ IsInjective(T) /\ Ordered(T, g)
  BY DEF Sorted
<1>4. CASE n = root.node
  <2>1. p.gradients[root] # None
    BY <1>1, <1>4 DEF Applied
  <2> QED BY <1>2, <1>4, <2>1 DEF ArrivedIn
<1>5. ASSUME NEW m \in Range(T), n \in Inputs(g, m) PROVE ArrivedIn(g, p.gradients, n) # {}
  <2>1. m \notin Ahead(p, at)
    <3>1. ASSUME NEW k \in 1..at, T[k] = m PROVE FALSE
      <4>1. k \in DOMAIN T
        BY <3>1 DEF Pass
      <4>2. PICK j \in 1..(k - 1) : T[j] = n
        BY <1>3, <1>5, <3>1, <4>1 DEF Ordered
      <4>3. j \in DOMAIN T /\ j # at
        BY <3>1 DEF Pass
      <4> QED BY <1>1, <1>3, <4>2, <4>3 DEF IsInjective
    <3> QED BY <3>1 DEF Ahead
  <2>2. m \in Behind(p, at) /\ n \in Ahead(p, at)
    BY <1>1, <2>1
  <2>3. PICK i \in DOMAIN g[m].edges : g[m].edges[i].node = n
    BY <1>5 DEF Inputs
  <2> DEFINE x == g[m].edges[i]
  <2>4. p.gradients[x] # None
    BY <2>2, <2>3 DEF Applied
  <2>5. m \in Nodes
    BY <1>1, <2>2 DEF Behind, Range, Pass
  <2>6. x \in Tensor /\ TensorIn(g, x)
    BY <2>5, EdgesOf
  <2>7. x.output \in OutputsIn(g, n) /\ x = Out(n, x.output)
    BY <2>3, <2>6 DEF TensorIn, Tensor, Out
  <2> QED BY <2>4, <2>7 DEF ArrivedIn
<1>6. n = root.node \/ \E m \in Range(T) : n \in Inputs(g, m)
  BY <1>1, <1>2, <1>3, ReachClosed
<1> QED BY <1>4, <1>5, <1>6

\* The gradient of a leaf that does not accumulate stays where it is.
LEMMA AppliedSkip ==
  ASSUME NEW p \in Pass, NEW g, Sound(g), Sorted(p, g), NEW at \in 1..Len(p.topology),
         Applied(p, g, at), Leaf(g, p.topology[at]),
         NEW q \in Pass, q.roots = p.roots, q.topology = p.topology, q.commits = p.commits,
         q.gradients = p.gradients, q.skipped = p.skipped \cup {p.topology[at]}
  PROVE  Applied(q, g, at - 1)
<1> DEFINE n == p.topology[at]
<1>1. /\ n \in Nodes /\ Ahead(p, at) = Ahead(p, at - 1) \cup {n} /\ n \notin Ahead(p, at - 1)
      /\ Behind(p, at - 1) = Behind(p, at) \cup {n} /\ n \notin Behind(p, at)
  BY AheadSteps
<1>2. \A k : Ahead(q, k) = Ahead(p, k) /\ Behind(q, k) = Behind(p, k)
  BY DEF Ahead, Behind
<1>3. Root(q) = Root(p)
  BY DEF Root
<1>4. g[n].edges = <<>> /\ DOMAIN g[n].edges = {}
  BY <1>1 DEF Sound, SoundNode, Leaf
<1>5. q.skipped \subseteq Leaves(g, Behind(q, at - 1))
  BY <1>1, <1>2 DEF Applied, Leaves
<1>6. \A x \in Tensor : q.gradients[x] # None => x.node \in Ahead(q, at - 1) \/ x.node \in q.skipped
  BY <1>1, <1>2 DEF Applied
<1>7. Root(q).node \in Ahead(q, at - 1) => q.gradients[Root(q)] # None
  BY <1>1, <1>2, <1>3 DEF Applied
<1>8. \A m \in Behind(q, at - 1) : \A i \in DOMAIN g[m].edges :
        g[m].edges[i].node \in Ahead(q, at - 1) => q.gradients[g[m].edges[i]] # None
  BY <1>1, <1>2, <1>4 DEF Applied
<1>9. CommitLeaves(q.commits) = Leaves(g, Behind(q, at - 1)) \ q.skipped
  BY <1>1, <1>2 DEF Applied, Leaves
<1>10. Balanced(q, g)
  BY <1>3 DEF Applied, Balanced
<1> QED BY <1>5, <1>6, <1>7, <1>8, <1>9, <1>10 DEF Applied

LEMMA AppliedLeaf ==
  ASSUME NEW p \in Pass, NEW g, Sound(g), Sorted(p, g), NEW at \in 1..Len(p.topology),
         Applied(p, g, at), Leaf(g, p.topology[at]),
         NEW q \in Pass, q.roots = p.roots, q.topology = p.topology, q.skipped = p.skipped,
         q.commits = Append(p.commits, [leaf |-> p.topology[at],
                                        gradient |-> p.gradients[Out(p.topology[at], 0)]]),
         q.gradients = [p.gradients EXCEPT ![Out(p.topology[at], 0)] = None]
  PROVE  Applied(q, g, at - 1)
<1> DEFINE n == p.topology[at]
           own == Out(n, 0)
           gr == p.gradients
<1>1. /\ n \in Nodes /\ Ahead(p, at) = Ahead(p, at - 1) \cup {n} /\ n \notin Ahead(p, at - 1)
      /\ Behind(p, at - 1) = Behind(p, at) \cup {n} /\ n \notin Behind(p, at)
  BY AheadSteps
<1>2. \A k : Ahead(q, k) = Ahead(p, k) /\ Behind(q, k) = Behind(p, k)
  BY DEF Ahead, Behind
<1>3. Root(q) = Root(p)
  BY DEF Root
<1>4. g[n].edges = <<>> /\ DOMAIN g[n].edges = {} /\ OutputsIn(g, n) = {0}
  BY <1>1 DEF Sound, SoundNode, Leaf, OutputsIn
<1>5. /\ own \in Tensor /\ own.node = n
      /\ \A x \in Tensor : x.node = n => x = own \/ x = Out(n, 1)
      /\ own # Out(n, 1) /\ Out(n, 1).output = 1 /\ Out(n, 1).node = n
  BY <1>1, OutTensor DEF Outputs
<1>6. gr[own] # None /\ gr[Out(n, 1)] = None
  <2>1. gr[own] # None
    BY <1>4, Arrives DEF ArrivedIn
  <2>2. Out(n, 1) \in Tensor /\ 1 # 0
    BY <1>1, OutTensor DEF Outputs
  <2>3. ~TensorIn(g, Out(n, 1))
    BY <1>4, <1>5, <2>2 DEF TensorIn
  <2> QED BY <2>1, <2>2, <2>3 DEF Applied, Wellformed
<1>7. /\ gr \in Gradients /\ gr[own] \in Int /\ Wellformed(gr, g)
      /\ \A x \in Tensor : q.gradients[x] = IF x = own THEN None ELSE gr[x]
  BY <1>5, <1>6 DEF Applied, Wellformed, Gradients
<1>8. n \notin CommitLeaves(p.commits) /\ p.commits \in Seq(Owed) /\ Single(p.commits)
      /\ n \notin p.skipped
  BY <1>1 DEF Applied, Leaves, Pass
<1> DEFINE v == gr[own]
           a == Append(p.commits, [leaf |-> n, gradient |-> v])
<1>9. /\ a \in Seq(Owed) /\ Single(a) /\ CommitLeaves(a) = CommitLeaves(p.commits) \cup {n}
      /\ Owing(a, n) = v /\ \A l : l # n => Owing(a, l) = Owing(p.commits, l)
      /\ Owing(p.commits, n) = 0
  <2> HIDE DEF v, n
  <2>1. v \in Int
    BY <1>7 DEF v
  <2> QED BY <1>1, <1>8, <2>1, OwingAppended, OwingOf
<1>10. q.commits = a
  OBVIOUS
<1>11. q.skipped \subseteq Leaves(g, Behind(q, at - 1))
  BY <1>1, <1>2 DEF Applied, Leaves
<1>12. \A x \in Tensor : q.gradients[x] # None => x.node \in Ahead(q, at - 1) \/ x.node \in q.skipped
  BY <1>1, <1>2, <1>5, <1>6, <1>7 DEF Applied
<1>13. Root(q).node \in Ahead(q, at - 1) => q.gradients[Root(q)] # None
  <2>1. Root(p) \in Tensor
    BY RootIn DEF Sorted
  <2> QED BY <1>1, <1>2, <1>3, <1>5, <1>7, <2>1 DEF Applied
<1>14. \A m \in Behind(q, at - 1) : \A i \in DOMAIN g[m].edges :
        g[m].edges[i].node \in Ahead(q, at - 1) => q.gradients[g[m].edges[i]] # None
  <2> SUFFICES ASSUME NEW m \in Behind(p, at), NEW i \in DOMAIN g[m].edges,
                      g[m].edges[i].node \in Ahead(p, at - 1)
               PROVE  q.gradients[g[m].edges[i]] # None
    BY <1>1, <1>2, <1>4
  <2>1. m \in Nodes
    BY DEF Behind, Range, Pass
  <2>2. g[m].edges[i] \in Tensor /\ g[m].edges[i] # own
    BY <1>1, <1>5, <2>1, EdgesOf
  <2>3. gr[g[m].edges[i]] # None
    BY <1>1 DEF Applied
  <2> QED BY <1>7, <2>2, <2>3
<1>15. CommitLeaves(q.commits) = Leaves(g, Behind(q, at - 1)) \ q.skipped
  BY <1>1, <1>2, <1>8, <1>9, <1>10 DEF Applied, Leaves
<1>16. Wellformed(q.gradients, g)
  BY <1>7 DEF Wellformed, Pass
<1>17. Balanced(q, g)
  <2> SUFFICES ASSUME NEW leaf \in Nodes \ p.skipped, g[leaf].kind \in {"leaf", "absent"}
               PROVE  Flow(q.gradients, g, leaf) + Owing(a, leaf) = SlopeAt(g, leaf, Root(p))
    BY <1>3, <1>10 DEF Balanced
  <2>1. Flow(gr, g, leaf) + Owing(p.commits, leaf) = SlopeAt(g, leaf, Root(p))
    BY DEF Applied, Balanced
  <2>2. g[n].kind = "leaf"
    BY DEF Leaf
  <2>3. Flow(gr, g, leaf) = Flow(q.gradients, g, leaf) + IF leaf = n THEN Value(gr, own) ELSE 0
    <3> HIDE DEF n
    <3>1. q.gradients = [gr EXCEPT ![Out(n, 0)] = None]
      BY DEF n
    <3> QED BY <1>1, <1>7, <2>2, <3>1, FlowTaken
  <2>4. Value(gr, own) = v
    BY <1>6 DEF Value
  <2>5. Flow(q.gradients, g, leaf) \in Int
    <3>1. q.gradients \in Gradients
      BY DEF Pass
    <3>2. \A x \in Tensor : Weights(q.gradients, g, leaf)[x] \in Int
      BY <3>1, WeightsInt
    <3> QED BY <3>2, TensorFinite, SumInt DEF Flow
  <2>6. Owing(p.commits, leaf) \in Int /\ v \in Int
    BY <1>7, <1>8, OwingOf
  <2> HIDE DEF v, a, n
  <2>7. CASE leaf = n
    BY <1>9, <2>1, <2>3, <2>4, <2>5, <2>6, <2>7
  <2>8. CASE leaf # n
    BY <1>9, <2>1, <2>3, <2>5, <2>6, <2>8
  <2> QED BY <2>7, <2>8
<1> QED BY <1>9, <1>10, <1>11, <1>12, <1>13, <1>14, <1>15, <1>16, <1>17 DEF Applied

LEMMA AppliedNode ==
  ASSUME NEW p \in Pass, NEW g, Sound(g), Sorted(p, g), NEW at \in 1..Len(p.topology),
         Applied(p, g, at), ~Leaf(g, p.topology[at]),
         NEW q \in Pass, q.roots = p.roots, q.topology = p.topology, q.skipped = p.skipped,
         q.commits = p.commits, q.gradients = PropagatedIn(g, p.gradients, p.topology[at])
  PROVE  Applied(q, g, at - 1)
<1> DEFINE n == p.topology[at]
           gr == p.gradients
<1>1. /\ n \in Nodes /\ n \in Known(g)
      /\ Ahead(p, at) = Ahead(p, at - 1) \cup {n} /\ n \notin Ahead(p, at - 1)
      /\ Behind(p, at - 1) = Behind(p, at) \cup {n} /\ n \notin Behind(p, at)
      /\ Inputs(g, n) \subseteq Ahead(p, at - 1)
  BY AheadSteps
<1>2. \A k : Ahead(q, k) = Ahead(p, k) /\ Behind(q, k) = Behind(p, k)
  BY DEF Ahead, Behind
<1>3. Root(q) = Root(p)
  BY DEF Root
<1>4. g[n].kind \in {"add_subtract", "multiply", "chunk"}
  BY <1>1 DEF Sound, SoundNode, Known, AllKinds, Leaf
<1>5. Wellformed(gr, g)
  BY DEF Applied
<1>6. /\ Wellformed(q.gradients, g)
      /\ \A x \in Tensor : x.node = n => q.gradients[x] = None
      /\ \A x \in Tensor : x.node # n =>
           (q.gradients[x] # None <=> gr[x] # None \/ \E i \in DOMAIN g[n].edges : g[n].edges[i] = x)
  <2> HIDE DEF n
  <2>1. q.gradients = PropagatedIn(g, gr, n)
    BY DEF n
  <2> DEFINE r == PropagatedIn(g, gr, n)
  <2>2. /\ Wellformed(r, g)
        /\ \A x \in Tensor : x.node = n => r[x] = None
        /\ \A x \in Tensor : x.node # n =>
             (r[x] # None <=> gr[x] # None \/ \E i \in DOMAIN g[n].edges : g[n].edges[i] = x)
    <3> HIDE DEF gr
    <3> QED BY <1>1, <1>4, <1>5, PropagatedValue
  <2> HIDE DEF r
  <2>3. q.gradients = r
    BY <2>1 DEF r
  <2> QED BY <2>2, <2>3
<1>7. q.skipped \subseteq Leaves(g, Behind(q, at - 1))
  BY <1>1, <1>2 DEF Applied, Leaves
<1>8. ASSUME NEW x \in Tensor, q.gradients[x] # None
      PROVE  x.node \in Ahead(q, at - 1) \/ x.node \in q.skipped
  <2>1. x.node # n
    BY <1>6, <1>8
  <2>2. CASE gr[x] # None
    BY <1>1, <1>2, <2>1, <2>2 DEF Applied
  <2>3. CASE \E i \in DOMAIN g[n].edges : g[n].edges[i] = x
    BY <1>1, <1>2, <2>3 DEF Inputs
  <2> QED BY <1>6, <1>8, <2>1, <2>2, <2>3
<1>9. Root(q).node \in Ahead(q, at - 1) => q.gradients[Root(q)] # None
  <2>1. Root(p) \in Tensor
    BY RootIn DEF Sorted
  <2> QED BY <1>1, <1>2, <1>3, <1>6, <2>1 DEF Applied
<1>10. ASSUME NEW m \in Behind(q, at - 1), NEW i \in DOMAIN g[m].edges,
              g[m].edges[i].node \in Ahead(q, at - 1)
       PROVE  q.gradients[g[m].edges[i]] # None
  <2>1. m \in Nodes
    BY <1>10 DEF Behind, Range, Pass
  <2>2. g[m].edges[i] \in Tensor /\ g[m].edges[i].node # n
    BY <1>1, <1>2, <1>10, <2>1, EdgesOf
  <2>3. CASE m = n
    BY <1>6, <2>2, <2>3
  <2>4. CASE m \in Behind(p, at)
    <3>1. gr[g[m].edges[i]] # None
      BY <1>1, <1>2, <1>10, <2>4 DEF Applied
    <3> QED BY <1>6, <2>2, <3>1
  <2> QED BY <1>1, <1>2, <2>3, <2>4
<1>11. CommitLeaves(q.commits) = Leaves(g, Behind(q, at - 1)) \ q.skipped
  BY <1>1, <1>2 DEF Applied, Leaves
<1>12. Balanced(q, g)
  <2> SUFFICES ASSUME NEW leaf \in Nodes \ p.skipped, g[leaf].kind \in {"leaf", "absent"}
               PROVE  Flow(q.gradients, g, leaf) + Owing(p.commits, leaf) = SlopeAt(g, leaf, Root(p))
    BY <1>3 DEF Balanced
  <2>1. Flow(gr, g, leaf) + Owing(p.commits, leaf) = SlopeAt(g, leaf, Root(p))
    BY DEF Applied, Balanced
  <2>2. leaf # n /\ leaf \in Nodes
    BY <1>4
  <2>3. Flow(q.gradients, g, leaf) = Flow(gr, g, leaf)
    <3> HIDE DEF n
    <3>1. q.gradients = PropagatedIn(g, gr, n)
      BY DEF n
    <3> QED BY <1>1, <1>4, <1>5, <2>2, <3>1, FlowPropagated
  <2> QED BY <2>1, <2>3
<1> QED BY <1>6, <1>7, <1>8, <1>9, <1>10, <1>11, <1>12 DEF Applied

LEMMA OneRoot ==
  ASSUME NEW p \in Pass, NEW g, Sound(g), RootsIn(p, g), Len(p.roots) = 1
  PROVE  /\ DOMAIN p.roots = {1}
         /\ ReachOf(g, p.roots) = ReachIn(g)[Root(p).node]
         /\ \A leaf \in Nodes : Leaf(g, leaf) /\ leaf \notin p.skipped =>
              DueIn(g, p, leaf) = SlopeAt(g, leaf, Root(p))
<1>1. DOMAIN p.roots = {1}
  BY DEF Pass
<1>2. ReachOf(g, p.roots) = ReachIn(g)[Root(p).node]
  BY <1>1 DEF ReachOf, Root
<1>3. ASSUME NEW leaf \in Nodes, Leaf(g, leaf), leaf \notin p.skipped
      PROVE  DueIn(g, p, leaf) = SlopeAt(g, leaf, Root(p))
  <2> DEFINE w == [i \in DOMAIN p.roots |-> SlopeAt(g, leaf, p.roots[i])]
  <2>1. DOMAIN w = {1} /\ w[1] = SlopeAt(g, leaf, Root(p))
    BY <1>1 DEF Root
  <2>2. SlopeAt(g, leaf, Root(p)) \in Int
    <3>1. Root(p) \in Tensor /\ NoGradients \in Gradients
      BY RootIn DEF NoGradients, Gradients
    <3> QED BY <3>1, WeightsInt
  <2>3. DueIn(g, p, leaf) = SumFunction(w)
    BY <1>3 DEF DueIn
  <2> HIDE DEF w
  <2>4. SumFunction(w) = w[1]
    BY <2>1, <2>2, SummedFew
  <2> QED BY <2>1, <2>3, <2>4
<1> QED BY <1>1, <1>2, <1>3

\* What the search found is applied from its end.
LEMMA AppliedStarts ==
  ASSUME NEW p \in Pass, NEW g, Sound(g), Sorted(p, g), p.commits = <<>>, p.skipped = {},
         p.gradients = [NoGradients EXCEPT ![Root(p)] = 1]
  PROVE  Applied(p, g, Len(p.topology))
<1> DEFINE L == Len(p.topology)
           root == Root(p)
<1>1. L \in 1..L
  BY DEF Pass, Sorted
<1>2. Behind(p, L) = {} /\ Ahead(p, L) = Range(p.topology)
  BY <1>1, AheadSteps
<1>3. root \in Tensor /\ TensorIn(g, root) /\ root.node \in Nodes
  BY RootIn DEF Sorted
<1>4. root.node \in Ahead(p, L)
  BY <1>2, <1>3, ReachSteps DEF Sorted
<1>5. \A x \in Tensor : p.gradients[x] = IF x = root THEN 1 ELSE None
  BY <1>3 DEF NoGradients
<1>6. 1 # None
  BY BackwardConstants
<1>7. \A leaf \in Nodes : Wellformed(p.gradients, g) /\ Flow(p.gradients, g, leaf) = SlopeAt(g, leaf, root)
  <2> HIDE DEF root
  <2>1. p.gradients = [NoGradients EXCEPT ![root] = 1]
    BY DEF root
  <2> DEFINE start == [NoGradients EXCEPT ![root] = 1]
  <2>2. \A leaf \in Nodes : Wellformed(start, g) /\ Flow(start, g, leaf) = SlopeAt(g, leaf, root)
    BY <1>3, FlowStart
  <2> HIDE DEF start
  <2>3. p.gradients = start
    BY <2>1 DEF start
  <2> QED BY <2>2, <2>3
<1>8. Wellformed(p.gradients, g)
  BY <1>3, <1>7
<1>9. Balanced(p, g)
  <2> SUFFICES ASSUME NEW leaf \in Nodes PROVE Flow(p.gradients, g, leaf) + 0 = SlopeAt(g, leaf, root)
    BY NoCommits DEF Balanced
  <2>1. SlopeAt(g, leaf, root) \in Int
    BY <1>3, <1>8, WeightsInt DEF Wellformed
  <2> DEFINE f == Flow(p.gradients, g, leaf)
             v == SlopeAt(g, leaf, root)
  <2>2. f = v /\ v \in Int
    BY <1>7, <2>1
  <2> HIDE DEF f, v
  <2>3. f + 0 = v
    BY <2>2
  <2> QED BY <2>3 DEF f, v
<1> HIDE DEF L, root
<1>10. p.skipped \subseteq Leaves(g, Behind(p, L)) /\ CommitLeaves(p.commits) = Leaves(g, Behind(p, L)) \ p.skipped
       /\ Single(p.commits)
  BY <1>2, NoCommits DEF Leaves
<1>11. \A x \in Tensor : p.gradients[x] # None => x.node \in Ahead(p, L)
  BY <1>4, <1>5
<1>12. p.gradients[root] # None
  BY <1>3, <1>5, <1>6
<1>13. \A n \in Behind(p, L) : FALSE
  BY <1>2
<1> QED BY <1>8, <1>9, <1>10, <1>11, <1>12, <1>13 DEF Applied, L, root

\* Once it has been, every leaf of the graph that accumulates has its due.
LEMMA AppliedEnds ==
  ASSUME NEW p \in Pass, NEW g, Sound(g), Sorted(p, g), Applied(p, g, 0)
  PROVE  Settled(p, g)
<1>1. RootsIn(p, g) /\ Len(p.roots) = 1
  BY DEF Sorted
<1>2. Ahead(p, 0) = {} /\ Behind(p, 0) = ReachOf(g, p.roots)
  <2>1. Len(p.topology) \in 1..Len(p.topology)
    BY DEF Pass, Sorted
  <2> QED BY <1>1, <2>1, AheadSteps, OneRoot DEF Sorted
<1>3. Single(p.commits) /\ CommitLeaves(p.commits) = Leaves(g, ReachOf(g, p.roots)) \ p.skipped
  BY <1>2 DEF Applied
<1>4. ASSUME NEW leaf \in Nodes PROVE Owing(p.commits, leaf) = DueIn(g, p, leaf)
  <2>0. p.commits \in Seq(Owed)
    BY DEF Pass
  <2>1. CASE leaf \in p.skipped \/ ~Leaf(g, leaf)
    <3>1. leaf \notin CommitLeaves(p.commits)
      BY <1>3, <2>1 DEF Leaves
    <3> QED BY <1>3, <2>0, <2>1, <3>1, OwingOf DEF DueIn
  <2>2. CASE leaf \notin p.skipped /\ Leaf(g, leaf)
    <3>1. ASSUME NEW x \in Tensor, p.gradients[x] # None PROVE SlopeAt(g, leaf, x) = 0
      <4>1. x.node \in p.skipped /\ TensorIn(g, x)
        BY <1>2, <3>1 DEF Applied, Wellformed
      <4>2. x.node \in Nodes /\ x.output \in Outputs /\ x.node # leaf /\ Leaf(g, x.node)
        BY <2>2, <4>1 DEF Applied, Leaves, Tensor
      <4>3. DOMAIN g[x.node].edges = {}
        BY <4>2 DEF Sound, SoundNode, Leaf
      <4> QED BY <4>2, <4>3, SlopeSteps DEF SlopeAt
    <3>2. p.gradients \in Gradients
      BY DEF Pass
    <3>3. Flow(p.gradients, g, leaf) = 0
      BY <3>1, <3>2, FlowZero
    <3>4. Flow(p.gradients, g, leaf) + Owing(p.commits, leaf) = SlopeAt(g, leaf, Root(p))
      BY <2>2 DEF Applied, Balanced, Leaf
    <3>5. Owing(p.commits, leaf) \in Int
      BY <1>3, <2>0, OwingOf
    <3>6. DueIn(g, p, leaf) = SlopeAt(g, leaf, Root(p))
      BY <1>1, <2>2, OneRoot
    <3> QED BY <3>3, <3>4, <3>5, <3>6
  <2> QED BY <2>1, <2>2
<1> QED BY <1>3, <1>4 DEF Settled

-----------------------------------------------------------------------------
(***************************************************************************)
(* From stage to stage.                                                    *)
(***************************************************************************)
LEMMA Starts ==
  ASSUME NEW p \in Pass, NEW g, Sound(g), NEW s, AtLock(p, g), NEW q \in Pass,
         q = [p EXCEPT !.stack = <<[frame |-> "enter", node |-> Root(p).node]>>,
                       !.gradients = [p.gradients EXCEPT ![Root(p)] = 1]]
  PROVE  Collecting(q, g, s)
<1>1. /\ p.stack = <<>> /\ p.seen = {} /\ p.topology = <<>> /\ p.gradients = NoGradients
      /\ p.commits = <<>> /\ p.result = "none" /\ p.took = {} /\ p.given = {} /\ p.skipped = {}
  BY DEF AtLock, AtRest, NoPass
<1>2. Root(p).node \in Nodes
  BY RootIn DEF AtLock
<1>3. /\ q.roots = p.roots /\ q.seen = {} /\ q.topology = <<>>
      /\ q.stack = <<[frame |-> "enter", node |-> Root(p).node]>>
      /\ q.gradients = [NoGradients EXCEPT ![Root(p)] = 1]
      /\ q.commits = <<>> /\ q.result = "none" /\ q.took = {} /\ q.given = {} /\ q.skipped = {}
  BY <1>1 DEF Pass
<1>4. Root(q) = Root(p) /\ RootsIn(q, g) /\ Len(q.roots) = 1
  BY <1>3 DEF Root, RootsIn, AtLock
<1>5. Searching(Root(p).node, q.stack, q.seen, q.topology, g)
  BY <1>2, <1>3, SearchStarts
<1>6. q.stack # <<>>
  BY <1>3
<1> QED BY <1>3, <1>4, <1>5, <1>6 DEF Collecting, Untouched

LEMMA Searches ==
  ASSUME NEW p \in Pass, NEW g, Sound(g), NEW s, Collecting(p, g, s), NEW q \in Pass,
         q.roots = p.roots, q.gradients = p.gradients, q.commits = p.commits, q.result = p.result,
         q.took = p.took, q.given = p.given, q.skipped = p.skipped, q.at = Len(q.topology),
         Searching(Root(p).node, q.stack, q.seen, q.topology, g), \A n \in q.seen : HasValues(g, s, n)
  PROVE  /\ q.stack # <<>> => Collecting(q, g, s)
         /\ q.stack = <<>> => Applying(q, g, s)
<1>1. Root(q) = Root(p) /\ RootsIn(q, g) /\ Len(q.roots) = 1 /\ Root(p).node \in Nodes
  BY RootIn DEF Root, RootsIn, Collecting
<1>2. q.stack # <<>> => Collecting(q, g, s)
  BY <1>1 DEF Collecting, Untouched
<1>3. ASSUME q.stack = <<>> PROVE Applying(q, g, s)
  <2>1. /\ q.topology # <<>> /\ Len(q.topology) \in Nat \ {0}
        /\ Range(q.topology) = ReachIn(g)[Root(p).node] /\ q.seen = Range(q.topology)
    BY <1>1, <1>3, Searched
  <2>2. Sorted(q, g)
    BY <1>1, <2>1 DEF Sorted, Searching
  <2>3. Applied(q, g, Len(q.topology))
    BY <1>1, <2>2, AppliedStarts DEF Collecting
  <2>4. q.at \in 1..Len(q.topology)
    BY <2>1
  <2> QED BY <2>1, <2>2, <2>3, <2>4 DEF Applying, Collecting, Untouched
<1> QED BY <1>2, <1>3

LEMMA Applies ==
  ASSUME NEW p \in Pass, NEW g, Sound(g), NEW s, Applying(p, g, s), NEW q \in Pass,
         q.roots = p.roots, q.topology = p.topology, q.result = p.result,
         q.took = p.took, q.given = p.given, q.at = (IF p.at = 1 THEN 1 ELSE p.at - 1),
         Applied(q, g, p.at - 1)
  PROVE  /\ p.at # 1 => Applying(q, g, s)
         /\ p.at = 1 => Consuming(q, g, s)
<1>1. Sorted(q, g)
  BY DEF Applying, Sorted, RootsIn, Root
<1>2. p.at \in 1..Len(p.topology) /\ Len(p.topology) \in Nat
  BY DEF Applying, Pass
<1>3. p.at # 1 => Applying(q, g, s)
  <2>1. p.at # 1 => p.at - 1 \in 1..Len(q.topology)
    BY <1>2
  <2> QED BY <1>1, <2>1 DEF Applying, Untouched
<1>4. ASSUME p.at = 1 PROVE Consuming(q, g, s)
  <2>1. p.at - 1 = 0 /\ q.at = 1 /\ q.at - 1 = 0 /\ q.at \in 1..Len(q.topology)
    BY <1>2, <1>4
  <2>2. Settled(q, g)
    BY <1>1, <2>1, AppliedEnds
  <2>3. Ahead(q, q.at - 1) = {} /\ Behind(q, q.at - 1) = Range(q.topology)
    BY <1>1, <2>1, AheadSteps
  <2>4. q.took = Multiplies(g, Ahead(q, q.at - 1)) /\ q.given = {} /\ q.result = "none"
    BY <2>3 DEF Applying, Untouched, Multiplies
  <2>5. \A n \in Behind(q, q.at - 1) : HasValues(g, s, n)
    BY <2>3 DEF Applying
  <2> QED BY <1>1, <2>1, <2>2, <2>4, <2>5 DEF Consuming
<1> QED BY <1>3, <1>4

LEMMA Consumes ==
  ASSUME NEW p \in Pass, NEW g, Sound(g), NEW s, Consuming(p, g, s)
  PROVE  /\ p.topology[p.at] \in Nodes /\ HasValues(g, s, p.topology[p.at])
         /\ p.topology[p.at] \in Known(g)
         /\ \A q \in Pass : \A r :
              /\ q.roots = p.roots /\ q.topology = p.topology /\ q.result = p.result
              /\ q.given = p.given /\ q.commits = p.commits /\ q.skipped = p.skipped
              /\ q.at = p.at + 1
              /\ q.took = p.took \cup Multiplies(g, {p.topology[p.at]})
              /\ r = s \ Multiplies(g, {p.topology[p.at]})
              => /\ q.at <= Len(q.topology) => Consuming(q, g, r)
                 /\ q.at > Len(q.topology) =>
                      Committing(q, g) /\ \A n \in Nodes : Owing(q.commits, n) = DueIn(g, q, n)
<1> DEFINE n == p.topology[p.at]
<1>1. /\ Sorted(p, g) /\ p.at \in 1..Len(p.topology) /\ Len(p.topology) \in Nat
      /\ p.at - 1 \in Nat /\ p.at \in Nat
  BY DEF Consuming, Pass
<1>2. /\ n \in Nodes /\ n \in Range(p.topology) /\ n \in Known(g)
      /\ Ahead(p, p.at) = Ahead(p, p.at - 1) \cup {n}
      /\ Behind(p, p.at - 1) = Behind(p, p.at) \cup {n} /\ n \notin Behind(p, p.at)
      /\ Ahead(p, Len(p.topology)) = Range(p.topology)
  BY <1>1, AheadSteps
<1>3. HasValues(g, s, n)
  BY <1>2 DEF Consuming
<1>4. ASSUME NEW q \in Pass, NEW r,
             q.roots = p.roots, q.topology = p.topology, q.result = p.result,
             q.given = p.given, q.commits = p.commits, q.skipped = p.skipped, q.at = p.at + 1,
             q.took = p.took \cup Multiplies(g, {n}), r = s \ Multiplies(g, {n})
      PROVE  /\ q.at <= Len(q.topology) => Consuming(q, g, r)
             /\ q.at > Len(q.topology) =>
                  Committing(q, g) /\ \A m \in Nodes : Owing(q.commits, m) = DueIn(g, q, m)
  <2>1. Sorted(q, g)
    BY <1>1, <1>4 DEF Sorted, RootsIn, Root
  <2>2. (\A m : DueIn(g, q, m) = DueIn(g, p, m)) /\ Settled(q, g)
    BY <1>4 DEF DueIn, Consuming, Settled
  <2>3. q.took = Multiplies(g, Ahead(p, p.at))
    BY <1>2, <1>4 DEF Consuming, Multiplies
  <2>4. (q.at - 1 = p.at) /\ \A k : Ahead(q, k) = Ahead(p, k) /\ Behind(q, k) = Behind(p, k)
    BY <1>1, <1>4 DEF Ahead, Behind
  <2>5. ASSUME q.at <= Len(q.topology) PROVE Consuming(q, g, r)
    <3>1. q.at \in 1..Len(q.topology)
      BY <1>1, <1>4, <2>5
    <3>2. \A m \in Behind(q, q.at - 1) : HasValues(g, r, m)
      <4>1. \A m \in Behind(p, p.at) : HasValues(g, s, m) /\ m # n
        BY <1>2 DEF Consuming
      <4> QED BY <1>4, <2>4, <4>1 DEF HasValues, Multiplies
    <3>3. q.took = Multiplies(g, Ahead(q, q.at - 1))
      BY <2>3, <2>4
    <3> QED BY <1>4, <2>1, <2>2, <3>1, <3>2, <3>3 DEF Consuming
  <2>6. ASSUME q.at > Len(q.topology) PROVE Committing(q, g)
    <3>1. p.at = Len(p.topology)
      BY <1>1, <1>4, <2>6
    <3>2. ReachOf(g, q.roots) = Range(q.topology)
      BY <2>1, OneRoot DEF Sorted
    <3>3. q.took = Multiplies(g, ReachOf(g, q.roots))
      BY <1>2, <1>4, <2>3, <3>1, <3>2
    <3>4. q.result = "none" /\ q.given = {} /\ RootsIn(q, g)
      BY <1>4, <2>1 DEF Consuming, Sorted
    <3> QED BY <2>2, <3>3, <3>4 DEF Committing, TookAll, Settled
  <2>7. \A m \in Nodes : Owing(q.commits, m) = DueIn(g, q, m)
    BY <2>2 DEF Settled
  <2> QED BY <2>5, <2>6, <2>7
<1> QED BY <1>2, <1>3, <1>4

LEMMA Commits ==
  ASSUME NEW p \in Pass, NEW g, Sound(g), Committing(p, g), NEW q \in Pass,
         q.roots = p.roots, q.topology = p.topology, q.took = p.took, q.skipped = p.skipped
  PROVE  /\ p.commits = <<>> /\ q.result = "ok" /\ q.given = p.given => Returning(q, g)
         /\ p.commits # <<>> /\ q.result = p.result /\ q.commits = Tail(p.commits)
            /\ q.given = p.given \cup {Head(p.commits).leaf} => Committing(q, g)
<1>1. RootsIn(q, g) /\ TookAll(q, g)
  BY DEF Committing, RootsIn, TookAll
<1>2. p.commits \in Seq(Owed) /\ Single(p.commits)
  BY DEF Committing, Pass
<1>3. ASSUME p.commits = <<>>, q.result = "ok", q.given = p.given PROVE Returning(q, g)
  BY <1>1, <1>3, NoCommits DEF Committing, Returning
<1>4. ASSUME p.commits # <<>>, q.result = p.result, q.commits = Tail(p.commits),
             q.given = p.given \cup {Head(p.commits).leaf}
      PROVE  Committing(q, g)
  <2>1. /\ Single(q.commits) /\ Head(p.commits).leaf \in CommitLeaves(p.commits)
        /\ CommitLeaves(q.commits) = CommitLeaves(p.commits) \ {Head(p.commits).leaf}
    BY <1>2, <1>4, OwingTail
  <2>2. q.given \cup CommitLeaves(q.commits) = p.given \cup CommitLeaves(p.commits)
    BY <1>4, <2>1
  <2> QED BY <1>1, <1>4, <2>1, <2>2 DEF Committing
<1> QED BY <1>3, <1>4

-----------------------------------------------------------------------------
(***************************************************************************)
(* The commits of leaves that are roots themselves.                        *)
(***************************************************************************)
Rooted(c, roots, k) == roots[k].node \in ToSet(c)
AddedRoot(c, roots, k) == IF Rooted(c, roots, k) THEN c ELSE Append(c, roots[k].node)
IsFirsts(f, roots) ==
  f = [k \in 0..Len(roots) |-> IF k = 0 THEN <<>> ELSE AddedRoot(f[k - 1], roots, k)]
FirstsOf(roots) == (CHOOSE f : IsFirsts(f, roots))[Len(roots)]
Times(roots, n) == Cardinality({j \in DOMAIN roots : roots[j].node = n})
AggregatedOf(c, roots) == [i \in DOMAIN c |-> [leaf |-> c[i], gradient |-> Times(roots, c[i])]]

LEMMA AggregatedIs ==
  ASSUME NEW roots
  PROVE  Aggregated(roots) = AggregatedOf(FirstsOf(roots), roots)
BY DEF Aggregated, AggregatedOf, FirstsOf, IsFirsts, AddedRoot, Rooted, Times

LEMMA FirstsSteps ==
  ASSUME NEW roots \in Seq(Tensor)
  PROVE  \E f : /\ FirstsOf(roots) = f[Len(roots)] /\ f[0] = <<>>
                /\ \A k \in 1..Len(roots) : f[k] = AddedRoot(f[k - 1], roots, k)
<1> DEFINE N == Len(roots)
           A == Seq(Nodes)
           step == [k \in 1..N |-> [c \in A |-> AddedRoot(c, roots, k)]]
<1>1. N \in Nat /\ \A k \in 1..N : roots[k].node \in Nodes
  <2>1. \A k \in 1..N : roots[k] \in Tensor
    OBVIOUS
  <2> QED BY <2>1 DEF Tensor
<1>2. step \in Steps(N, A)
  <2>1. ASSUME NEW k \in 1..N, NEW c \in A PROVE AddedRoot(c, roots, k) \in A
    BY <1>1 DEF AddedRoot
  <2> QED BY <2>1 DEF Steps
<1>3. PICK f : Recursion(f, N, A, <<>>, step)
  <2> HIDE DEF A, step, N
  <2>1. <<>> \in A
    BY DEF A
  <2> QED BY <1>1, <1>2, <2>1, RecursionDefines
<1>4. f[0] = <<>> /\ f \in [0..N -> A] /\ \A k \in 1..N : f[k] = AddedRoot(f[k - 1], roots, k)
  <2>1. f[0] = <<>> /\ f \in [0..N -> A] /\ \A k \in 1..N : f[k] = step[k][f[k - 1]]
    BY <1>3 DEF Recursion
  <2>2. \A k \in 1..N : k - 1 \in 0..N
    BY <1>1
  <2>3. \A k \in 1..N : f[k - 1] \in A
    BY <2>1, <2>2
  <2> QED BY <2>1, <2>3
<1>5. IsFirsts(f, roots)
  <2>1. \A k \in 0..N : k = 0 \/ k \in 1..N
    BY <1>1
  <2> QED BY <1>4, <2>1 DEF IsFirsts
<1> DEFINE r == CHOOSE h : IsFirsts(h, roots)
<1>6. IsFirsts(r, roots)
  BY <1>5
<1>7. FirstsOf(roots) = r[N]
  BY DEF FirstsOf
<1> HIDE DEF r
<1>8. \A k \in 0..N : r[k] = IF k = 0 THEN <<>> ELSE AddedRoot(r[k - 1], roots, k)
  BY <1>6 DEF IsFirsts
<1>9. r[0] = <<>> /\ \A k \in 1..N : r[k] = AddedRoot(r[k - 1], roots, k)
  <2>1. 0 \in 0..N /\ \A k \in 1..N : k \in 0..N /\ k # 0
    BY <1>1
  <2> QED BY <1>8, <2>1
<1> QED BY <1>7, <1>9

LEMMA AppendedTwo == \A x, y : Append(<<x>>, y) = <<x, y>>
<1> SUFFICES ASSUME NEW x, NEW y PROVE Append(<<x>>, y) = <<x, y>>
  OBVIOUS
<1> DEFINE S == {x, y}
           c == Append(<<x>>, y)
           d == <<x, y>>
<1>1. <<x>> \in Seq(S) /\ Len(<<x>>) = 1 /\ <<x>>[1] = x /\ y \in S /\ d \in Seq(S)
  OBVIOUS
<1>2. Len(d) = 2 /\ DOMAIN d = 1..2 /\ d[1] = x /\ d[2] = y
  OBVIOUS
<1>3. Len(c) = 2 /\ DOMAIN c = 1..2 /\ c[1] = x /\ c[2] = y /\ c \in Seq(S)
  BY <1>1
<1> HIDE DEF c, d, S
<1>4. 1..2 = {1, 2}
  OBVIOUS
<1>5. c = [i \in 1..2 |-> c[i]] /\ d = [i \in 1..2 |-> d[i]]
  <2>1. c \in [1..Len(c) -> S] /\ d \in [1..Len(d) -> S]
    BY <1>1, <1>2, <1>3
  <2> QED BY <1>2, <1>3, <2>1
<1>6. \A i \in 1..2 : c[i] = d[i]
  BY <1>2, <1>3, <1>4
<1>7. c = d
  BY <1>5, <1>6
<1> QED BY <1>7 DEF c, d

\* One root, the same twice, or two.
LEMMA Firsts ==
  ASSUME NEW roots \in Seq(Tensor), Len(roots) \in {1, 2}
  PROVE  LET a == roots[1].node
             b == roots[2].node
         IN  /\ Len(roots) = 1 => FirstsOf(roots) = <<a>>
             /\ Len(roots) = 2 /\ a = b => FirstsOf(roots) = <<a>>
             /\ Len(roots) = 2 /\ a # b => FirstsOf(roots) = <<a, b>>
<1> DEFINE a == roots[1].node
           b == roots[2].node
<1>1. PICK f : /\ FirstsOf(roots) = f[Len(roots)] /\ f[0] = <<>>
               /\ \A k \in 1..Len(roots) : f[k] = AddedRoot(f[k - 1], roots, k)
  BY FirstsSteps
<1>2. f[1] = <<a>>
  <2>1. 1 \in 1..Len(roots) /\ 1 - 1 = 0
    OBVIOUS
  <2>2. f[1] = AddedRoot(<<>>, roots, 1)
    BY <1>1, <2>1
  <2>3. a \notin ToSet(<<>>)
    BY DEF ToSet
  <2>4. Append(<<>>, a) = <<a>>
    OBVIOUS
  <2> QED BY <2>2, <2>3, <2>4 DEF AddedRoot, Rooted
<1>3. Len(roots) = 2 => f[2] = IF b = a THEN <<a>> ELSE <<a, b>>
  <2> SUFFICES ASSUME Len(roots) = 2 PROVE f[2] = IF b = a THEN <<a>> ELSE <<a, b>>
    OBVIOUS
  <2>1. 2 \in 1..Len(roots) /\ 2 - 1 = 1
    OBVIOUS
  <2>2. f[2] = AddedRoot(<<a>>, roots, 2)
    BY <1>1, <1>2, <2>1
  <2>3. ToSet(<<a>>) = {a}
    BY DEF ToSet
  <2>4. Append(<<a>>, b) = <<a, b>>
    BY AppendedTwo
  <2> QED BY <2>2, <2>3, <2>4 DEF AddedRoot, Rooted
<1> QED BY <1>1, <1>2, <1>3

LEMMA TimesRoots ==
  ASSUME NEW roots \in Seq(Tensor), Len(roots) \in {1, 2}, NEW n
  PROVE  Times(roots, n) = (IF roots[1].node = n THEN 1 ELSE 0)
                           + (IF Len(roots) = 2 /\ roots[2].node = n THEN 1 ELSE 0)
<1> DEFINE set == {j \in DOMAIN roots : roots[j].node = n}
           none == {}
           first == {1}
           second == {2}
           both == {1, 2}
<1>1. Cardinality(none) = 0 /\ Cardinality(first) = 1 /\ Cardinality(second) = 1
  BY FS_EmptySet, FS_Singleton
<1>2. Cardinality(both) = 2
  <2>1. 2 \notin first /\ both = first \cup {2}
    OBVIOUS
  <2>2. IsFiniteSet(first)
    BY FS_Singleton
  <2> HIDE DEF first, both
  <2>3. Cardinality(first \cup {2}) = Cardinality(first) + 1
    BY <2>1, <2>2, FS_AddElement
  <2> DEFINE u == first \cup {2}
  <2>4. Cardinality(u) = Cardinality(first) + 1 /\ both = u
    BY <2>1, <2>3
  <2> HIDE DEF u
  <2> QED BY <1>1, <2>4
<1>3. DOMAIN roots = 1..Len(roots) /\ 1..1 = {1} /\ 1..2 = {1, 2}
  OBVIOUS
<1>4. CASE Len(roots) = 1
  <2>1. roots[1].node = n => set = first
    BY <1>3, <1>4
  <2>2. roots[1].node # n => set = none
    BY <1>3, <1>4
  <2> HIDE DEF set, none, first
  <2>3. Cardinality(set) = IF roots[1].node = n THEN 1 ELSE 0
    BY <1>1, <2>1, <2>2
  <2> QED BY <1>4, <2>3 DEF Times, set
<1>5. CASE Len(roots) = 2
  <2>1. /\ roots[1].node = n /\ roots[2].node = n => set = both
        /\ roots[1].node = n /\ roots[2].node # n => set = first
        /\ roots[1].node # n /\ roots[2].node = n => set = second
        /\ roots[1].node # n /\ roots[2].node # n => set = none
    BY <1>3, <1>5
  <2> HIDE DEF set, none, first, second, both
  <2>2. Cardinality(set) = (IF roots[1].node = n THEN 1 ELSE 0) + (IF roots[2].node = n THEN 1 ELSE 0)
    BY <1>1, <1>2, <2>1
  <2> QED BY <1>5, <2>2 DEF Times, set
<1> QED BY <1>4, <1>5

\* What a leaf is due as a root is the times it is one.
LEMMA DueOfRoots ==
  ASSUME NEW p \in Pass, NEW g, Sound(g), RootsIn(p, g), p.skipped = {},
         \A i \in DOMAIN p.roots : Leaf(g, p.roots[i].node) /\ p.roots[i].output = 0,
         NEW leaf \in Nodes
  PROVE  DueIn(g, p, leaf) = Times(p.roots, leaf)
<1> DEFINE w == [i \in DOMAIN p.roots |-> SlopeAt(g, leaf, p.roots[i])]
           a == p.roots[1].node
           b == p.roots[2].node
<1>1. /\ p.roots \in Seq(Tensor) /\ Len(p.roots) \in {1, 2}
      /\ DOMAIN p.roots = 1..Len(p.roots) /\ 1..1 = {1} /\ 1..2 = {1, 2}
  BY DEF Pass, RootsIn
<1>2. \A i \in DOMAIN p.roots : w[i] = IF p.roots[i].node = leaf THEN 1 ELSE 0
  <2> SUFFICES ASSUME NEW i \in DOMAIN p.roots
               PROVE  SlopeAt(g, leaf, p.roots[i]) = IF p.roots[i].node = leaf THEN 1 ELSE 0
    OBVIOUS
  <2>1. /\ p.roots[i].node \in Nodes /\ p.roots[i].output = 0 /\ 0 \in Outputs
        /\ Leaf(g, p.roots[i].node)
    <3>1. p.roots[i] \in Tensor
      BY <1>1
    <3> QED BY <3>1 DEF Tensor, Outputs
  <2>2. DOMAIN g[p.roots[i].node].edges = {}
    BY <2>1 DEF Sound, SoundNode, Leaf
  <2>3. p.roots[i].node # leaf => SlopeIn(g, leaf)[p.roots[i].node][0] = 0
    BY <2>1, <2>2, SlopeSteps
  <2>4. p.roots[i].node = leaf => SlopeIn(g, leaf)[p.roots[i].node][0] = 1
    BY <2>1, SlopeSteps
  <2> QED BY <2>1, <2>3, <2>4 DEF SlopeAt
<1>3. \A n : Times(p.roots, n) = (IF a = n THEN 1 ELSE 0) + (IF Len(p.roots) = 2 /\ b = n THEN 1 ELSE 0)
  BY <1>1, TimesRoots
<1>4. DOMAIN w = DOMAIN p.roots
  OBVIOUS
<1>5. CASE ~Leaf(g, leaf)
  <2>1. DueIn(g, p, leaf) = 0
    BY <1>5 DEF DueIn
  <2>2. a # leaf /\ (Len(p.roots) = 2 => b # leaf)
    BY <1>1, <1>5
  <2> QED BY <1>3, <2>1, <2>2
<1>6. CASE Leaf(g, leaf)
  <2>1. DueIn(g, p, leaf) = SumFunction(w)
    BY <1>6 DEF DueIn
  <2> HIDE DEF w
  <2>2. CASE Len(p.roots) = 1
    <3>1. DOMAIN w = {1} /\ w[1] = (IF a = leaf THEN 1 ELSE 0)
      BY <1>1, <1>2, <1>4, <2>2
    <3>2. SumFunction(w) = w[1]
      BY <3>1, SummedFew
    <3> QED BY <1>3, <2>1, <2>2, <3>1, <3>2
  <2>3. CASE Len(p.roots) = 2
    <3>1. DOMAIN w = {1, 2} /\ w[1] = (IF a = leaf THEN 1 ELSE 0) /\ w[2] = (IF b = leaf THEN 1 ELSE 0)
      BY <1>1, <1>2, <1>4, <2>3
    <3>2. w[1] \in Int /\ w[2] \in Int /\ 1 # 2
      BY <3>1
    <3>3. SumFunction(w) = w[1] + w[2]
      BY <3>1, <3>2, SummedFew
    <3> QED BY <1>3, <2>1, <2>3, <3>1, <3>3
  <2> QED BY <1>1, <2>2, <2>3
<1> QED BY <1>5, <1>6

LEMMA AggregatedOwed ==
  ASSUME NEW p \in Pass, NEW g, RootsIn(p, g)
  PROVE  Aggregated(p.roots) \in Seq(Owed)
<1> DEFINE c == FirstsOf(p.roots)
           a == p.roots[1].node
           b == p.roots[2].node
<1>1. p.roots \in Seq(Tensor) /\ Len(p.roots) \in {1, 2}
  BY DEF Pass, RootsIn
<1>2. a \in Nodes /\ (Len(p.roots) = 2 => b \in Nodes)
  <2>1. p.roots[1] \in Tensor /\ (Len(p.roots) = 2 => p.roots[2] \in Tensor)
    BY <1>1
  <2> QED BY <2>1 DEF Tensor
<1>3. \/ c = <<a>>
      \/ c = <<a, b>> /\ b \in Nodes
  BY <1>1, <1>2, Firsts
<1> HIDE DEF c
<1>4. \E l \in {1, 2} : DOMAIN c = 1..l /\ \A i \in 1..l : c[i] \in Nodes
  <2>1. CASE c = <<a>>
    BY <1>2, <2>1
  <2>2. CASE c = <<a, b>> /\ b \in Nodes
    <3>1. 1..2 = {1, 2} /\ DOMAIN c = 1..2 /\ c[1] = a /\ c[2] = b
      BY <2>2
    <3> QED BY <1>2, <2>2, <3>1
  <2> QED BY <1>3, <2>1, <2>2
<1>5. \A n : Times(p.roots, n) \in Int
  <2>1. \A n : Times(p.roots, n) = (IF a = n THEN 1 ELSE 0) + (IF Len(p.roots) = 2 /\ b = n THEN 1 ELSE 0)
    BY <1>1, TimesRoots
  <2> QED BY <2>1
<1>6. PICK l \in {1, 2} : DOMAIN c = 1..l /\ \A i \in 1..l : c[i] \in Nodes
  BY <1>4
<1> DEFINE d == AggregatedOf(c, p.roots)
<1>7. d = [i \in 1..l |-> d[i]] /\ \A i \in 1..l : d[i] \in Owed
  BY <1>5, <1>6 DEF AggregatedOf, Owed
<1> HIDE DEF d
<1>8. d \in Seq(Owed)
  BY <1>7
<1> QED BY <1>1, <1>8, AggregatedIs DEF d, c

LEMMA RootsCommit ==
  ASSUME NEW p \in Pass, NEW g, Sound(g), AtLeaves(p, g),
         \A i \in DOMAIN p.roots : Leaf(g, p.roots[i].node),
         NEW q \in Pass, q = [p EXCEPT !.commits = Aggregated(p.roots)]
  PROVE  Committing(q, g) /\ \A n \in Nodes : Owing(q.commits, n) = DueIn(g, q, n)
<1> DEFINE c == FirstsOf(p.roots)
           a == p.roots[1].node
           b == p.roots[2].node
<1>1. /\ q.roots = p.roots /\ q.skipped = {} /\ q.given = {} /\ q.took = {} /\ q.result = "none"
      /\ q.topology = <<>> /\ q.commits = AggregatedOf(c, p.roots)
  BY AggregatedIs DEF AtLeaves, AtRest, NoPass, Pass
<1>2. /\ p.roots \in Seq(Tensor) /\ Len(p.roots) \in {1, 2}
      /\ DOMAIN p.roots = 1..Len(p.roots) /\ 1..1 = {1} /\ 1..2 = {1, 2}
      /\ RootsIn(q, g)
  BY <1>1 DEF Pass, RootsIn, AtLeaves
<1>3. \A n \in Nodes : DueIn(g, q, n) = Times(p.roots, n)
  <2>1. \A i \in DOMAIN q.roots : Leaf(g, q.roots[i].node) /\ q.roots[i].output = 0
    BY <1>1 DEF AtLeaves
  <2> QED BY <1>1, <1>2, <2>1, DueOfRoots
<1>4. IsInjective(c) /\ Range(c) = {p.roots[i].node : i \in DOMAIN p.roots}
  <2>1. /\ Len(p.roots) = 1 => c = <<a>>
        /\ Len(p.roots) = 2 /\ a = b => c = <<a>>
        /\ Len(p.roots) = 2 /\ a # b => c = <<a, b>>
    BY <1>2, Firsts
  <2> HIDE DEF c
  <2>2. IsInjective(<<a>>) /\ Range(<<a>>) = {a}
    BY DEF IsInjective, Range
  <2>3. a # b => IsInjective(<<a, b>>) /\ Range(<<a, b>>) = {a, b}
    <3> DEFINE d == <<a, b>>
    <3>1. DOMAIN d = {1, 2} /\ d[1] = a /\ d[2] = b
      OBVIOUS
    <3> HIDE DEF d
    <3>2. a # b => IsInjective(d) /\ Range(d) = {a, b}
      BY <3>1 DEF IsInjective, Range
    <3> QED BY <3>2 DEF d
  <2>4. CASE Len(p.roots) = 1
    <3>1. {p.roots[i].node : i \in DOMAIN p.roots} = {a}
      BY <1>2, <2>4
    <3> QED BY <2>1, <2>2, <2>4, <3>1
  <2>5. CASE Len(p.roots) = 2
    <3>1. {p.roots[i].node : i \in DOMAIN p.roots} = {a, b}
      BY <1>2, <2>5
    <3>2. CASE a = b
      BY <2>1, <2>2, <2>5, <3>1, <3>2
    <3>3. CASE a # b
      BY <2>1, <2>3, <2>5, <3>1, <3>3
    <3> QED BY <3>2, <3>3
  <2> QED BY <1>2, <2>4, <2>5
<1> HIDE DEF c
<1>5. /\ DOMAIN q.commits = DOMAIN c
      /\ \A k \in DOMAIN c : q.commits[k].leaf = c[k] /\ q.commits[k].gradient = Times(p.roots, c[k])
  BY <1>1 DEF AggregatedOf
<1>6. Single(q.commits)
  BY <1>4, <1>5 DEF Single, IsInjective
<1>7. CommitLeaves(q.commits) = {p.roots[i].node : i \in DOMAIN p.roots}
  BY <1>4, <1>5 DEF CommitLeaves, Range
<1>8. q.commits \in Seq(Owed)
  BY DEF Pass
<1>9. ASSUME NEW n \in Nodes PROVE Owing(q.commits, n) = DueIn(g, q, n)
  <2>1. CASE n \in CommitLeaves(q.commits)
    <3>1. PICK k \in DOMAIN q.commits : q.commits[k].leaf = n
      BY <2>1 DEF CommitLeaves
    <3>2. Owing(q.commits, n) = q.commits[k].gradient
      BY <1>6, <1>8, <3>1, OwingOf
    <3> QED BY <1>3, <1>5, <3>1, <3>2
  <2>2. CASE n \notin CommitLeaves(q.commits)
    <3>1. a # n /\ (Len(p.roots) = 2 => b # n)
      BY <1>2, <1>7, <2>2
    <3>2. Times(p.roots, n) = 0
      <4>1. Times(p.roots, n) = (IF a = n THEN 1 ELSE 0) + (IF Len(p.roots) = 2 /\ b = n THEN 1 ELSE 0)
        BY <1>2, TimesRoots
      <4> QED BY <3>1, <4>1
    <3> QED BY <1>3, <1>6, <1>8, <2>2, <3>2, OwingOf
  <2> QED BY <2>1, <2>2
<1>10. Leaves(g, ReachOf(g, q.roots)) = {p.roots[i].node : i \in DOMAIN p.roots}
  <2>1. ASSUME NEW i \in DOMAIN p.roots PROVE ReachIn(g)[p.roots[i].node] = {p.roots[i].node}
    <3>1. p.roots[i].node \in Nodes
      <4>1. p.roots[i] \in Tensor
        BY <1>2
      <4> QED BY <4>1 DEF Tensor
    <3>2. Inputs(g, p.roots[i].node) = {}
      BY <3>1 DEF Sound, SoundNode, Leaf, Inputs
    <3> QED BY <3>1, <3>2, ReachSteps
  <2>2. ReachOf(g, q.roots) = {p.roots[i].node : i \in DOMAIN p.roots}
    BY <1>1, <2>1 DEF ReachOf
  <2> QED BY <2>2 DEF Leaves
<1> QED BY <1>1, <1>2, <1>6, <1>7, <1>9, <1>10 DEF Committing, TookAll

-----------------------------------------------------------------------------
(***************************************************************************)
(* Nodes that other threads record do not matter to a call.                *)
(***************************************************************************)
LEMMA KindsKept ==
  ASSUME NEW g, Sound(g), NEW h, Sound(h), Extends(g, h), NEW set, set \subseteq Known(g)
  PROVE  /\ Leaves(h, set) = Leaves(g, set) /\ Multiplies(h, set) = Multiplies(g, set)
         /\ \A s, r : s \subseteq r => \A n \in set : HasValues(g, s, n) => HasValues(h, r, n)
         /\ \A x : TensorIn(g, x) => TensorIn(h, x)
BY DEF Extends, Leaves, Leaf, Multiplies, HasValues, TensorIn, OutputsIn

LEMMA RootsKept ==
  ASSUME NEW g, Sound(g), NEW h, Sound(h), Extends(g, h), NEW p \in Pass, RootsIn(p, g)
  PROVE  /\ RootsIn(p, h)
         /\ ReachOf(h, p.roots) = ReachOf(g, p.roots) /\ ReachOf(g, p.roots) \subseteq Known(g)
         /\ \A i \in DOMAIN p.roots : p.roots[i].node \in Known(g) /\ p.roots[i] \in Tensor
<1>1. RootsIn(p, h)
  BY KindsKept DEF RootsIn
<1>2. \A i \in DOMAIN p.roots : p.roots[i].node \in Known(g) /\ p.roots[i] \in Tensor
  BY DEF RootsIn, TensorIn
<1>3. \A i \in DOMAIN p.roots :
        /\ ReachIn(h)[p.roots[i].node] = ReachIn(g)[p.roots[i].node]
        /\ ReachIn(g)[p.roots[i].node] \subseteq Known(g)
  BY <1>2, ReachKept
<1>4. ReachOf(h, p.roots) = ReachOf(g, p.roots) /\ ReachOf(g, p.roots) \subseteq Known(g)
  BY <1>3 DEF ReachOf
<1> QED BY <1>1, <1>2, <1>4

LEMMA DueKept ==
  ASSUME NEW g, Sound(g), NEW h, Sound(h), Extends(g, h), NEW p \in Pass, RootsIn(p, g),
         NEW leaf \in Nodes
  PROVE  DueIn(h, p, leaf) = DueIn(g, p, leaf)
<1> DEFINE w == [i \in DOMAIN p.roots |-> SlopeAt(g, leaf, p.roots[i])]
           v == [i \in DOMAIN p.roots |-> SlopeAt(h, leaf, p.roots[i])]
<1>1. \A i \in DOMAIN p.roots : p.roots[i].node \in Known(g) /\ p.roots[i] \in Tensor
  BY RootsKept
<1>2. CASE leaf \in Known(g)
  <2>1. Leaf(h, leaf) <=> Leaf(g, leaf)
    BY <1>2 DEF Extends, Leaf
  <2>2. \A i \in DOMAIN p.roots : SlopeAt(h, leaf, p.roots[i]) = SlopeAt(g, leaf, p.roots[i])
    BY <1>1, SlopeKept DEF SlopeAt
  <2>3. v = w
    BY <2>2
  <2> QED BY <2>1, <2>3 DEF DueIn
<1>3. CASE leaf \notin Known(g)
  <2>1. DueIn(g, p, leaf) = 0
    BY <1>3 DEF DueIn, Leaf, Known
  <2>2. ASSUME NEW i \in DOMAIN p.roots PROVE v[i] = 0
    <3>1. p.roots[i].node \in Known(g) /\ p.roots[i].node \in Nodes /\ p.roots[i].output \in Outputs
      BY <1>1 DEF Tensor
    <3>2. 1..p.roots[i].node \subseteq Known(g)
      BY <3>1 DEF Sound
    <3>3. p.roots[i].node \in 1..(leaf - 1)
      BY <1>3, <3>1, <3>2, BackwardConstants DEF Nodes
    <3> QED BY <3>1, <3>3, SlopeOfLater DEF SlopeAt
  <2>3. DOMAIN v = 1..Len(p.roots) /\ Len(p.roots) \in Nat
    BY DEF Pass
  <2> HIDE DEF v
  <2>4. SumFunction(v) = 0
    <3>1. IsFiniteSet(1..Len(p.roots))
      BY <2>3, FS_Interval
    <3>2. \A i \in DOMAIN v : v[i] = 0
      BY <2>2 DEF v
    <3> QED BY <2>3, <3>1, <3>2, SummedFunction, SumZero
  <2>5. DueIn(h, p, leaf) = 0
    BY <2>4 DEF DueIn, v
  <2> QED BY <2>1, <2>5
<1> QED BY <1>2, <1>3

LEMMA AppliedKept ==
  ASSUME NEW g, Sound(g), NEW h, Sound(h), Extends(g, h), NEW p \in Pass,
         Sorted(p, g), NEW at, Applied(p, g, at)
  PROVE  Sorted(p, h) /\ Applied(p, h, at)
<1>1. RootsIn(p, g) /\ RootsIn(p, h) /\ Len(p.roots) = 1
  BY RootsKept DEF Sorted
<1>2. /\ ReachIn(h)[Root(p).node] = ReachIn(g)[Root(p).node]
      /\ ReachIn(g)[Root(p).node] \subseteq Known(g)
      /\ Root(p).node \in Known(g) /\ Root(p) \in Tensor
  BY <1>1, RootIn, ReachKept
<1>3. \A n \in Known(g) : h[n] = g[n] /\ Inputs(h, n) = Inputs(g, n)
  BY DEF Extends, Inputs
<1>4. Range(p.topology) \subseteq Known(g) /\ Behind(p, at) \subseteq Known(g)
  BY <1>2 DEF Sorted, Behind
<1>5. Ordered(p.topology, h)
  <2>1. \A k \in DOMAIN p.topology : p.topology[k] \in Known(g)
    BY <1>4 DEF Range
  <2> QED BY <1>3, <2>1 DEF Sorted, Ordered
<1>6. Sorted(p, h)
  BY <1>1, <1>2, <1>5 DEF Sorted
<1>7. Leaves(h, Behind(p, at)) = Leaves(g, Behind(p, at))
  BY <1>4, KindsKept
<1>8. /\ Wellformed(p.gradients, h)
      /\ \A leaf \in Nodes : Flow(p.gradients, h, leaf) = Flow(p.gradients, g, leaf)
  BY FlowKept DEF Applied
<1>9. Balanced(p, h)
  <2> SUFFICES ASSUME NEW leaf \in Nodes \ p.skipped, h[leaf].kind \in {"leaf", "absent"}
               PROVE  Flow(p.gradients, h, leaf) + Owing(p.commits, leaf) = SlopeAt(h, leaf, Root(p))
    BY DEF Balanced
  <2>1. g[leaf].kind \in {"leaf", "absent"}
    BY DEF Extends, Known
  <2>2. Flow(p.gradients, g, leaf) + Owing(p.commits, leaf) = SlopeAt(g, leaf, Root(p))
    BY <2>1 DEF Applied, Balanced
  <2>3. SlopeAt(h, leaf, Root(p)) = SlopeAt(g, leaf, Root(p))
    BY <1>2, SlopeKept DEF SlopeAt
  <2> QED BY <1>8, <2>2, <2>3
<1>10. \A n \in Behind(p, at) : \A i \in DOMAIN h[n].edges :
         h[n].edges[i].node \in Ahead(p, at) => p.gradients[h[n].edges[i]] # None
  BY <1>3, <1>4 DEF Applied
<1> QED BY <1>6, <1>7, <1>8, <1>9, <1>10 DEF Applied

LEMMA StageKept ==
  ASSUME NEW g, Sound(g), NEW h, Sound(h), Extends(g, h), NEW p \in Pass,
         NEW s, NEW r, NEW label, Stage(p, g, s, label),
         s \subseteq r \/ label \in {"idle", "lock", "lock_leaves"}
  PROVE  Stage(p, h, r, label)
<1>1. label = "idle" => p = NoPass
  BY DEF Stage
<1>2. ASSUME label = "lock" PROVE AtLock(p, h)
  BY <1>2, RootsKept DEF Stage, AtLock
<1>3. ASSUME label = "lock_leaves" PROVE AtLeaves(p, h)
  BY <1>3, RootsKept DEF Stage, AtLeaves
<1>4. ASSUME label = "collect" PROVE Collecting(p, h, r)
  <2>1. Collecting(p, g, s) /\ s \subseteq r
    BY <1>4 DEF Stage
  <2>2. RootsIn(p, h) /\ Root(p).node \in Known(g) /\ Root(p).node \in Nodes
    BY <2>1, RootsKept, RootIn DEF Collecting
  <2>3. Searching(Root(p).node, p.stack, p.seen, p.topology, h)
    BY <2>1, <2>2, SearchKept DEF Collecting
  <2>4. p.seen \subseteq Known(g)
    <3>1. ReachIn(g)[Root(p).node] \subseteq Known(g)
      BY <2>2, ReachKept DEF Extends
    <3>2. Searching(Root(p).node, p.stack, p.seen, p.topology, g)
      BY <2>1 DEF Collecting
    <3> QED BY <3>1, <3>2 DEF Searching, Within, Exits
  <2>5. \A n \in p.seen : HasValues(h, r, n)
    BY <2>1, <2>4, KindsKept DEF Collecting
  <2> QED BY <2>1, <2>2, <2>3, <2>5 DEF Collecting
<1>5. ASSUME label = "apply" PROVE Applying(p, h, r)
  <2>1. Applying(p, g, s) /\ s \subseteq r
    BY <1>5 DEF Stage
  <2>2. Sorted(p, h) /\ Applied(p, h, p.at)
    BY <2>1, AppliedKept DEF Applying
  <2>3. Range(p.topology) \subseteq Known(g)
    BY <2>1, RootIn, ReachKept DEF Applying, Sorted
  <2>4. \A n \in Range(p.topology) : HasValues(h, r, n)
    BY <2>1, <2>3, KindsKept DEF Applying
  <2> QED BY <2>1, <2>2, <2>4 DEF Applying
<1>6. ASSUME label = "consume" PROVE Consuming(p, h, r)
  <2>1. Consuming(p, g, s) /\ s \subseteq r
    BY <1>6 DEF Stage
  <2>2. Sorted(p, g) /\ RootsIn(p, g) /\ Len(p.roots) = 1
    BY <2>1 DEF Consuming, Sorted
  <2>3. /\ RootsIn(p, h) /\ ReachOf(h, p.roots) = ReachOf(g, p.roots)
        /\ ReachOf(g, p.roots) \subseteq Known(g)
    BY <2>2, RootsKept
  <2>4. /\ ReachIn(h)[Root(p).node] = ReachIn(g)[Root(p).node]
        /\ ReachIn(g)[Root(p).node] \subseteq Known(g)
    BY <2>2, RootIn, ReachKept
  <2>5. Range(p.topology) \subseteq Known(g)
    BY <2>2, <2>4 DEF Sorted
  <2>6. \A n \in Known(g) : Inputs(h, n) = Inputs(g, n)
    BY DEF Extends, Inputs
  <2>7. Ordered(p.topology, h)
    <3>1. \A k \in DOMAIN p.topology : p.topology[k] \in Known(g)
      BY <2>5 DEF Range
    <3> QED BY <2>2, <2>6, <3>1 DEF Sorted, Ordered
  <2>8. Sorted(p, h)
    BY <2>2, <2>3, <2>4, <2>7 DEF Sorted
  <2>9. Settled(p, h)
    <3>1. Leaves(h, ReachOf(g, p.roots)) = Leaves(g, ReachOf(g, p.roots))
      BY <2>3, KindsKept
    <3>2. \A leaf \in Nodes : DueIn(h, p, leaf) = DueIn(g, p, leaf)
      BY <2>2, DueKept
    <3> QED BY <2>1, <2>3, <3>1, <3>2 DEF Consuming, Settled
  <2>10. \A k \in Nat : k <= Len(p.topology) => Ahead(p, k) \subseteq Known(g) /\ Behind(p, k) \subseteq Known(g)
    <3>1. p.topology \in Seq(Nodes) /\ DOMAIN p.topology = 1..Len(p.topology) /\ Len(p.topology) \in Nat
      BY DEF Pass
    <3>2. \A k \in Nat : k <= Len(p.topology) => \A j \in 1..k : j \in DOMAIN p.topology
      BY <3>1
    <3> QED BY <2>5, <3>2 DEF Ahead, Behind, Range
  <2>11. p.at - 1 \in Nat /\ p.at - 1 <= Len(p.topology)
    BY <2>1 DEF Consuming, Pass
  <2>12. Multiplies(h, Ahead(p, p.at - 1)) = Multiplies(g, Ahead(p, p.at - 1))
    BY <2>10, <2>11, KindsKept
  <2>13. \A n \in Behind(p, p.at - 1) : HasValues(h, r, n)
    BY <2>1, <2>10, <2>11, KindsKept DEF Consuming
  <2> QED BY <2>1, <2>8, <2>9, <2>12, <2>13 DEF Consuming
<1>7. ASSUME label \in {"commit", "return"} PROVE label = "commit" => Committing(p, h)
  <2> SUFFICES ASSUME label = "commit" PROVE Committing(p, h)
    OBVIOUS
  <2>1. Committing(p, g) /\ RootsIn(p, g)
    BY DEF Stage, Committing
  <2>2. /\ RootsIn(p, h) /\ ReachOf(h, p.roots) = ReachOf(g, p.roots)
        /\ ReachOf(g, p.roots) \subseteq Known(g)
    BY <2>1, RootsKept
  <2>3. /\ Leaves(h, ReachOf(g, p.roots)) = Leaves(g, ReachOf(g, p.roots))
        /\ Multiplies(h, ReachOf(g, p.roots)) = Multiplies(g, ReachOf(g, p.roots))
    BY <2>2, KindsKept
  <2> QED BY <2>1, <2>2, <2>3 DEF Committing, TookAll
<1>8. ASSUME label = "return" PROVE Returning(p, h)
  <2>1. Returning(p, g) /\ RootsIn(p, g)
    BY <1>8 DEF Stage, Returning
  <2>2. /\ RootsIn(p, h) /\ ReachOf(h, p.roots) = ReachOf(g, p.roots)
        /\ ReachOf(g, p.roots) \subseteq Known(g)
    BY <2>1, RootsKept
  <2>3. /\ Leaves(h, ReachOf(g, p.roots)) = Leaves(g, ReachOf(g, p.roots))
        /\ Multiplies(h, ReachOf(g, p.roots)) = Multiplies(g, ReachOf(g, p.roots))
    BY <2>2, KindsKept
  <2> QED BY <2>1, <2>2, <2>3 DEF Returning, TookAll
<1> QED BY <1>1, <1>2, <1>3, <1>4, <1>5, <1>6, <1>7, <1>8 DEF Stage

-----------------------------------------------------------------------------
(***************************************************************************)
(* The operators of Backward are those above.                              *)
(***************************************************************************)
LEMMA ReachIs == \A t \in Threads : Reach(t) = ReachOf(graph, pass[t].roots)
BY DEF Reach, ReachOf, ReachIn, IsReach, ReachFrom

LEMMA DueIs == \A t \in Threads : \A n : Due(t, n) = DueIn(graph, pass[t], n)
<1>1. ASSUME NEW n PROVE Slope(n) = SlopeIn(graph, n)
  BY DEF Slope, SlopeIn, IsSlope, SlopeFrom, Terms
<1> QED BY <1>1 DEF Due, DueIn, SlopeAt, IsLeaf, Leaf

LEMMA PropagatedIs == \A gr, n : Propagated(gr, n) = PropagatedIn(graph, gr, n)
BY DEF Propagated, PropagatedIn, Into, ThroughIn, ArrivedIn, Arrived, Out, OutputsOf, OutputsIn

LEMMA FramesIs == \A n : FramesOf(n) = FramesIn(graph, n)
BY DEF FramesOf, FramesIn, EnterFrames

LEMMA ArrivedIs == \A gr, n : Arrived(gr, n) = ArrivedIn(graph, gr, n)
BY DEF ArrivedIn, Arrived, Out, OutputsOf, OutputsIn

LEMMA DifferentiableIn == \A x \in Differentiable : TensorIn(graph, x)
BY DEF Differentiable, RequiresGrad, Recorded, TensorIn, Known, OutputsOf, OutputsIn

LEMMA DueInt ==
  ASSUME NEW g, Sound(g), NEW p \in Pass, NEW leaf \in Nodes
  PROVE  DueIn(g, p, leaf) \in Int
<1> DEFINE v == [i \in DOMAIN p.roots |-> SlopeAt(g, leaf, p.roots[i])]
<1>1. DOMAIN v = 1..Len(p.roots) /\ Len(p.roots) \in Nat /\ p.roots \in Seq(Tensor)
  BY DEF Pass
<1>2. \A i \in DOMAIN v : v[i] \in Int
  <2>1. NoGradients \in Gradients
    BY DEF NoGradients, Gradients
  <2>2. \A i \in DOMAIN v : p.roots[i] \in Tensor
    BY <1>1
  <2> QED BY <2>1, <2>2, WeightsInt
<1> HIDE DEF v
<1>3. SumFunction(v) \in Int
  <2>1. IsFiniteSet(DOMAIN v)
    BY <1>1, FS_Interval
  <2> QED BY <1>2, <2>1, SummedFunction, SumInt
<1> QED BY <1>3 DEF DueIn, v

-----------------------------------------------------------------------------
(***************************************************************************)
(* The steps of a thread outside, and those of one that has the lock.      *)
(***************************************************************************)
LEMMA OutsideStep ==
  ASSUME PassInv, NEW t \in Threads, Types',
         pc[t] = "idle", pc'[t] \in Labels \ Inside,
         \A u \in Threads \ {t} : pc'[u] = pc[u] /\ pass'[u] = pass[u],
         UNCHANGED <<grad, holder, owed, spent>>,
         Extends(graph, graph'), saved \subseteq saved',
         \A n \in Known(graph') \ Known(graph) : HasValues(graph', saved', n),
         Stage(pass'[t], graph', saved', pc'[t])
  PROVE  PassInv'
<1>1. Sound(graph) /\ Sound(graph') /\ \A u \in Threads : pass[u] \in Pass /\ pc[u] \in Labels
  BY DEF PassInv, Types
<1>2. pc[t] \notin Inside /\ pc'[t] \notin Inside /\ holder # t
  BY DEF Inside, Labels, PassInv, Locked
<1>3. Locked'
  BY <1>2 DEF PassInv, Locked
<1>4. Staged'
  <2>1. ASSUME NEW u \in Threads \ {t} PROVE Stage(pass'[u], graph', saved', pc'[u])
    <3>1. Stage(pass[u], graph, saved, pc[u])
      BY DEF PassInv, Staged
    <3>2. Stage(pass[u], graph', saved', pc[u])
      BY <1>1, <3>1, StageKept
    <3> QED BY <3>2
  <2> QED BY <2>1 DEF Staged
<1>5. pass[t] = NoPass
  BY DEF PassInv, Staged, Stage
<1>6. Values'
  <2> SUFFICES ASSUME NEW n \in Known(graph'), graph'[n].kind = "multiply"
               PROVE  n \in saved' \/ n \in spent \/ \E u \in Threads : n \in pass'[u].took
    BY DEF Values
  <2>1. CASE n \notin Known(graph)
    BY <2>1 DEF HasValues
  <2>2. CASE n \in Known(graph)
    <3>1. graph[n].kind = "multiply"
      BY <2>2 DEF Extends
    <3>2. n \in saved \/ n \in spent \/ \E u \in Threads : n \in pass[u].took
      BY <2>2, <3>1 DEF PassInv, Values
    <3>3. pass[t].took = {}
      BY <1>5 DEF NoPass
    <3> QED BY <3>2, <3>3
  <2> QED BY <2>1, <2>2
<1>7. ASSUME NEW u \in Threads \ {t}, pc[u] \in {"commit", "return"}
      PROVE  RootsIn(pass[u], graph)
  <2>1. Stage(pass[u], graph, saved, pc[u])
    BY DEF PassInv, Staged
  <2> QED BY <1>7, <2>1 DEF Stage, Committing, Returning
<1>8. Freed'
  <2> SUFFICES ASSUME NEW u \in Threads, pc'[u] = "return", pass'[u].result = "freed"
               PROVE  ReachOf(graph', pass'[u].roots) \cap spent # {}
    BY DEF Freed
  <2>1. u # t
    BY <1>2 DEF Inside, Labels
  <2>2. pc[u] = "return" /\ pass[u] = pass'[u] /\ RootsIn(pass[u], graph)
    BY <1>7, <2>1
  <2>3. ReachOf(graph', pass[u].roots) = ReachOf(graph, pass[u].roots)
    BY <1>1, <2>2, RootsKept
  <2> QED BY <2>2, <2>3 DEF PassInv, Freed
<1>9. Ledger'
  <2>1. ASSUME NEW u \in Threads, holder = u, NEW n \in Nodes
        PROVE  grad[n] = owed[n] + Missing(pass'[u], graph', pc'[u], n)
    <3>1. u # t /\ pc'[u] = pc[u] /\ pass'[u] = pass[u]
      BY <1>2, <2>1
    <3>2. pc[u] \in {"commit", "return"} => DueIn(graph', pass[u], n) = DueIn(graph, pass[u], n)
      BY <1>1, <1>7, <3>1, DueKept
    <3>3. Missing(pass'[u], graph', pc'[u], n) = Missing(pass[u], graph, pc[u], n)
      BY <3>1, <3>2 DEF Missing
    <3> QED BY <2>1, <3>3 DEF PassInv, Ledger
  <2> QED BY <2>1 DEF PassInv, Ledger
<1> QED BY <1>3, <1>4, <1>6, <1>8, <1>9 DEF PassInv

LEMMA InsideStep ==
  ASSUME PassInv, NEW t \in Threads, Types',
         holder = t \/ holder = None, holder' = t, pc'[t] \in Inside,
         \A u \in Threads \ {t} : pc'[u] = pc[u] /\ pass'[u] = pass[u],
         UNCHANGED <<graph, owed, spent>>,
         \A n \in saved \cup pass[t].took : n \in saved' \/ n \in pass'[t].took,
         Stage(pass'[t], graph, saved', pc'[t]),
         pc'[t] = "return" /\ pass'[t].result = "freed" =>
           ReachOf(graph, pass'[t].roots) \cap spent # {},
         \A n \in Nodes : grad'[n] = owed[n] + Missing(pass'[t], graph, pc'[t], n)
  PROVE  PassInv'
<1>1. Sound(graph) /\ \A u \in Threads : pass[u] \in Pass /\ pc[u] \in Labels
  BY DEF PassInv, Types
<1>2. \A u \in Threads \ {t} : pc[u] \notin Inside
  BY BackwardConstants DEF PassInv, Locked
<1>3. t # None
  BY BackwardConstants
<1>4. Locked'
  BY <1>2 DEF PassInv, Locked
<1>5. Staged'
  <2>1. ASSUME NEW u \in Threads \ {t} PROVE Stage(pass'[u], graph, saved', pc'[u])
    <3>1. Stage(pass[u], graph, saved, pc[u])
      BY DEF PassInv, Staged
    <3>2. pc[u] \in {"idle", "lock", "lock_leaves"}
      BY <1>1, <1>2 DEF Inside
    <3>3. Extends(graph, graph)
      BY DEF Extends
    <3>4. Stage(pass[u], graph, saved', pc[u])
      BY <1>1, <3>1, <3>2, <3>3, StageKept
    <3> QED BY <3>4
  <2> QED BY <2>1 DEF Staged
<1>6. Values'
  <2> SUFFICES ASSUME NEW n \in Known(graph), graph[n].kind = "multiply"
               PROVE  n \in saved' \/ n \in spent \/ \E u \in Threads : n \in pass'[u].took
    BY DEF Values
  <2>1. n \in saved \/ n \in spent \/ \E u \in Threads : n \in pass[u].took
    BY DEF PassInv, Values
  <2>2. CASE n \in saved \cup pass[t].took
    BY <2>2
  <2>3. CASE n \in spent
    BY <2>3
  <2>4. ASSUME NEW u \in Threads \ {t}, n \in pass[u].took PROVE n \in pass'[u].took
    BY <2>4
  <2> QED BY <2>1, <2>2, <2>3, <2>4
<1>7. Freed'
  <2>1. ASSUME NEW u \in Threads \ {t} PROVE pc'[u] # "return"
    BY <1>2 DEF Inside, Labels
  <2> QED BY <2>1 DEF Freed
<1>8. Ledger'
  BY <1>3 DEF Ledger
<1> QED BY <1>4, <1>5, <1>6, <1>7, <1>8 DEF PassInv

-----------------------------------------------------------------------------
(***************************************************************************)
(* The steps of Next.                                                      *)
(***************************************************************************)
LEMMA Grown ==
  ASSUME NEW g, Sound(g), NEW n \in Nodes \ Known(g), 1..(n - 1) \subseteq Known(g),
         NEW edges \in Seq({x \in Tensor : TensorIn(g, x)}), Len(edges) <= 2,
         NEW node, node.edges = edges, node.kind \in AllKinds \ {"absent"},
         node.kind = "leaf" => edges = <<>>
  PROVE  LET h == [g EXCEPT ![n] = node] IN Sound(h) /\ Extends(g, h) /\ Known(h) = Known(g) \cup {n}
<1> DEFINE h == [g EXCEPT ![n] = node]
<1>1. DOMAIN g = Nodes /\ DOMAIN h = Nodes /\ h[n] = node /\ \A m \in Nodes \ {n} : h[m] = g[m]
  BY DEF Sound
<1> HIDE DEF h
<1>2. Known(h) = Known(g) \cup {n}
  BY <1>1 DEF Known
<1>3. Extends(g, h)
  BY <1>1, <1>2 DEF Extends, Known
<1>4. \A x : TensorIn(g, x) => TensorIn(h, x)
  BY <1>3 DEF Extends, TensorIn, OutputsIn
<1>5. ASSUME NEW m \in Nodes \ {n} PROVE SoundNode(h, m)
  <2>1. SoundNode(g, m) /\ h[m] = g[m]
    BY <1>1 DEF Sound
  <2> QED BY <1>4, <2>1 DEF SoundNode
<1>6. SoundNode(h, n)
  <2>1. edges \in Seq(Tensor) /\ \A i \in DOMAIN edges : TensorIn(g, edges[i])
    OBVIOUS
  <2>2. ASSUME NEW i \in DOMAIN edges PROVE edges[i].node < n
    <3>1. edges[i].node \in Known(g) /\ edges[i].node \in Nodes
      BY <2>1 DEF TensorIn, Known
    <3>2. 1..edges[i].node \subseteq Known(g)
      BY <3>1 DEF Sound
    <3>3. n \notin 1..edges[i].node
      BY <3>2
    <3> QED BY <3>1, <3>3, BackwardConstants DEF Nodes
  <2> QED BY <1>1, <1>4, <2>1, <2>2 DEF SoundNode
<1>7. \A m \in Known(h) : 1..m \subseteq Known(h)
  <2>1. \A k \in 1..n : k = n \/ k \in 1..(n - 1)
    BY BackwardConstants DEF Nodes
  <2> QED BY <1>2, <2>1 DEF Sound
<1> QED BY <1>1, <1>2, <1>3, <1>5, <1>6, <1>7 DEF Sound, h

LEMMA RecordStep == \A t \in Threads : PassInv /\ Record(t) => PassInv'
<1> SUFFICES ASSUME NEW t \in Threads, PassInv, Record(t) PROVE PassInv'
  OBVIOUS
<1>1. /\ pc[t] = "idle" /\ UNCHANGED <<grad, holder, pc, pass, calls, owed, spent>>
  BY DEF Record
<1>2. Types /\ Sound(graph) /\ DOMAIN graph = Nodes
  BY DEF PassInv, Types, Sound
<1>3. PICK n \in Nodes \ Recorded :
        /\ 1..(n - 1) \subseteq Recorded
        /\ \/ \E layout \in Layouts :
                /\ graph' = [graph EXCEPT ![n] =
                               [kind |-> "leaf", layout |-> layout, edges |-> <<>>]]
                /\ enabled' = enabled \cup {n}
                /\ UNCHANGED saved
           \/ \E kind \in Kinds, edges \in TupleOf(Differentiable, 1)
                                             \cup TupleOf(Differentiable, 2) :
                /\ kind = "chunk" => Len(edges) = 1
                /\ graph' = [graph EXCEPT ![n] =
                               [kind |-> kind, layout |-> None, edges |-> edges]]
                /\ saved' = IF kind = "multiply" THEN saved \cup {n} ELSE saved
                /\ UNCHANGED enabled
  BY DEF Record
<1>4. n \in Nodes \ Known(graph) /\ 1..(n - 1) \subseteq Known(graph)
  BY <1>3 DEF Recorded, Known
<1> DEFINE Edges == {x \in Tensor : TensorIn(graph, x)}
           Good == /\ Sound(graph') /\ Extends(graph, graph') /\ Known(graph') = Known(graph) \cup {n}
                   /\ Leaf(graph', n) => graph'[n].layout \in Layouts
                   /\ saved \subseteq saved' /\ saved' \subseteq Nodes /\ enabled' \subseteq Nodes
                   /\ HasValues(graph', saved', n)
                   /\ \A m \in Nodes \ {n} : graph'[m] = graph[m]
<1>5. Good
  <2>1. ASSUME NEW layout \in Layouts,
               graph' = [graph EXCEPT ![n] = [kind |-> "leaf", layout |-> layout, edges |-> <<>>]],
               enabled' = enabled \cup {n}, UNCHANGED saved
        PROVE  Good
    <3> DEFINE node == [kind |-> "leaf", layout |-> layout, edges |-> <<>>]
    <3>1. /\ node.edges = <<>> /\ node.kind = "leaf" /\ node.kind \in AllKinds \ {"absent"}
          /\ node.layout = layout
          /\ <<>> \in Seq(Edges) /\ Len(<<>>) <= 2
      BY DEF AllKinds
    <3>2. graph' = [graph EXCEPT ![n] = node]
      BY <2>1
    <3> HIDE DEF node
    <3>3. Sound(graph') /\ Extends(graph, graph') /\ Known(graph') = Known(graph) \cup {n}
      BY <1>2, <1>4, <3>1, <3>2, Grown
    <3>4. graph'[n] = node /\ \A m \in Nodes \ {n} : graph'[m] = graph[m]
      BY <1>2, <3>2
    <3> QED BY <1>2, <2>1, <3>1, <3>3, <3>4 DEF Types, HasValues
  <2>2. ASSUME NEW kind \in Kinds,
               NEW edges \in TupleOf(Differentiable, 1) \cup TupleOf(Differentiable, 2),
               graph' = [graph EXCEPT ![n] = [kind |-> kind, layout |-> None, edges |-> edges]],
               saved' = (IF kind = "multiply" THEN saved \cup {n} ELSE saved), UNCHANGED enabled
        PROVE  Good
    <3> DEFINE node == [kind |-> kind, layout |-> None, edges |-> edges]
    <3>1. /\ node.edges = edges /\ node.kind = kind /\ node.kind \in AllKinds \ {"absent"}
          /\ node.kind # "leaf"
      BY BackwardConstants DEF AllKinds
    <3>2. edges \in Seq(Edges) /\ Len(edges) <= 2
      <4>1. Differentiable \subseteq Edges
        BY DifferentiableIn DEF Differentiable
      <4>2. edges \in [1..1 -> Edges] \cup [1..2 -> Edges]
        BY <4>1 DEF TupleOf
      <4> HIDE DEF Edges
      <4>3. \A k \in Nat : \A e \in [1..k -> Edges] : e \in Seq(Edges) /\ (k <= 2 => Len(e) <= 2)
        OBVIOUS
      <4>4. 1 \in Nat /\ 2 \in Nat /\ 1 <= 2 /\ 2 <= 2
        OBVIOUS
      <4> QED BY <4>2, <4>3, <4>4
    <3>3. graph' = [graph EXCEPT ![n] = node]
      BY <2>2
    <3> HIDE DEF node
    <3>4. Sound(graph') /\ Extends(graph, graph') /\ Known(graph') = Known(graph) \cup {n}
      BY <1>2, <1>4, <3>1, <3>2, <3>3, Grown
    <3>5. graph'[n] = node /\ \A m \in Nodes \ {n} : graph'[m] = graph[m]
      BY <1>2, <3>3
    <3> QED BY <1>2, <2>2, <3>1, <3>4, <3>5 DEF Types, HasValues, Leaf
  <2> QED BY <1>3, <2>1, <2>2
<1>6. Types'
  <2>1. \A m \in Nodes : Leaf(graph', m) => graph'[m].layout \in Layouts
    BY <1>2, <1>5 DEF Types, Leaf
  <2> QED BY <1>1, <1>2, <1>5, <2>1 DEF Types
<1>7. Stage(pass'[t], graph', saved', pc'[t])
  <2>1. pass[t] = NoPass
    BY <1>1 DEF PassInv, Staged, Stage
  <2> QED BY <1>1, <2>1 DEF Stage
<1>8. pc'[t] \in Labels \ Inside
  BY <1>1 DEF Labels, Inside
<1> QED BY <1>1, <1>5, <1>6, <1>7, <1>8, OutsideStep

LEMMA ToggleStep == \A t \in Threads : PassInv /\ Toggle(t) => PassInv'
<1> SUFFICES ASSUME NEW t \in Threads, PassInv, Toggle(t) PROVE PassInv'
  OBVIOUS
<1>1. pc[t] = "idle" /\ UNCHANGED <<graph, saved, grad, holder, pc, pass, calls, owed, spent>>
      /\ Types /\ enabled' \subseteq Nodes
  BY DEF Toggle, PassInv, Types, Recorded
<1>2. Types'
  BY <1>1 DEF Types
<1>3. Stage(pass'[t], graph', saved', pc'[t])
  BY <1>1 DEF PassInv, Staged
<1>4. pc'[t] \in Labels \ Inside /\ Extends(graph, graph')
  BY <1>1 DEF Labels, Inside, Extends
<1> QED BY <1>1, <1>2, <1>3, <1>4, OutsideStep

LEMMA RestTypes ==
  ASSUME NEW roots \in Seq(Tensor)
  PROVE  [NoPass EXCEPT !.roots = roots] \in Pass /\ [NoPass EXCEPT !.roots = roots].roots = roots
         /\ [NoPass EXCEPT !.roots = roots].took = {} /\ NoPass \in Pass
<1>1. NoPass \in Pass
  <2>1. /\ <<>> \in Seq(Tensor) /\ <<>> \in Seq(Frames) /\ <<>> \in Seq(Nodes)
        /\ <<>> \in Seq(Owed) /\ NoGradients \in Gradients
    BY DEF NoGradients, Gradients
  <2> QED BY <2>1 DEF NoPass, Pass
<1>2. [NoPass EXCEPT !.roots = roots] \in Pass /\ [NoPass EXCEPT !.roots = roots].roots = roots
  BY <1>1 DEF Pass
<1>3. [NoPass EXCEPT !.roots = roots].took = {}
  BY DEF NoPass
<1> QED BY <1>1, <1>2, <1>3

LEMMA BeginStep ==
  ASSUME PassInv, NEW t \in Threads, NEW roots \in Seq(Tensor), NEW label \in {"lock", "lock_leaves"},
         pc[t] = "idle", pc' = [pc EXCEPT ![t] = label],
         pass' = [pass EXCEPT ![t] = [NoPass EXCEPT !.roots = roots]],
         UNCHANGED <<graph, saved, enabled, grad, holder, owed, spent>>,
         Len(roots) \in {1, 2} /\ \A i \in DOMAIN roots : TensorIn(graph, roots[i]),
         label = "lock" => Len(roots) = 1,
         label = "lock_leaves" => \A i \in DOMAIN roots : roots[i].output = 0
  PROVE  PassInv'
<1> DEFINE q == [NoPass EXCEPT !.roots = roots]
<1>1. q \in Pass /\ q.roots = roots
  BY RestTypes
<1>2. Types
  BY DEF PassInv
<1>3. label \in Labels \ Inside
  BY DEF Labels, Inside
<1>4. AtRest(q, q.roots)
  BY <1>1 DEF AtRest
<1> HIDE DEF q
<1>5. pass' = [pass EXCEPT ![t] = q]
  BY DEF q
<1>6. Types'
  BY <1>1, <1>2, <1>3, <1>5 DEF Types
<1>7. pass'[t] = q /\ pc'[t] = label /\ \A u \in Threads \ {t} : pc'[u] = pc[u] /\ pass'[u] = pass[u]
  BY <1>2, <1>5 DEF Types
<1>8. RootsIn(q, graph)
  BY <1>1 DEF RootsIn
<1>9. Stage(q, graph, saved, label)
  <2>1. label = "lock" => AtLock(q, graph)
    BY <1>1, <1>4, <1>8 DEF AtLock
  <2>2. label = "lock_leaves" => AtLeaves(q, graph)
    BY <1>1, <1>4, <1>8 DEF AtLeaves
  <2> QED BY <2>1, <2>2 DEF Stage
<1>10. Extends(graph, graph')
  BY DEF Extends
<1> QED BY <1>3, <1>6, <1>7, <1>9, <1>10, OutsideStep

LEMMA BeginBackwardStep == \A t \in Threads : PassInv /\ BeginBackward(t) => PassInv'
<1> SUFFICES ASSUME NEW t \in Threads, PassInv, BeginBackward(t) PROVE PassInv'
  OBVIOUS
<1>1. PICK root \in Differentiable : pass' = [pass EXCEPT ![t] = [NoPass EXCEPT !.roots = <<root>>]]
  BY DEF BeginBackward
<1>2. TensorIn(graph, root) /\ root \in Tensor
  BY DifferentiableIn DEF TensorIn
<1>3. /\ <<root>> \in Seq(Tensor) /\ Len(<<root>>) = 1 /\ Len(<<root>>) \in {1, 2}
      /\ \A i \in DOMAIN <<root>> : TensorIn(graph, <<root>>[i])
  BY <1>2
<1>4. pc[t] = "idle" /\ pc' = [pc EXCEPT ![t] = "lock"]
      /\ UNCHANGED <<graph, saved, enabled, grad, holder, owed, spent>>
  BY DEF BeginBackward, Goto
<1> QED BY <1>1, <1>3, <1>4, BeginStep

LEMMA BeginLeavesStep == \A t \in Threads : PassInv /\ BeginLeaves(t) => PassInv'
<1> SUFFICES ASSUME NEW t \in Threads, PassInv, BeginLeaves(t) PROVE PassInv'
  OBVIOUS
<1>0. PICK k \in {1, 2} : \E nodes \in TupleOf({n \in Recorded : Scalar(n)}, k) :
        pass' = [pass EXCEPT ![t] = [NoPass EXCEPT !.roots =
                   [i \in DOMAIN nodes |-> [node |-> nodes[i], output |-> 0]]]]
  BY DEF BeginLeaves
<1>1. PICK nodes \in TupleOf({n \in Recorded : Scalar(n)}, k) :
        pass' = [pass EXCEPT ![t] = [NoPass EXCEPT !.roots =
                   [i \in DOMAIN nodes |-> [node |-> nodes[i], output |-> 0]]]]
  BY <1>0
<1> DEFINE roots == [i \in DOMAIN nodes |-> [node |-> nodes[i], output |-> 0]]
<1>2. DOMAIN nodes = 1..k /\ \A i \in 1..k : nodes[i] \in Recorded
  BY DEF TupleOf
<1>3. /\ DOMAIN roots = 1..k
      /\ \A i \in 1..k : roots[i] \in Tensor /\ roots[i].output = 0 /\ TensorIn(graph, roots[i])
  BY <1>2 DEF Tensor, Outputs, Recorded, TensorIn, Known, OutputsIn
<1>4. roots = [i \in 1..k |-> roots[i]]
  BY <1>2
<1> HIDE DEF roots
<1>5. roots \in Seq(Tensor) /\ Len(roots) = k
  BY <1>3, <1>4
<1>6. pc[t] = "idle" /\ pc' = [pc EXCEPT ![t] = "lock_leaves"]
      /\ UNCHANGED <<graph, saved, enabled, grad, holder, owed, spent>>
  BY DEF BeginLeaves, Goto
<1>7. pass' = [pass EXCEPT ![t] = [NoPass EXCEPT !.roots = roots]]
  BY <1>1 DEF roots
<1> QED BY <1>3, <1>5, <1>6, <1>7, BeginStep

\* A thread has the lock or gets it: what is left to show of its step.
LEMMA Moves ==
  ASSUME PassInv, NEW t \in Threads, NEW q \in Pass, NEW label \in Inside,
         holder = t \/ holder = None, holder' = t,
         pc' = [pc EXCEPT ![t] = label], pass' = [pass EXCEPT ![t] = q],
         UNCHANGED <<graph, enabled, owed, spent>>,
         saved' \subseteq Nodes, grad' \in [Nodes -> Int],
         \A n \in saved \cup pass[t].took : n \in saved' \/ n \in q.took,
         Stage(q, graph, saved', label),
         label = "return" /\ q.result = "freed" => ReachOf(graph, q.roots) \cap spent # {},
         \A n \in Nodes : grad'[n] = owed[n] + Missing(q, graph, label, n)
  PROVE  PassInv'
<1>1. Types /\ label \in Labels
  BY DEF PassInv, Inside
<1>2. Types'
  BY <1>1 DEF Types
<1>3. pass'[t] = q /\ pc'[t] = label /\ \A u \in Threads \ {t} : pc'[u] = pc[u] /\ pass'[u] = pass[u]
  BY <1>1 DEF Types
<1> QED BY <1>2, <1>3, InsideStep

LEMMA Entered ==
  ASSUME PassInv, NEW t \in Threads, pc[t] \in Inside
  PROVE  /\ holder = t /\ pass[t] \in Pass /\ Sound(graph) /\ pass \in [Threads -> Pass]
         /\ saved \subseteq Nodes /\ spent \subseteq Nodes
         /\ grad \in [Nodes -> Int] /\ owed \in [Nodes -> Int]
         /\ Stage(pass[t], graph, saved, pc[t])
         /\ \A n \in Nodes : grad[n] = owed[n] + Missing(pass[t], graph, pc[t], n)
BY DEF PassInv, Types, Locked, Staged, Ledger

LEMMA Entering ==
  ASSUME PassInv, NEW t \in Threads, pc[t] \in {"lock", "lock_leaves"}, holder = None
  PROVE  /\ pass[t] \in Pass /\ Sound(graph) /\ pass \in [Threads -> Pass]
         /\ saved \subseteq Nodes /\ grad \in [Nodes -> Int] /\ owed \in [Nodes -> Int]
         /\ Stage(pass[t], graph, saved, pc[t])
         /\ \A n \in Nodes : grad[n] = owed[n] /\ owed[n] \in Int /\ grad[n] = owed[n] + 0
<1>1. grad = owed /\ owed \in [Nodes -> Int]
  BY DEF PassInv, Ledger, Types
<1> QED BY <1>1 DEF PassInv, Types, Staged

LEMMA LockStep == \A t \in Threads : PassInv /\ Lock(t) => PassInv'
<1> SUFFICES ASSUME NEW t \in Threads, PassInv, Lock(t) PROVE PassInv'
  OBVIOUS
<1> DEFINE p == pass[t]
           stack == <<[frame |-> "enter", node |-> Root(p).node]>>
           q == [p EXCEPT !.stack = stack, !.gradients = [p.gradients EXCEPT ![Root(p)] = 1]]
<1>1. /\ pc[t] = "lock" /\ holder = None /\ holder' = t
      /\ pc' = [pc EXCEPT ![t] = "collect"]
      /\ UNCHANGED <<graph, saved, enabled, grad, calls, owed, spent>>
  BY DEF Lock, Serialized, Goto
<1>2. /\ p \in Pass /\ Sound(graph) /\ pass \in [Threads -> Pass] /\ saved \subseteq Nodes
      /\ grad \in [Nodes -> Int] /\ Stage(p, graph, saved, "lock")
      /\ \A n \in Nodes : grad[n] = owed[n] + 0
  BY <1>1, Entering
<1>3. AtLock(p, graph) /\ RootsIn(p, graph)
  BY <1>2 DEF Stage, AtLock
<1>4. Root(p) \in Tensor /\ Root(p).node \in Nodes
  BY <1>2, <1>3, RootIn
<1>5. q \in Pass
  <2>1. stack \in Seq(Frames)
    BY <1>4 DEF Frames
  <2>2. [p.gradients EXCEPT ![Root(p)] = 1] \in Gradients
    BY <1>2, <1>4 DEF Pass, Gradients
  <2> HIDE DEF stack
  <2> QED BY <1>2, <2>1, <2>2 DEF Pass
<1>6. pass' = [pass EXCEPT ![t] = q]
  <2>1. pass' = [pass EXCEPT ![t].stack = stack, ![t].gradients[Root(p)] = 1]
    BY DEF Lock, Root
  <2> HIDE DEF stack
  <2> QED BY <1>2, <2>1 DEF Pass
<1>7. Collecting(q, graph, saved)
  BY <1>2, <1>3, <1>5, Starts
<1>8. q.took = {} /\ p.took = {}
  <2>1. p.took = {}
    BY <1>3, <1>2 DEF AtLock, AtRest, NoPass
  <2>2. Untouched(q)
    BY <1>7 DEF Collecting
  <2> QED BY <2>1, <2>2 DEF Untouched
<1> HIDE DEF q
<1>9. Stage(q, graph, saved, "collect") /\ "collect" \in Inside
  BY <1>7 DEF Stage, Inside, Labels
<1>10. \A n \in Nodes : grad[n] = owed[n] + Missing(q, graph, "collect", n)
  BY <1>2 DEF Missing
<1> QED BY <1>1, <1>2, <1>5, <1>6, <1>8, <1>9, <1>10, Moves

LEMMA LockLeavesStep == \A t \in Threads : PassInv /\ LockLeaves(t) => PassInv'
<1> SUFFICES ASSUME NEW t \in Threads, PassInv, LockLeaves(t) PROVE PassInv'
  OBVIOUS
<1> DEFINE p == pass[t]
<1>1. /\ pc[t] = "lock_leaves" /\ holder = None /\ holder' = t
      /\ UNCHANGED <<graph, saved, enabled, grad, calls, owed, spent>>
  BY DEF LockLeaves, Serialized
<1>2. /\ p \in Pass /\ Sound(graph) /\ pass \in [Threads -> Pass] /\ saved \subseteq Nodes
      /\ grad \in [Nodes -> Int] /\ Stage(p, graph, saved, "lock_leaves")
      /\ \A n \in Nodes : grad[n] = owed[n] + 0 /\ owed[n] \in Int /\ grad[n] = owed[n]
  BY <1>1, Entering
<1>3. AtLeaves(p, graph) /\ RootsIn(p, graph) /\ p.took = {} /\ p.given = {}
  BY <1>2 DEF Stage, AtLeaves, AtRest, NoPass
<1>4. "return" \in Inside /\ "commit" \in Inside
  BY DEF Inside, Labels
<1>5. CASE \A i \in DOMAIN p.roots : IsLeaf(p.roots[i].node) /\ RequiresGrad(p.roots[i].node)
  <2> DEFINE c == Aggregated(p.roots)
             q == [p EXCEPT !.commits = c]
  <2>1. pass' = [pass EXCEPT ![t].commits = c] /\ pc' = [pc EXCEPT ![t] = "commit"]
    BY <1>5 DEF LockLeaves, Goto
  <2>2. c \in Seq(Owed)
    BY <1>2, <1>3, AggregatedOwed
  <2> HIDE DEF c
  <2>3. q \in Pass /\ pass' = [pass EXCEPT ![t] = q] /\ q.took = {}
    BY <1>2, <1>3, <2>1, <2>2 DEF Pass
  <2>4. Committing(q, graph) /\ \A n \in Nodes : Owing(q.commits, n) = DueIn(graph, q, n)
    <3>1. \A i \in DOMAIN p.roots : Leaf(graph, p.roots[i].node)
      BY <1>5 DEF Leaf, IsLeaf
    <3>2. q = [p EXCEPT !.commits = Aggregated(p.roots)]
      BY DEF c
    <3> HIDE DEF q
    <3> QED BY <1>2, <1>3, <2>3, <3>1, <3>2, RootsCommit
  <2> HIDE DEF q
  <2>5. Stage(q, graph, saved, "commit")
    BY <2>4 DEF Stage
  <2>6. \A n \in Nodes : grad[n] = owed[n] + Missing(q, graph, "commit", n)
    <3>1. \A n \in Nodes : DueIn(graph, q, n) \in Int
      BY <1>2, <2>3, DueInt
    <3>2. \A n \in Nodes : Missing(q, graph, "commit", n) = 0
      BY <2>4, <3>1 DEF Missing
    <3> QED BY <1>2, <3>2
  <2>7. /\ saved' \subseteq Nodes /\ grad' \in [Nodes -> Int] /\ Stage(q, graph, saved', "commit")
        /\ \A n \in Nodes : grad'[n] = owed[n] + Missing(q, graph, "commit", n)
        /\ \A n \in saved \cup pass[t].took : n \in saved' \/ n \in q.took
    BY <1>1, <1>2, <1>3, <2>5, <2>6
  <2> QED BY <1>1, <1>4, <2>1, <2>3, <2>7, Moves
<1>6. CASE ~ \A i \in DOMAIN p.roots : IsLeaf(p.roots[i].node) /\ RequiresGrad(p.roots[i].node)
  <2> DEFINE q == [p EXCEPT !.result = "refused"]
  <2>1. pass' = [pass EXCEPT ![t].result = "refused"] /\ pc' = [pc EXCEPT ![t] = "return"]
    BY <1>6 DEF LockLeaves, Goto, Ends
  <2>2. /\ q \in Pass /\ pass' = [pass EXCEPT ![t] = q] /\ q.took = {} /\ q.given = {}
        /\ q.result = "refused" /\ q.roots = p.roots
    BY <1>2, <1>3, <2>1 DEF Pass
  <2> HIDE DEF q
  <2>3. Stage(q, graph, saved, "return")
    BY <1>3, <2>2 DEF Stage, Returning, RootsIn, Untouched
  <2>4. \A n \in Nodes : grad[n] = owed[n] + Missing(q, graph, "return", n)
    BY <1>2, <2>2 DEF Missing
  <2>5. /\ saved' \subseteq Nodes /\ grad' \in [Nodes -> Int] /\ Stage(q, graph, saved', "return")
        /\ \A n \in Nodes : grad'[n] = owed[n] + Missing(q, graph, "return", n)
        /\ \A n \in saved \cup pass[t].took : n \in saved' \/ n \in q.took
    BY <1>1, <1>2, <1>3, <2>3, <2>4
  <2> QED BY <1>1, <1>4, <2>1, <2>2, <2>5, Moves
<1> QED BY <1>5, <1>6

\* A call goes on with its loops; what others see is unchanged.
LEMMA Carries ==
  ASSUME PassInv, NEW t \in Threads, pc[t] \in {"collect", "apply"},
         NEW q \in Pass, NEW label \in {"collect", "apply", "consume"},
         pass' = [pass EXCEPT ![t] = q], pc' = [pc EXCEPT ![t] = label],
         q.took = pass[t].took, Stage(q, graph, saved, label),
         UNCHANGED <<graph, saved, enabled, grad, holder, calls, owed, spent>>
  PROVE  PassInv'
<1>1. pc[t] \in Inside /\ label \in Inside /\ label \notin {"commit", "return"}
  BY DEF Inside, Labels
<1>2. /\ holder = t /\ saved \subseteq Nodes /\ grad \in [Nodes -> Int]
      /\ \A n \in Nodes : grad[n] = owed[n] + Missing(pass[t], graph, pc[t], n)
  BY <1>1, Entered
<1>3. \A n \in Nodes : grad[n] = owed[n] + Missing(q, graph, label, n)
  BY <1>2 DEF Missing
<1> QED BY <1>1, <1>2, <1>3, Moves

LEMMA CollectedStep ==
  ASSUME PassInv, NEW t \in Threads, pc[t] = "collect", NEW seen, NEW stack, NEW topology,
         Searching(Root(pass[t]).node, stack, seen, topology, graph),
         \A n \in seen : HasValues(graph, saved, n),
         Collected(t, seen, stack, topology),
         UNCHANGED <<graph, saved, enabled, grad, holder, calls, owed, spent>>
  PROVE  PassInv'
<1> DEFINE p == pass[t]
           q == [p EXCEPT !.seen = seen, !.stack = stack, !.topology = topology,
                          !.at = Len(topology)]
           label == IF stack = <<>> THEN "apply" ELSE "collect"
<1>1. pc[t] \in Inside
  BY DEF Inside, Labels
<1>2. /\ p \in Pass /\ Sound(graph) /\ pass \in [Threads -> Pass]
      /\ Stage(p, graph, saved, "collect")
  BY <1>1, Entered
<1>3. Collecting(p, graph, saved)
  BY <1>2 DEF Stage
<1>4. /\ pc' = [pc EXCEPT ![t] = label]
      /\ pass' = [pass EXCEPT ![t].seen = seen, ![t].stack = stack,
                              ![t].topology = topology, ![t].at = Len(topology)]
  BY DEF Collected, Goto
<1>5. stack \in Seq(Frames) /\ topology \in Seq(Nodes) /\ Len(topology) \in Nat /\ seen \subseteq Nodes
  BY DEF Searching, Range, Exits
<1>6. /\ q \in Pass /\ pass' = [pass EXCEPT ![t] = q]
      /\ q.roots = p.roots /\ q.gradients = p.gradients /\ q.commits = p.commits /\ q.result = p.result
      /\ q.took = p.took /\ q.given = p.given /\ q.skipped = p.skipped /\ q.at = Len(q.topology)
      /\ q.stack = stack /\ q.seen = seen /\ q.topology = topology
  BY <1>2, <1>4, <1>5 DEF Pass
<1> HIDE DEF q
<1>7. /\ stack # <<>> => Collecting(q, graph, saved)
      /\ stack = <<>> => Applying(q, graph, saved)
  BY <1>2, <1>3, <1>6, Searches
<1>8. Stage(q, graph, saved, label)
  BY <1>7 DEF Stage
<1>9. label \in {"collect", "apply", "consume"}
  OBVIOUS
<1> HIDE DEF label
<1>10. /\ pc' = [pc EXCEPT ![t] = label] /\ pass' = [pass EXCEPT ![t] = q]
       /\ q \in Pass /\ q.took = pass[t].took
  BY <1>4, <1>6
<1> QED BY <1>8, <1>9, <1>10, Carries

\* The lock's holder alone has consumed values before it returns.
LEMMA OthersTookNothing ==
  ASSUME PassInv, NEW t \in Threads, pc[t] \in Inside, NEW u \in Threads \ {t}
  PROVE  pass[u].took = {}
<1>1. pc[u] \in {"idle", "lock", "lock_leaves"}
  BY DEF PassInv, Types, Locked, Inside
<1>2. Stage(pass[u], graph, saved, pc[u])
  BY DEF PassInv, Staged
<1>3. pass[u] = NoPass \/ AtRest(pass[u], pass[u].roots)
  BY <1>1, <1>2 DEF Stage, AtLock, AtLeaves
<1> QED BY <1>3 DEF AtRest, NoPass

\* A call ends without having consumed or committed anything.
LEMMA GivesUp ==
  ASSUME PassInv, NEW t \in Threads, pc[t] \in Inside \ {"commit", "return"},
         NEW result \in {"freed", "refused", "failed"}, Ends(t, result),
         RootsIn(pass[t], graph), Untouched(pass[t]),
         result = "freed" => ReachOf(graph, pass[t].roots) \cap spent # {},
         UNCHANGED <<graph, saved, enabled, grad, holder, calls, owed, spent>>
  PROVE  PassInv'
<1> DEFINE p == pass[t]
           q == [p EXCEPT !.result = result]
<1>1. pc[t] \in Inside /\ "return" \in Inside
  BY DEF Inside, Labels
<1>2. /\ holder = t /\ p \in Pass /\ pass \in [Threads -> Pass]
      /\ saved \subseteq Nodes /\ grad \in [Nodes -> Int]
      /\ \A n \in Nodes : grad[n] = owed[n] + Missing(p, graph, pc[t], n)
  BY <1>1, Entered
<1>3. pc' = [pc EXCEPT ![t] = "return"] /\ pass' = [pass EXCEPT ![t].result = result]
  BY DEF Ends, Goto
<1>4. /\ q \in Pass /\ pass' = [pass EXCEPT ![t] = q] /\ q.roots = p.roots
      /\ q.took = p.took /\ q.given = p.given /\ q.result = result /\ result # "ok"
  BY <1>2, <1>3 DEF Pass
<1> HIDE DEF q
<1>5. Stage(q, graph, saved, "return")
  BY <1>4 DEF Stage, Returning, RootsIn, Untouched
<1>6. \A n \in Nodes : grad[n] = owed[n] + Missing(q, graph, "return", n)
  <2>1. \A n \in Nodes : Missing(p, graph, pc[t], n) = 0 /\ Missing(q, graph, "return", n) = 0
    BY <1>4 DEF Missing
  <2> QED BY <1>2, <2>1
<1>7. /\ saved' \subseteq Nodes /\ grad' \in [Nodes -> Int] /\ Stage(q, graph, saved', "return")
      /\ \A n \in Nodes : grad'[n] = owed[n] + Missing(q, graph, "return", n)
      /\ \A n \in saved \cup pass[t].took : n \in saved' \/ n \in q.took
  BY <1>2, <1>4, <1>5, <1>6
<1>8. /\ holder = t /\ holder' = t /\ UNCHANGED <<graph, enabled, owed, spent>>
      /\ (q.result = "freed" => ReachOf(graph, q.roots) \cap spent # {}) /\ q \in Pass
      /\ pc' = [pc EXCEPT ![t] = "return"] /\ pass' = [pass EXCEPT ![t] = q]
  BY <1>2, <1>3, <1>4
<1> QED BY <1>1, <1>7, <1>8, Moves

LEMMA EnterNodeStep == \A t \in Threads : PassInv /\ EnterNode(t) => PassInv'
<1> SUFFICES ASSUME NEW t \in Threads, PassInv, EnterNode(t) PROVE PassInv'
  OBVIOUS
<1> DEFINE p == pass[t]
           n == Last(p.stack).node
           root == Root(p).node
<1>1. /\ pc[t] = "collect" /\ Last(p.stack).frame = "enter"
      /\ UNCHANGED <<graph, saved, enabled, grad, holder, calls, owed, spent>>
      /\ pc[t] \in Inside \ {"commit", "return"} /\ pc[t] \in Inside
  BY DEF EnterNode, Inside, Labels
<1>2. p \in Pass /\ Sound(graph) /\ Stage(p, graph, saved, "collect")
  BY <1>1, Entered
<1>3. Collecting(p, graph, saved)
  BY <1>2 DEF Stage
<1>4. /\ RootsIn(p, graph) /\ Len(p.roots) = 1 /\ Untouched(p) /\ p.stack # <<>> /\ p.stack \in Seq(Frames)
      /\ Searching(root, p.stack, p.seen, p.topology, graph)
      /\ \A m \in p.seen : HasValues(graph, saved, m)
  BY <1>2, <1>3 DEF Collecting, Pass
<1>5. root \in Nodes /\ root \in Known(graph) /\ ReachOf(graph, p.roots) = ReachIn(graph)[root]
  BY <1>2, <1>4, RootIn, OneRoot
<1>6. /\ Len(p.stack) \in DOMAIN p.stack /\ Last(p.stack) = p.stack[Len(p.stack)]
  BY <1>4, TopFrame
<1>7. n \in ReachIn(graph)[root] /\ ReachIn(graph)[root] \subseteq Known(graph)
  <2>1. n \in ReachIn(graph)[root]
    BY <1>4, <1>6 DEF Searching, Within
  <2>2. ReachIn(graph)[root] \subseteq Known(graph)
    BY <1>2, <1>5, ReachClosed DEF Sound
  <2> QED BY <2>1, <2>2
<1>8. CASE Seen(t, n) /\ Collected(t, p.seen, Front(p.stack), p.topology)
  <2>1. Searching(root, Front(p.stack), p.seen, p.topology, graph)
    BY <1>1, <1>2, <1>4, <1>5, <1>8, PopSeen DEF Seen
  <2> QED BY <1>1, <1>4, <1>8, <2>1, CollectedStep
<1>9. CASE /\ ~Seen(t, n) /\ Validated(n)
           /\ Collected(t, p.seen \cup {n}, Front(p.stack) \o FramesOf(n), p.topology)
  <2>1. Searching(root, Front(p.stack) \o FramesOf(n), p.seen \cup {n}, p.topology, graph)
    BY <1>2, <1>4, <1>5, <1>9, PopNew, FramesIs DEF Seen
  <2>2. \A m \in p.seen \cup {n} : HasValues(graph, saved, m)
    BY <1>4, <1>9 DEF Validated, HasSavedValues, HasValues
  <2> QED BY <1>1, <1>9, <2>1, <2>2, CollectedStep
<1>10. CASE ~Seen(t, n) /\ ~Validated(n) /\ Ends(t, "freed")
  <2>1. graph[n].kind = "multiply" /\ n \notin saved /\ n \in Known(graph)
    BY <1>7, <1>10 DEF Validated, HasSavedValues
  <2>2. \A u \in Threads : pass[u].took = {}
    BY <1>1, <1>4, OthersTookNothing DEF Untouched
  <2>3. n \in spent
    BY <2>1, <2>2 DEF PassInv, Values
  <2>4. ReachOf(graph, p.roots) \cap spent # {}
    BY <1>5, <1>7, <2>3
  <2> QED BY <1>1, <1>4, <1>10, <2>4, GivesUp
<1> QED BY <1>8, <1>9, <1>10 DEF EnterNode

LEMMA ExitNodeStep == \A t \in Threads : PassInv /\ ExitNode(t) => PassInv'
<1> SUFFICES ASSUME NEW t \in Threads, PassInv, ExitNode(t) PROVE PassInv'
  OBVIOUS
<1> DEFINE p == pass[t]
           n == Last(p.stack).node
           root == Root(p).node
<1>1. /\ pc[t] = "collect" /\ Last(p.stack).frame = "exit" /\ pc[t] \in Inside
      /\ Collected(t, p.seen, Front(p.stack), Append(p.topology, n))
      /\ UNCHANGED <<graph, saved, enabled, grad, holder, calls, owed, spent>>
  BY DEF ExitNode, Inside, Labels
<1>2. p \in Pass /\ Sound(graph) /\ Stage(p, graph, saved, "collect")
  BY <1>1, Entered
<1>3. Collecting(p, graph, saved)
  BY <1>2 DEF Stage
<1>4. /\ RootsIn(p, graph) /\ p.stack # <<>>
      /\ Searching(root, p.stack, p.seen, p.topology, graph)
      /\ \A m \in p.seen : HasValues(graph, saved, m)
  BY <1>3 DEF Collecting
<1>5. root \in Nodes
  BY <1>2, <1>4, RootIn
<1>6. Searching(root, Front(p.stack), p.seen, Append(p.topology, n), graph)
  BY <1>1, <1>2, <1>4, <1>5, PopExit
<1> QED BY <1>1, <1>4, <1>6, CollectedStep

\* The loop over the topology goes on.
LEMMA AppliesStep ==
  ASSUME PassInv, NEW t \in Threads, pc[t] = "apply", NEW q \in Pass,
         pass' = [pass EXCEPT ![t] = q],
         pc' = [pc EXCEPT ![t] = IF pass[t].at = 1 THEN "consume" ELSE "apply"],
         q.roots = pass[t].roots, q.topology = pass[t].topology, q.result = pass[t].result,
         q.took = pass[t].took, q.given = pass[t].given,
         q.at = (IF pass[t].at = 1 THEN 1 ELSE pass[t].at - 1),
         Applied(q, graph, pass[t].at - 1),
         UNCHANGED <<graph, saved, enabled, grad, holder, calls, owed, spent>>
  PROVE  PassInv'
<1> DEFINE p == pass[t]
           label == IF p.at = 1 THEN "consume" ELSE "apply"
<1>1. pc[t] \in Inside /\ label \in {"collect", "apply", "consume"}
  BY DEF Inside, Labels
<1>2. p \in Pass /\ Sound(graph) /\ Stage(p, graph, saved, "apply")
  BY <1>1, Entered
<1>3. Applying(p, graph, saved)
  BY <1>2 DEF Stage
<1>4. /\ p.at # 1 => Applying(q, graph, saved)
      /\ p.at = 1 => Consuming(q, graph, saved)
  BY <1>2, <1>3, Applies
<1>5. Stage(q, graph, saved, label)
  BY <1>4 DEF Stage
<1> QED BY <1>1, <1>5, Carries

LEMMA ApplyStep == \A t \in Threads : PassInv /\ Apply(t) => PassInv'
<1> SUFFICES ASSUME NEW t \in Threads, PassInv, Apply(t) PROVE PassInv'
  OBVIOUS
<1> DEFINE p == pass[t]
           n == p.topology[p.at]
           at == IF p.at = 1 THEN 1 ELSE p.at - 1
           label == IF p.at = 1 THEN "consume" ELSE "apply"
           own == Out(n, 0)
           gr == p.gradients
<1>1. /\ pc[t] = "apply" /\ pc[t] \in Inside /\ pc[t] \in Inside \ {"commit", "return"}
      /\ UNCHANGED <<graph, saved, enabled, grad, holder, calls, owed, spent>>
  BY DEF Apply, Inside, Labels
<1>2. p \in Pass /\ Sound(graph) /\ Stage(p, graph, saved, "apply") /\ pass \in [Threads -> Pass]
  BY <1>1, Entered
<1>3. Applying(p, graph, saved)
  BY <1>2 DEF Stage
<1>4. /\ Sorted(p, graph) /\ Untouched(p) /\ p.at \in 1..Len(p.topology) /\ RootsIn(p, graph)
      /\ Applied(p, graph, p.at) /\ Wellformed(gr, graph) /\ gr \in Gradients
  BY <1>3 DEF Applying, Sorted, Applied, Wellformed
<1>5. n \in Nodes /\ n \in Known(graph)
  BY <1>2, <1>4, AheadSteps
<1>6. ArrivedIn(graph, gr, n) # {}
  BY <1>2, <1>4, Arrives
<1>7. Arrived(gr, n) # {}
  BY <1>6, ArrivedIs
<1>8. p.at \in Nat /\ at \in Nat
  BY <1>4, <1>2 DEF Pass
<1>9. own \in Tensor /\ own = [node |-> n, output |-> 0]
  BY <1>5, OutTensor DEF Out, Outputs
<1>10. CASE IsLeaf(n) /\ n \in enabled /\ ~Ends(t, "failed")
  <2> DEFINE c == Append(p.commits, [leaf |-> n, gradient |-> gr[own]])
             h == [gr EXCEPT ![own] = None]
             q == [p EXCEPT !.at = at, !.skipped = p.skipped, !.gradients = h, !.commits = c]
  <2>1. /\ pass' = [pass EXCEPT ![t].at = at, ![t].skipped = p.skipped,
                                ![t].gradients[own] = None, ![t].commits = c]
        /\ pc' = [pc EXCEPT ![t] = label]
    BY <1>7, <1>9, <1>10 DEF Apply, Goto
  <2>2. gr[own] \in Int
    <3>1. OutputsIn(graph, n) = {0}
      BY <1>10 DEF OutputsIn, IsLeaf
    <3>2. gr[own] # None
      BY <1>6, <3>1 DEF ArrivedIn
    <3> QED BY <1>4, <1>9, <3>2 DEF Gradients
  <2>3. c \in Seq(Owed) /\ h \in Gradients
    <3>1. [leaf |-> n, gradient |-> gr[own]] \in Owed /\ p.commits \in Seq(Owed)
      BY <1>2, <1>5, <2>2 DEF Owed, Pass
    <3>2. h \in Gradients
      BY <1>4, <1>9 DEF Gradients
    <3> QED BY <3>1, <3>2
  <2>4. pass' = [pass EXCEPT ![t] = q]
    <3> HIDE DEF c, at
    <3> QED BY <1>2, <2>1 DEF Pass
  <2>5. /\ q.roots = p.roots /\ q.topology = p.topology /\ q.result = p.result
        /\ q.took = p.took /\ q.given = p.given /\ q.at = at /\ q.skipped = p.skipped
        /\ q.commits = c /\ q.gradients = h /\ q \in Pass
    <3> HIDE DEF c, h, at
    <3> QED BY <1>2, <1>8, <2>3 DEF Pass
  <2> HIDE DEF q
  <2>6. Applied(q, graph, p.at - 1)
    BY <1>2, <1>4, <1>10, <2>5, AppliedLeaf DEF Leaf, IsLeaf
  <2> QED BY <1>1, <2>1, <2>4, <2>5, <2>6, AppliesStep
<1>11. CASE IsLeaf(n) /\ n \notin enabled /\ ~Ends(t, "failed")
  <2> DEFINE d == p.skipped \cup {n}
             q == [p EXCEPT !.at = at, !.skipped = d]
  <2>1. /\ pass' = [pass EXCEPT ![t].at = at, ![t].skipped = d,
                                ![t].gradients[own] = gr[own], ![t].commits = p.commits]
        /\ pc' = [pc EXCEPT ![t] = label]
    BY <1>7, <1>9, <1>11 DEF Apply, Goto
  <2>2. pass' = [pass EXCEPT ![t] = q]
    <3>1. gr = [gr EXCEPT ![own] = gr[own]]
      BY <1>4 DEF Gradients
    <3>2. pass' = [pass EXCEPT ![t] = [p EXCEPT !.at = at, !.skipped = d, !.gradients = gr,
                                                !.commits = p.commits]]
      <4> HIDE DEF d, at
      <4> QED BY <1>2, <2>1, <3>1 DEF Pass
    <3>3. [p EXCEPT !.at = at, !.skipped = d, !.gradients = gr, !.commits = p.commits] = q
      <4> HIDE DEF d, at
      <4> QED BY <1>2 DEF Pass
    <3> QED BY <3>2, <3>3
  <2>3. /\ q.roots = p.roots /\ q.topology = p.topology /\ q.result = p.result
        /\ q.took = p.took /\ q.given = p.given /\ q.at = at /\ q.skipped = d
        /\ q.commits = p.commits /\ q.gradients = gr /\ q \in Pass
    <3>1. d \subseteq Nodes
      BY <1>2, <1>5 DEF Pass
    <3> HIDE DEF d, at
    <3> QED BY <1>2, <1>8, <3>1 DEF Pass
  <2> HIDE DEF q
  <2>4. Applied(q, graph, p.at - 1)
    BY <1>2, <1>4, <1>11, <2>3, AppliedSkip DEF Leaf, IsLeaf
  <2> QED BY <1>1, <2>1, <2>2, <2>3, <2>4, AppliesStep
<1>12. CASE ~IsLeaf(n) /\ ~Ends(t, "failed")
  <2> DEFINE h == PropagatedIn(graph, gr, n)
             q == [p EXCEPT !.at = at, !.gradients = h]
  <2>1. /\ pass' = [pass EXCEPT ![t].at = at, ![t].gradients = h]
        /\ pc' = [pc EXCEPT ![t] = label]
    <3>1. Propagated(gr, n) = h
      BY PropagatedIs
    <3> HIDE DEF h
    <3> QED BY <1>7, <1>12, <3>1 DEF Apply, Goto
  <2>2. h \in Gradients
    <3>1. graph[n].kind \in {"add_subtract", "multiply", "chunk"}
      BY <1>2, <1>5, <1>12 DEF Sound, SoundNode, Known, AllKinds, IsLeaf
    <3>2. Wellformed(h, graph)
      <4> HIDE DEF gr, n
      <4> QED BY <1>2, <1>4, <1>5, <3>1, PropagatedValue
    <3> QED BY <3>2 DEF Wellformed
  <2>3. pass' = [pass EXCEPT ![t] = q]
    <3> HIDE DEF h, at
    <3> QED BY <1>2, <2>1 DEF Pass
  <2>4. /\ q.roots = p.roots /\ q.topology = p.topology /\ q.result = p.result
        /\ q.took = p.took /\ q.given = p.given /\ q.at = at /\ q.skipped = p.skipped
        /\ q.commits = p.commits /\ q.gradients = h /\ q \in Pass
    <3> HIDE DEF h, at
    <3> QED BY <1>2, <1>8, <2>2 DEF Pass
  <2> HIDE DEF q
  <2>5. Applied(q, graph, p.at - 1)
    BY <1>2, <1>4, <1>12, <2>4, AppliedNode DEF Leaf, IsLeaf
  <2> QED BY <1>1, <2>1, <2>3, <2>4, <2>5, AppliesStep
<1>13. CASE Ends(t, "failed")
  BY <1>1, <1>4, <1>13, GivesUp
<1> QED BY <1>10, <1>11, <1>12, <1>13

LEMMA ConsumeStep == \A t \in Threads : PassInv /\ Consume(t) => PassInv'
<1> SUFFICES ASSUME NEW t \in Threads, PassInv, Consume(t) PROVE PassInv'
  OBVIOUS
<1> DEFINE p == pass[t]
           n == p.topology[p.at]
           set == Multiplies(graph, {n})
           took == p.took \cup set
           q == [p EXCEPT !.at = p.at + 1, !.took = took]
           label == IF p.at + 1 > Len(p.topology) THEN "commit" ELSE "consume"
<1>1. /\ pc[t] = "consume" /\ pc[t] \in Inside /\ label \in Inside /\ label # "return"
      /\ UNCHANGED <<graph, enabled, grad, holder, calls, owed, spent>>
  BY DEF Consume, Inside, Labels
<1>2. /\ holder = t /\ p \in Pass /\ Sound(graph) /\ pass \in [Threads -> Pass]
      /\ saved \subseteq Nodes /\ grad \in [Nodes -> Int]
      /\ Stage(p, graph, saved, "consume")
      /\ \A m \in Nodes : grad[m] = owed[m] + Missing(p, graph, "consume", m)
  BY <1>1, Entered
<1>3. Consuming(p, graph, saved)
  BY <1>2 DEF Stage
<1>4. n \in Nodes /\ HasValues(graph, saved, n)
  BY <1>2, <1>3, Consumes
<1>5. p.at \in Nat /\ p.at + 1 \in Nat
  BY <1>2 DEF Pass
<1>6. /\ saved' = saved \ set /\ pc' = [pc EXCEPT ![t] = label]
      /\ pass' = [pass EXCEPT ![t].at = p.at + 1, ![t].took = took]
  <2>1. HasSavedValues(n)
    BY <1>4 DEF HasSavedValues, HasValues
  <2>2. CASE graph[n].kind = "multiply"
    <3>1. set = {n}
      BY <2>2 DEF Multiplies
    <3> QED BY <2>1, <2>2, <3>1 DEF Consume, NextAt, Goto
  <2>3. CASE graph[n].kind # "multiply"
    <3>1. set = {}
      BY <2>3 DEF Multiplies
    <3>2. saved \ set = saved /\ took = p.took
      BY <3>1
    <3> QED BY <2>1, <2>3, <3>2 DEF Consume, NextAt, Goto
  <2> QED BY <2>2, <2>3
<1>7. took \subseteq Nodes /\ saved \ set \subseteq Nodes
  BY <1>2, <1>4 DEF Multiplies, Pass
<1> HIDE DEF took, label
<1>8. /\ pass' = [pass EXCEPT ![t] = q] /\ q \in Pass
      /\ q.roots = p.roots /\ q.topology = p.topology /\ q.result = p.result
      /\ q.given = p.given /\ q.commits = p.commits /\ q.skipped = p.skipped
      /\ q.at = p.at + 1 /\ q.took = took
  BY <1>2, <1>5, <1>6, <1>7 DEF Pass
<1> HIDE DEF q
<1>9. /\ q.at <= Len(q.topology) => Consuming(q, graph, saved')
      /\ q.at > Len(q.topology) =>
           Committing(q, graph) /\ \A m \in Nodes : Owing(q.commits, m) = DueIn(graph, q, m)
  <2> HIDE DEF n
  <2>1. q.took = p.took \cup Multiplies(graph, {p.topology[p.at]})
    BY <1>8 DEF took, n
  <2>2. saved' = saved \ Multiplies(graph, {p.topology[p.at]})
    BY <1>6 DEF n
  <2>3. \A a \in Pass : \A r :
          /\ a.roots = p.roots /\ a.topology = p.topology /\ a.result = p.result
          /\ a.given = p.given /\ a.commits = p.commits /\ a.skipped = p.skipped
          /\ a.at = p.at + 1
          /\ a.took = p.took \cup Multiplies(graph, {p.topology[p.at]})
          /\ r = saved \ Multiplies(graph, {p.topology[p.at]})
          => /\ a.at <= Len(a.topology) => Consuming(a, graph, r)
             /\ a.at > Len(a.topology) =>
                  Committing(a, graph) /\ \A m \in Nodes : Owing(a.commits, m) = DueIn(graph, a, m)
    BY <1>2, <1>3, Consumes
  <2> HIDE DEF set, p
  <2> QED BY <1>8, <2>1, <2>2, <2>3
<1>10. Len(q.topology) \in Nat
  BY <1>8 DEF Pass
<1>11. Stage(q, graph, saved', label)
  BY <1>5, <1>8, <1>9, <1>10 DEF Stage, label
<1>12. \A m \in Nodes : grad[m] = owed[m] + Missing(q, graph, label, m)
  <2>1. ASSUME NEW m \in Nodes PROVE Missing(q, graph, label, m) = 0 /\ Missing(p, graph, "consume", m) = 0
    <3>1. DueIn(graph, q, m) \in Int
      BY <1>2, <1>8, DueInt
    <3>2. label = "commit" => Owing(q.commits, m) = DueIn(graph, q, m)
      BY <1>5, <1>8, <1>9, <1>10 DEF label
    <3> QED BY <1>1, <3>1, <3>2 DEF Missing
  <2> QED BY <1>2, <2>1
<1>13. \A m \in saved \cup pass[t].took : m \in saved' \/ m \in q.took
  BY <1>6, <1>8 DEF took
<1>14. /\ holder = t /\ holder' = t /\ UNCHANGED <<graph, enabled, owed, spent>>
       /\ label # "return" /\ label \in Inside /\ q \in Pass
       /\ pc' = [pc EXCEPT ![t] = label] /\ pass' = [pass EXCEPT ![t] = q]
       /\ saved' \subseteq Nodes /\ grad' \in [Nodes -> Int]
       /\ \A m \in Nodes : grad'[m] = owed[m] + Missing(q, graph, label, m)
  BY <1>1, <1>2, <1>6, <1>7, <1>8, <1>12
<1> HIDE DEF p
<1> QED BY <1>11, <1>13, <1>14, Moves

\* The hypothesis: no gradient has to be laid out anew.
LEMMA CommitStep ==
  "strided" \notin Layouts => \A t \in Threads : PassInv /\ Commit(t) => PassInv'
<1> SUFFICES ASSUME "strided" \notin Layouts, NEW t \in Threads, PassInv, Commit(t) PROVE PassInv'
  OBVIOUS
<1> DEFINE p == pass[t]
           c == p.commits
<1>1. /\ pc[t] = "commit" /\ pc[t] \in Inside /\ "return" \in Inside /\ "commit" \in Inside
      /\ UNCHANGED <<graph, saved, enabled, holder, calls, owed, spent>>
  BY DEF Commit, Inside, Labels
<1>2. /\ holder = t /\ p \in Pass /\ Sound(graph) /\ pass \in [Threads -> Pass]
      /\ saved \subseteq Nodes /\ grad \in [Nodes -> Int] /\ owed \in [Nodes -> Int]
      /\ Stage(p, graph, saved, "commit")
      /\ \A n \in Nodes : grad[n] = owed[n] + Missing(p, graph, "commit", n)
  BY <1>1, Entered
<1>3. Committing(p, graph) /\ c \in Seq(Owed) /\ Single(c)
  BY <1>2 DEF Stage, Committing, Pass
<1>4. \A n \in Nodes : grad[n] = owed[n] + (DueIn(graph, p, n) - Owing(c, n))
  BY <1>2 DEF Missing
<1>5. \A q \in Pass : q.roots = p.roots /\ q.skipped = p.skipped =>
        \A n : DueIn(graph, q, n) = DueIn(graph, p, n)
  BY DEF DueIn
<1>6. \A n \in Nodes : DueIn(graph, p, n) \in Int
  BY <1>2, DueInt
<1>7. CASE c = <<>>
  <2> DEFINE q == [p EXCEPT !.result = "ok"]
  <2>1. /\ pass' = [pass EXCEPT ![t].result = "ok"] /\ pc' = [pc EXCEPT ![t] = "return"]
        /\ UNCHANGED grad
    BY <1>7 DEF Commit, Ends, Goto
  <2>2. /\ q \in Pass /\ pass' = [pass EXCEPT ![t] = q] /\ q.roots = p.roots /\ q.skipped = p.skipped
        /\ q.topology = p.topology /\ q.took = p.took /\ q.given = p.given /\ q.result = "ok"
    BY <1>2, <2>1 DEF Pass
  <2> HIDE DEF q
  <2>3. Stage(q, graph, saved, "return")
    <3>1. Returning(q, graph)
      BY <1>2, <1>3, <1>7, <2>2, Commits
    <3> QED BY <3>1 DEF Stage
  <2>4. \A n \in Nodes : grad[n] = owed[n] + Missing(q, graph, "return", n)
    <3>1. ASSUME NEW n \in Nodes PROVE grad[n] = owed[n] + Missing(q, graph, "return", n)
      <4>1. Owing(c, n) = 0
        BY <1>7, NoCommits
      <4>2. Missing(q, graph, "return", n) = DueIn(graph, p, n)
        BY <1>5, <2>2 DEF Missing
      <4> QED BY <1>4, <1>6, <4>1, <4>2
    <3> QED BY <3>1
  <2>5. /\ holder = t /\ holder' = t /\ UNCHANGED <<graph, enabled, owed, spent>>
        /\ "return" \in Inside /\ q \in Pass /\ q.result # "freed"
        /\ pc' = [pc EXCEPT ![t] = "return"] /\ pass' = [pass EXCEPT ![t] = q]
        /\ saved' \subseteq Nodes /\ grad' \in [Nodes -> Int] /\ Stage(q, graph, saved', "return")
        /\ \A n \in Nodes : grad'[n] = owed[n] + Missing(q, graph, "return", n)
        /\ \A n \in saved \cup pass[t].took : n \in saved' \/ n \in q.took
    BY <1>1, <1>2, <2>1, <2>2, <2>3, <2>4
  <2> HIDE DEF p
  <2> QED BY <2>5, Moves
<1>8. CASE c # <<>>
  <2> DEFINE leaf == Head(c).leaf
             given == p.given \cup {leaf}
             rest == Tail(c)
             q == [p EXCEPT !.commits = rest, !.given = given]
  <2>1. /\ rest \in Seq(Owed) /\ Single(rest) /\ Head(c) \in Owed
        /\ leaf \in CommitLeaves(c)
        /\ Owing(c, leaf) = Head(c).gradient /\ Owing(rest, leaf) = 0
        /\ \A l : l # leaf => Owing(rest, l) = Owing(c, l)
    BY <1>3, <1>8, OwingTail
  <2>2. leaf \in Nodes /\ Head(c).gradient \in Int
    BY <2>1 DEF Owed
  <2>3. graph[leaf].layout # "strided"
    <3>1. Leaf(graph, leaf)
      BY <1>3, <2>1 DEF Committing, Leaves
    <3> QED BY <2>2, <3>1 DEF PassInv, Types
  <2>4. /\ grad' = [grad EXCEPT ![leaf] = grad[leaf] + Head(c).gradient]
        /\ pass' = [pass EXCEPT ![t].commits = rest, ![t].given = given]
        /\ UNCHANGED pc
    BY <1>8, <2>3 DEF Commit
  <2> HIDE DEF rest
  <2>5. given \subseteq Nodes
    BY <1>2, <2>2 DEF Pass
  <2> HIDE DEF given
  <2>6. /\ q \in Pass /\ pass' = [pass EXCEPT ![t] = q] /\ q.roots = p.roots /\ q.skipped = p.skipped
        /\ q.topology = p.topology /\ q.took = p.took /\ q.given = given /\ q.result = p.result
        /\ q.commits = rest
    BY <1>2, <2>1, <2>4, <2>5 DEF Pass
  <2> HIDE DEF q
  <2>7. Stage(q, graph, saved, "commit")
    <3>1. Committing(q, graph)
      BY <1>2, <1>3, <1>8, <2>6, Commits DEF given, rest
    <3> QED BY <3>1 DEF Stage
  <2>8. pc' = [pc EXCEPT ![t] = "commit"]
    BY <1>1, <2>4 DEF PassInv, Types
  <2>9. grad' \in [Nodes -> Int]
    BY <1>2, <2>2, <2>4
  <2>10. ASSUME NEW n \in Nodes PROVE grad'[n] = owed[n] + Missing(q, graph, "commit", n)
    <3>1. Missing(q, graph, "commit", n) = DueIn(graph, p, n) - Owing(rest, n)
      BY <1>5, <2>6 DEF Missing
    <3>2. grad[n] \in Int /\ owed[n] \in Int /\ DueIn(graph, p, n) \in Int
      BY <1>2, <1>6
    <3>3. CASE n = leaf
      <4>1. grad'[n] = grad[n] + Head(c).gradient
        BY <1>2, <2>2, <2>4, <3>3
      <4>2. grad[n] = owed[n] + (DueIn(graph, p, n) - Head(c).gradient)
        BY <1>4, <2>1, <3>3
      <4>3. Missing(q, graph, "commit", n) = DueIn(graph, p, n) - 0
        BY <2>1, <3>1, <3>3
      <4> QED BY <2>2, <3>2, <4>1, <4>2, <4>3
    <3>4. CASE n # leaf
      <4>1. grad'[n] = grad[n]
        BY <1>2, <2>2, <2>4, <3>4
      <4> QED BY <1>4, <2>1, <3>1, <3>4, <4>1
    <3> QED BY <3>3, <3>4
  <2>11. /\ holder = t /\ holder' = t /\ UNCHANGED <<graph, enabled, owed, spent>>
         /\ "commit" \in Inside /\ q \in Pass
         /\ pc' = [pc EXCEPT ![t] = "commit"] /\ pass' = [pass EXCEPT ![t] = q]
         /\ saved' \subseteq Nodes /\ grad' \in [Nodes -> Int] /\ Stage(q, graph, saved', "commit")
         /\ \A n \in Nodes : grad'[n] = owed[n] + Missing(q, graph, "commit", n)
         /\ \A n \in saved \cup pass[t].took : n \in saved' \/ n \in q.took
    BY <1>1, <1>2, <2>6, <2>7, <2>8, <2>9, <2>10
  <2> HIDE DEF p
  <2> QED BY <2>11, Moves
<1> QED BY <1>7, <1>8

LEMMA ReturnStep == \A t \in Threads : PassInv /\ Return(t) => PassInv'
<1> SUFFICES ASSUME NEW t \in Threads, PassInv, Return(t) PROVE PassInv'
  OBVIOUS
<1> DEFINE p == pass[t]
<1>1. /\ pc[t] = "return" /\ pc[t] \in Inside /\ holder' = None
      /\ pass' = [pass EXCEPT ![t] = NoPass] /\ pc' = [pc EXCEPT ![t] = "idle"]
      /\ UNCHANGED <<graph, saved, enabled, grad, calls>>
  BY DEF Return, Goto, Inside, Labels
<1>2. /\ holder = t /\ p \in Pass /\ Sound(graph) /\ pass \in [Threads -> Pass]
      /\ saved \subseteq Nodes /\ spent \subseteq Nodes
      /\ grad \in [Nodes -> Int] /\ owed \in [Nodes -> Int]
      /\ Stage(p, graph, saved, "return")
      /\ \A n \in Nodes : grad[n] = owed[n] + Missing(p, graph, "return", n)
  BY <1>1, Entered
<1>3. Returning(p, graph)
  BY <1>2 DEF Stage
<1>4. NoPass \in Pass
  <2>1. <<>> \in Seq(Tensor)
    OBVIOUS
  <2> QED BY <2>1, RestTypes
<1>5. /\ pass'[t] = NoPass /\ pc'[t] = "idle"
      /\ \A u \in Threads \ {t} : pc'[u] = pc[u] /\ pass'[u] = pass[u]
  BY <1>1, <1>2 DEF PassInv, Types
<1>6. \A n \in Nodes : Due(t, n) = DueIn(graph, p, n) /\ DueIn(graph, p, n) \in Int
  BY <1>2, DueIs, DueInt
<1>7. /\ owed' \in [Nodes -> Int] /\ \A n \in Nodes : grad[n] = owed'[n]
      /\ spent' \subseteq Nodes /\ spent \subseteq spent' /\ p.took \subseteq spent'
  <2>1. CASE p.result = "ok"
    <3>1. owed' = [n \in Nodes |-> owed[n] + Due(t, n)] /\ spent' = spent \cup p.took
      BY <2>1 DEF Return
    <3>2. \A n \in Nodes : owed'[n] = owed[n] + DueIn(graph, p, n) /\ owed'[n] \in Int
      BY <1>2, <1>6, <3>1
    <3>3. \A n \in Nodes : grad[n] = owed[n] + DueIn(graph, p, n)
      BY <1>2, <2>1 DEF Missing
    <3>4. p.took \subseteq Nodes
      BY <1>2 DEF Pass
    <3>5. owed' = [n \in Nodes |-> owed'[n]]
      BY <3>1
    <3> QED BY <1>2, <3>1, <3>2, <3>3, <3>4, <3>5
  <2>2. CASE p.result # "ok"
    <3>1. owed' = owed /\ spent' = spent
      BY <2>2 DEF Return
    <3>2. p.took = {}
      BY <1>3, <2>2 DEF Returning, Untouched
    <3>3. \A n \in Nodes : grad[n] = owed[n] + 0 /\ owed[n] \in Int
      BY <1>2, <2>2 DEF Missing
    <3> QED BY <1>2, <3>1, <3>2, <3>3
  <2> QED BY <2>1, <2>2
<1>8. Types'
  <2>1. "idle" \in Labels
    BY DEF Labels
  <2> QED BY <1>1, <1>2, <1>4, <1>7, <2>1 DEF PassInv, Types
<1>9. \A u \in Threads : pc'[u] \notin Inside
  <2>1. \A u \in Threads \ {t} : pc[u] \notin Inside
    BY <1>2 DEF PassInv, Locked
  <2> QED BY <1>5, <2>1 DEF Inside
<1>10. Locked'
  BY <1>1, <1>9, BackwardConstants DEF Locked
<1>11. Staged'
  <2>1. Stage(NoPass, graph, saved, "idle")
    BY DEF Stage
  <2>2. \A u \in Threads : Stage(pass'[u], graph, saved, pc'[u])
    BY <1>5, <2>1 DEF PassInv, Staged
  <2> QED BY <1>1, <2>2 DEF Staged
<1>12. Values'
  <2> SUFFICES ASSUME NEW n \in Known(graph), graph[n].kind = "multiply"
               PROVE  n \in saved \/ n \in spent' \/ \E u \in Threads : n \in pass'[u].took
    BY <1>1 DEF Values
  <2>1. n \in saved \/ n \in spent \/ \E u \in Threads : n \in pass[u].took
    BY DEF PassInv, Values
  <2> QED BY <1>5, <1>7, <2>1
<1>13. Freed'
  BY <1>9 DEF Freed, Inside, Labels
<1>14. Ledger'
  <2>1. grad = owed'
    BY <1>2, <1>7
  <2> QED BY <1>1, <2>1, BackwardConstants DEF Ledger
<1> QED BY <1>8, <1>10, <1>11, <1>12, <1>13, <1>14 DEF PassInv

LEMMA PassInvStarts == Init => PassInv
<1> SUFFICES ASSUME Init PROVE PassInv
  OBVIOUS
<1>1. NoPass \in Pass /\ NoPass.took = {}
  <2>1. <<>> \in Seq(Tensor)
    OBVIOUS
  <2> QED BY <2>1, RestTypes DEF NoPass
<1>2. \A n \in Nodes : graph[n] = Absent
  BY DEF Init
<1>3. Absent.kind = "absent" /\ Absent.edges = <<>>
  BY DEF Absent
<1>4. Known(graph) = {} /\ \A n \in Nodes : ~Leaf(graph, n)
  BY <1>2, <1>3 DEF Known, Leaf
<1>5. Sound(graph)
  <2>1. \A n \in Nodes : SoundNode(graph, n)
    <3>1. <<>> \in Seq(Tensor) /\ DOMAIN <<>> = {} /\ Len(<<>>) <= 2
      BY EmptyBlocks
    <3>2. ASSUME NEW n \in Nodes PROVE SoundNode(graph, n)
      <4>1. graph[n].kind = "absent" /\ graph[n].edges = <<>>
        BY <1>2, <1>3
      <4>2. DOMAIN graph[n].edges = {} /\ graph[n].edges \in Seq(Tensor) /\ Len(graph[n].edges) <= 2
        BY <3>1, <4>1
      <4>3. graph[n].kind \in AllKinds
        BY <4>1 DEF AllKinds
      <4> QED BY <4>1, <4>2, <4>3 DEF SoundNode
    <3> QED BY <3>2
  <2>2. DOMAIN graph = Nodes
    BY DEF Init
  <2> QED BY <1>4, <2>1, <2>2 DEF Sound
<1>6. Types
  BY <1>1, <1>4, <1>5 DEF Init, Types, Labels
<1>7. Locked
  BY BackwardConstants DEF Init, Locked, Inside
<1>8. Staged
  BY DEF Init, Staged, Stage
<1>9. Values /\ Freed /\ Ledger
  BY <1>4, BackwardConstants DEF Init, Values, Freed, Ledger
<1> QED BY <1>6, <1>7, <1>8, <1>9 DEF PassInv

LEMMA PassInvKept == "strided" \notin Layouts => (PassInv /\ [Next]_vars => PassInv')
<1> SUFFICES ASSUME "strided" \notin Layouts, PassInv, [Next]_vars PROVE PassInv'
  OBVIOUS
<1>1. CASE UNCHANGED vars
  BY <1>1 DEF vars, PassInv, Types, Locked, Staged, Values, Freed, Ledger
<1>2. ASSUME NEW t \in Threads,
             Record(t) \/ Toggle(t) \/ BeginBackward(t) \/ BeginLeaves(t)
      PROVE  PassInv'
  BY <1>2, RecordStep, ToggleStep, BeginBackwardStep, BeginLeavesStep
<1>3. ASSUME NEW t \in Threads, Step(t) PROVE PassInv'
  BY <1>3, LockStep, LockLeavesStep, EnterNodeStep, ExitNodeStep, ApplyStep, ConsumeStep,
     CommitStep, ReturnStep DEF Step
<1> QED BY <1>1, <1>2, <1>3 DEF Next

\* The hypothesis is on the code's memory: as long as no gradient has to be
\* laid out anew, accumulate_leaf_gradient cannot fail.
THEOREM PassInvHolds == "strided" \notin Layouts => (Spec => []PassInv)
<1> SUFFICES ASSUME "strided" \notin Layouts PROVE Spec => []PassInv
  OBVIOUS
<1>1. Init => PassInv
  BY PassInvStarts
<1>2. PassInv /\ [Next]_vars => PassInv'
  BY PassInvKept
<1> QED BY <1>1, <1>2, PTL DEF Spec

-----------------------------------------------------------------------------
(***************************************************************************)
(* What follows for the properties.                                        *)
(***************************************************************************)
\* run_backward and backward_leaf_roots are transactions: a call that is back
\* with Ok consumed all saved values it reached and gave every leaf that
\* accumulates its gradient; any other consumed and gave nothing.
THEOREM CallsAreTransactions == "strided" \notin Layouts => (Spec => []Transaction)
<1>1. PassInv => Transaction
  <2> SUFFICES ASSUME PassInv, NEW t \in Threads, pc[t] = "return"
               PROVE  LET p == pass[t] IN
                      IF p.result = "ok"
                      THEN /\ p.given = {n \in Reach(t) : IsLeaf(n)} \ p.skipped
                           /\ p.topology # <<>> =>
                                p.took = {n \in Reach(t) : graph[n].kind = "multiply"}
                      ELSE p.given = {} /\ p.took = {}
    BY DEF Transaction
  <2>1. Returning(pass[t], graph)
    BY DEF PassInv, Staged, Stage
  <2>2. Reach(t) = ReachOf(graph, pass[t].roots)
    BY ReachIs
  <2> QED BY <2>1, <2>2 DEF Returning, TookAll, Untouched, Leaves, Leaf, IsLeaf, Multiplies
<1> QED BY <1>1, PassInvHolds, PTL

\* validate_saved_values refuses a graph only after an earlier call over some
\* of it succeeded: no failed call leaves a graph half consumed.
THEOREM FreedGraphsWereUsed == "strided" \notin Layouts => (Spec => []FreedOnlyBySuccess)
<1>1. PassInv => FreedOnlyBySuccess
  BY ReachIs DEF PassInv, Freed, FreedOnlyBySuccess
<1> QED BY <1>1, PassInvHolds, PTL

\* accumulate_leaf_gradient: outside of commits, each leaf has the sum of the
\* derivatives of all roots of all successful calls, nothing lost, nothing twice.
THEOREM LeavesGetWhatTheyAreOwed == "strided" \notin Layouts => (Spec => []GradientsAreOwed)
<1>1. PassInv => GradientsAreOwed
  <2> SUFFICES ASSUME PassInv, \A t \in Threads : pc[t] \notin {"commit", "return"}
               PROVE  grad = owed
    BY DEF GradientsAreOwed
  <2>1. holder \in Threads \cup {None} /\ grad \in [Nodes -> Int] /\ owed \in [Nodes -> Int]
    BY DEF PassInv, Types
  <2>2. CASE holder = None
    BY <2>2 DEF PassInv, Ledger
  <2>3. CASE holder \in Threads
    <3>1. \A n \in Nodes : grad[n] = owed[n] + Missing(pass[holder], graph, pc[holder], n)
      BY <2>3 DEF PassInv, Ledger
    <3>2. \A n \in Nodes : Missing(pass[holder], graph, pc[holder], n) = 0
      BY <2>3 DEF Missing
    <3>3. \A n \in Nodes : grad[n] = owed[n]
      BY <2>1, <3>1, <3>2
    <3> QED BY <2>1, <3>3
  <2> QED BY <2>1, <2>2, <2>3
<1> QED BY <1>1, PassInvHolds, PTL

\* What "a failed backward leaves saved values untouched" needs: accumulation
\* that cannot fail.  Where it can, the calls of the run BackwardMemory violate it.
THEOREM ConsumptionIsCommitted == "strided" \notin Layouts => (Spec => []ConsumedMeansCommitted)
<1>1. Transaction => ConsumedMeansCommitted
  BY DEF Transaction, ConsumedMeansCommitted
<1> QED BY <1>1, CallsAreTransactions, PTL
=============================================================================
