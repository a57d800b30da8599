------------------------- MODULE TorchFunctionProofs -------------------------
(***************************************************************************)
(* Calls that may be overridden: what every function and method of         *)
(* TensorCalls does with any arguments, and from it, however calls nest,   *)
(* that handlers are asked in order and none is passed over, that no       *)
(* argument is lost, and that native code is given only what it can take.  *)
(***************************************************************************)
EXTENDS ProcessStateProofs

-----------------------------------------------------------------------------
(***************************************************************************)
(* The list of objects that Python's callers are asked from.               *)
(***************************************************************************)
Handled(v) == probe_torch_function_override(v) /\ v.name # "type"

Orderly(s) ==
  /\ s \in Seq(ToSet(s))
  /\ \A i \in DOMAIN s : Handled(s[i])
  /\ \A j, k \in DOMAIN s : j < k =>
       /\ ~StrictlyBelow(s[k], s[j])
       /\ s[k].kind = "override" => s[j].name # s[k].name

Lists(s, v) == \E i \in DOMAIN s : s[i].name = v.name

LEMMA LeastOf ==
  ASSUME NEW S \in SUBSET Nat, S # {}
  PROVE  Min(S) \in S /\ \A n \in S : Min(S) <= n
<1>1. PICK n \in S : \A m \in S : <<m, n>> \notin OpToRel(<, Nat)
  BY NatLessThanWellFounded, WFMin
<1>2. \A m \in S : n <= m
  <2>1. \A m \in S : ~(m < n)
    BY <1>1 DEF OpToRel
  <2> QED BY <2>1
<1>3. \E x \in S : \A y \in S : x <= y
  BY <1>2
<1> QED BY <1>3 DEF Min

InsertedIn(V, s, m, v, r) ==
  /\ r \in Seq(V) /\ Len(r) = Len(s) + 1 /\ r[m] = v
  /\ \A i \in 1..(m - 1) : r[i] = s[i]
  /\ \A i \in (m + 1)..(Len(s) + 1) : r[i] = s[i - 1]

LEMMA Inserted ==
  ASSUME NEW V, NEW s \in Seq(V), NEW v \in V, NEW m \in 1..Len(s)
  PROVE  InsertedIn(V, s, m, v, InsertAt(s, m, v))
<1> DEFINE a == SubSeq(s, 1, m - 1)
           b == SubSeq(s, m, Len(s))
           c == a \o <<v>>
<1>1. /\ a \in Seq(V) /\ Len(a) = m - 1 /\ \A i \in 1..(m - 1) : a[i] = s[i]
  OBVIOUS
<1>2. /\ b \in Seq(V) /\ Len(b) = Len(s) - m + 1
      /\ \A i \in 1..(Len(s) - m + 1) : b[i] = s[m + i - 1]
  OBVIOUS
<1> HIDE DEF a, b
<1>3. /\ c \in Seq(V) /\ Len(c) = m /\ c[m] = v /\ \A i \in 1..(m - 1) : c[i] = s[i]
  BY <1>1
<1> HIDE DEF c
<1> DEFINE r == c \o b
<1>4. /\ r \in Seq(V) /\ Len(r) = Len(s) + 1
      /\ \A i \in 1..m : r[i] = c[i]
      /\ \A i \in (m + 1)..(Len(s) + 1) : r[i] = b[i - m]
  <2>1. Len(c) \in Nat /\ Len(b) \in Nat /\ m \in Nat /\ Len(s) \in Nat
    BY <1>2, <1>3
  <2>2. /\ r \in Seq(V) /\ Len(r) = Len(c) + Len(b)
        /\ \A i \in 1..(Len(c) + Len(b)) : r[i] = IF i <= Len(c) THEN c[i] ELSE b[i - Len(c)]
    <3>1. c \in Seq(V) /\ b \in Seq(V)
      BY <1>2, <1>3
    <3> QED BY <3>1
  <2> HIDE DEF r
  <2> QED BY <1>2, <1>3, <2>1, <2>2
<1> HIDE DEF r
<1>5. r[m] = v /\ \A i \in 1..(m - 1) : r[i] = s[i]
  BY <1>3, <1>4
<1>6. ASSUME NEW i \in (m + 1)..(Len(s) + 1) PROVE r[i] = s[i - 1]
  <2>1. i - m \in 1..(Len(s) - m + 1) /\ m + (i - m) - 1 = i - 1
    OBVIOUS
  <2> QED BY <1>2, <1>4, <2>1
<1>7. InsertAt(s, m, v) = r
  BY DEF InsertAt, r, c, a, b
<1>8. InsertedIn(V, s, m, v, r)
  BY <1>4, <1>5, <1>6 DEF InsertedIn
<1> QED BY <1>7, <1>8

\* An incoming object is put before the first class it is or derives from.
LEMMA InsertOrderly ==
  ASSUME NEW V, NEW s \in Seq(V), NEW v \in V, Orderly(s), Handled(v)
  PROVE  LET r == insert_ordered_torch_function_override(s, v)
         IN  /\ r \in Seq(V) /\ Orderly(r) /\ Lists(r, v)
             /\ \A u : Lists(s, u) => Lists(r, u)
<1> DEFINE p == PrecedenceType(v)
           above == {i \in DOMAIN s : <<p, s[i].name>> \in Subclass}
           r == insert_ordered_torch_function_override(s, v)
           Good == r \in Seq(V) /\ Orderly(r) /\ Lists(r, v) /\ \A u : Lists(s, u) => Lists(r, u)
<1> SUFFICES Good
  OBVIOUS
<1>0. /\ DOMAIN s = 1..Len(s) /\ Len(s) \in Nat /\ above \in SUBSET Nat
      /\ v.kind \in {"override", "class"} /\ v.name # "type"
      /\ p = IF v.kind = "class" THEN "type" ELSE v.name
  BY DEF Handled, probe_torch_function_override, PrecedenceType
<1>1. r = IF \E i \in DOMAIN s : s[i].name = p THEN s
          ELSE IF above = {} THEN Append(s, v) ELSE InsertAt(s, Min(above), v)
  BY DEF insert_ordered_torch_function_override, DispatchType
<1>2. \A i \in DOMAIN s : s[i].name # "type"
  BY DEF Orderly, Handled
<1> HIDE DEF r, p
<1>3. CASE \E i \in DOMAIN s : s[i].name = p
  BY <1>0, <1>1, <1>2, <1>3 DEF Lists
<1>4. CASE /\ ~ \E i \in DOMAIN s : s[i].name = p
           /\ above = {}
  <2>1. r = Append(s, v)
    BY <1>1, <1>4
  <2>2. /\ r \in Seq(V) /\ DOMAIN r = 1..(Len(s) + 1) /\ r[Len(s) + 1] = v
        /\ \A i \in 1..Len(s) : r[i] = s[i]
    BY <1>0, <2>1
  <2>3. r \in Seq(ToSet(r))
    BY <2>2 DEF ToSet
  <2>4. \A i \in DOMAIN r : Handled(r[i])
    BY <1>0, <2>2 DEF Orderly
  <2>5. ASSUME NEW j \in DOMAIN r, NEW k \in DOMAIN r, j < k
        PROVE  /\ ~StrictlyBelow(r[k], r[j])
               /\ r[k].kind = "override" => r[j].name # r[k].name
    <3>1. j \in 1..Len(s) /\ r[j] = s[j] /\ (k \in 1..Len(s) \/ k = Len(s) + 1)
      BY <1>0, <2>2, <2>5
    <3>2. CASE k \in 1..Len(s)
      <4>1. r[k] = s[k] /\ j \in DOMAIN s /\ k \in DOMAIN s
        BY <1>0, <2>2, <3>1, <3>2
      <4> QED BY <2>5, <3>1, <4>1 DEF Orderly
    <3>3. CASE k = Len(s) + 1
      <4>1. r[k] = v /\ j \in DOMAIN s /\ s[j].name # p /\ <<p, s[j].name>> \notin Subclass
        BY <1>0, <1>4, <2>2, <3>1, <3>3
      <4> QED BY <1>0, <3>1, <4>1 DEF StrictlyBelow
    <3> QED BY <3>1, <3>2, <3>3
  <2>6. Lists(r, v) /\ \A u : Lists(s, u) => Lists(r, u)
    BY <1>0, <2>2 DEF Lists
  <2> QED BY <2>2, <2>3, <2>4, <2>5, <2>6 DEF Orderly
<1>5. CASE /\ ~ \E i \in DOMAIN s : s[i].name = p
           /\ above # {}
  <2> DEFINE m == Min(above)
  <2>1. m \in above /\ \A i \in above : m <= i
    BY <1>0, <1>5, LeastOf
  <2>2. r = InsertAt(s, m, v) /\ m \in 1..Len(s)
    BY <1>0, <1>1, <1>5, <2>1
  <2> HIDE DEF m
  <2>3. /\ r \in Seq(V) /\ DOMAIN r = 1..(Len(s) + 1) /\ r[m] = v
        /\ \A i \in 1..(m - 1) : r[i] = s[i]
        /\ \A i \in (m + 1)..(Len(s) + 1) : r[i] = s[i - 1]
    <3>1. InsertedIn(V, s, m, v, InsertAt(s, m, v))
      BY <2>2, Inserted
    <3>2. InsertedIn(V, s, m, v, r)
      BY <2>2, <3>1
    <3>3. Len(s) \in Nat
      BY <1>0
    <3> QED BY <3>2, <3>3 DEF InsertedIn
  \* A class comes after all others: none of theirs is above "type".
  <2>4. v.kind = "override" /\ p = v.name
    <3>1. p = "type" => s[m].name = "type"
      BY <2>1, DispatchConstants
    <3> QED BY <1>0, <1>2, <2>1, <3>1
  <2>5. <<v.name, s[m].name>> \in Subclass /\ \A i \in 1..Len(s) : s[i].name # v.name
    BY <1>0, <1>5, <2>1, <2>4
  <2> DEFINE at(i) == IF i < m THEN i ELSE i - 1
  <2>6. \A i \in DOMAIN r : i # m => at(i) \in DOMAIN s /\ r[i] = s[at(i)]
    BY <1>0, <2>2, <2>3
  <2>7. r \in Seq(ToSet(r))
    BY <2>3 DEF ToSet
  <2>8. \A i \in DOMAIN r : Handled(r[i])
    BY <2>3, <2>6 DEF Orderly
  <2>9. ASSUME NEW j \in DOMAIN r, NEW k \in DOMAIN r, j < k
        PROVE  /\ ~StrictlyBelow(r[k], r[j])
               /\ r[k].kind = "override" => r[j].name # r[k].name
    <3>1. j \in Nat /\ k \in Nat
      BY <2>3
    <3>2. CASE j # m /\ k # m
      <4>1. at(j) < at(k)
        BY <2>2, <2>9, <3>1, <3>2
      <4>2. at(j) \in DOMAIN s /\ at(k) \in DOMAIN s /\ r[j] = s[at(j)] /\ r[k] = s[at(k)]
        BY <2>6, <3>2
      <4> HIDE DEF at
      <4> QED BY <4>1, <4>2 DEF Orderly
    <3>3. CASE k = m
      <4>1. j \in DOMAIN s /\ r[j] = s[j] /\ r[k] = v /\ j \notin above
        BY <1>0, <2>1, <2>2, <2>3, <2>9, <3>1, <3>3
      <4> QED BY <1>0, <2>4, <2>5, <4>1 DEF StrictlyBelow
    <3>4. CASE j = m
      <4> DEFINE u == r[k]
      <4>1. k - 1 \in DOMAIN s /\ u = s[k - 1] /\ m <= k - 1 /\ r[j] = v
        BY <1>0, <2>2, <2>3, <2>9, <3>1, <3>4
      <4>2. v.name # u.name
        BY <1>0, <2>5, <4>1
      <4>3. ASSUME u.kind = "override", <<u.name, v.name>> \in Subclass PROVE FALSE
        <5>1. <<u.name, s[m].name>> \in Subclass
          BY <2>5, <4>3, DispatchConstants
        <5>2. CASE k - 1 = m
          BY <2>5, <4>1, <4>2, <4>3, <5>2, DispatchConstants
        <5>3. CASE m < k - 1
          <6>1. ~StrictlyBelow(s[k - 1], s[m]) /\ s[m].name # s[k - 1].name
            BY <1>0, <2>2, <4>1, <4>3, <5>3 DEF Orderly
          <6> QED BY <4>1, <4>3, <5>1, <6>1 DEF StrictlyBelow
        <5> QED BY <2>2, <3>1, <4>1, <5>2, <5>3
      <4> QED BY <4>1, <4>2, <4>3 DEF StrictlyBelow
    <3> QED BY <3>2, <3>3, <3>4
  <2>10. ASSUME NEW u, Lists(s, u) PROVE Lists(r, u)
    <3>1. PICK i \in DOMAIN s : s[i].name = u.name
      BY <2>10 DEF Lists
    <3>2. (IF i < m THEN i ELSE i + 1) \in DOMAIN r
      BY <1>0, <2>2, <2>3
    <3>3. r[IF i < m THEN i ELSE i + 1] = s[i]
      BY <1>0, <2>2, <2>3
    <3> QED BY <3>1, <3>2, <3>3 DEF Lists
  <2>11. Lists(r, v)
    BY <1>0, <2>2, <2>3 DEF Lists
  <2> QED BY <2>3, <2>7, <2>8, <2>9, <2>10, <2>11 DEF Orderly
<1> QED BY <1>3, <1>4, <1>5

\* The list of all the objects that have a handler is orderly.
LEMMA OrderedFacts ==
  ASSUME NEW V, NEW s \in Seq(V), \A v \in V : probe_torch_function_override(v) => v.name # "type"
  PROVE  LET r == Ordered(s)
         IN  /\ r \in Seq(V) /\ Orderly(r)
             /\ \A i \in DOMAIN s : probe_torch_function_override(s[i]) => Lists(r, s[i])
<1> DEFINE N == Len(s)
           keeps(n) == probe_torch_function_override(s[n])
           insert(a, v) == insert_ordered_torch_function_override(a, v)
           A == {a \in Seq(V) : Orderly(a)}
           step == [n \in 1..N |-> [a \in A |-> IF keeps(n) THEN insert(a, s[n]) ELSE a]]
           Right(f) == f = [n \in 0..N |-> IF n = 0 THEN <<>>
                                           ELSE IF keeps(n) THEN insert(f[n - 1], s[n])
                                           ELSE f[n - 1]]
<1>1. N \in Nat /\ \A n \in 1..N : s[n] \in V
  OBVIOUS
<1>2. <<>> \in A
  BY DEF Orderly, ToSet
<1>3. ASSUME NEW n \in 1..N, NEW a \in A, keeps(n)
      PROVE  /\ insert(a, s[n]) \in A
             /\ Lists(insert(a, s[n]), s[n]) /\ \A u : Lists(a, u) => Lists(insert(a, s[n]), u)
  <2>1. s[n] \in V /\ Handled(s[n]) /\ a \in Seq(V) /\ Orderly(a)
    BY <1>1, <1>3 DEF Handled
  <2> DEFINE v == s[n]
  <2> HIDE DEF v
  <2>2. v \in V /\ Handled(v) /\ v = s[n]
    BY <2>1 DEF v
  <2> QED BY <2>1, <2>2, InsertOrderly
<1> HIDE DEF insert, keeps
<1>4. step \in [1..N -> [A -> A]]
  BY <1>3
<1>5. \E f : Right(f)
  <2> DEFINE none == <<>>
  <2>0. N \in Nat /\ none \in A /\ step \in Steps(N, A)
    BY <1>1, <1>2, <1>4 DEF Steps
  <2> HIDE DEF none, step, N, A
  <2>1. PICK f \in [0..N -> A] : f[0] = none /\ \A n \in 1..N : f[n] = step[n][f[n - 1]]
    <3>1. \E f : Recursion(f, N, A, none, step)
      BY <2>0, RecursionDefines
    <3> QED BY <3>1 DEF Recursion
  <2>2. ASSUME NEW n \in 1..N
        PROVE  f[n] = IF keeps(n) THEN insert(f[n - 1], s[n]) ELSE f[n - 1]
    <3>1. n - 1 \in 0..N
      BY <2>0
    <3>2. f[n - 1] \in A
      BY <3>1
    <3> QED BY <2>1, <3>2 DEF step
  <2>3. ASSUME NEW n \in 0..N
        PROVE  f[n] = IF n = 0 THEN <<>> ELSE IF keeps(n) THEN insert(f[n - 1], s[n]) ELSE f[n - 1]
    <3>1. CASE n = 0
      BY <2>1, <3>1 DEF none
    <3>2. CASE n # 0
      <4>1. n \in 1..N
        BY <2>0, <3>2
      <4> QED BY <2>2, <3>2, <4>1
    <3> QED BY <3>1, <3>2
  <2>4. Right(f)
    BY <2>1, <2>3
  <2> HIDE DEF Right
  <2> QED BY <2>4
<1> DEFINE upto == CHOOSE f : Right(f)
<1>6. Right(upto)
  BY <1>5
<1>7. Ordered(s) = upto[N]
  BY DEF Ordered, keeps, insert
<1>8. upto[0] = <<>> /\ \A n \in 1..N : upto[n] = IF keeps(n) THEN insert(upto[n - 1], s[n])
                                                  ELSE upto[n - 1]
  <2> HIDE DEF upto
  <2>1. 0 \in 0..N /\ \A n \in 1..N : n \in 0..N /\ n # 0
    BY <1>1
  <2> QED BY <1>6, <2>1
<1> HIDE DEF upto, Right
<1> DEFINE OK(n) == upto[n] \in A /\ \A i \in 1..n : keeps(i) => Lists(upto[n], s[i])
           G == {n \in Nat : n <= N => OK(n)}
<1>9. 0 \in G
  <2> HIDE DEF A
  <2>1. 1..0 = {} /\ upto[0] \in A
    BY <1>2, <1>8
  <2> QED BY <2>1
<1>10. ASSUME NEW n \in Nat, n \in G PROVE n + 1 \in G
  <2> SUFFICES ASSUME n + 1 <= N PROVE OK(n + 1)
    OBVIOUS
  <2>1. n <= N /\ n + 1 \in 1..N /\ (n + 1) - 1 = n /\ n \in Nat
    BY <1>1
  <2>2. upto[n] \in A /\ \A i \in 1..n : keeps(i) => Lists(upto[n], s[i])
    BY <1>10, <2>1
  <2>3. upto[n + 1] = IF keeps(n + 1) THEN insert(upto[n], s[n + 1]) ELSE upto[n]
    BY <1>8, <2>1
  <2>4. \A i \in 1..(n + 1) : i \in 1..n \/ i = n + 1
    BY <2>1
  <2> HIDE DEF A
  <2>5. CASE keeps(n + 1)
    <3> DEFINE a == upto[n]
               b == upto[n + 1]
    <3>1. b = insert(a, s[n + 1])
      BY <2>3, <2>5
    <3>2. b \in A /\ Lists(b, s[n + 1]) /\ \A u : Lists(a, u) => Lists(b, u)
      BY <1>3, <2>1, <2>2, <2>5, <3>1
    <3> HIDE DEF b
    <3>3. \A i \in 1..n : keeps(i) => Lists(b, s[i])
      BY <2>2, <3>2
    <3>4. \A i \in 1..(n + 1) : keeps(i) => Lists(b, s[i])
      BY <2>4, <3>2, <3>3
    <3> QED BY <3>2, <3>4 DEF b
  <2>6. CASE ~keeps(n + 1)
    BY <2>2, <2>3, <2>4, <2>6
  <2> QED BY <2>5, <2>6
<1> HIDE DEF G
<1>11. N \in G
  BY <1>1, <1>9, <1>10, NatSetInduction
<1>12. OK(N)
  BY <1>1, <1>11 DEF G
<1>13. DOMAIN s = 1..N
  OBVIOUS
<1> QED BY <1>7, <1>12, <1>13 DEF keeps

\* Flattening keeps every item.
LEMMA Flattened ==
  ASSUME NEW V, NEW seqs \in Seq(Seq(V))
  PROVE  LET r == FlattenSeq(seqs)
         IN  /\ r \in Seq(V)
             /\ \A i \in DOMAIN seqs : \A j \in DOMAIN seqs[i] : \E k \in DOMAIN r : r[k] = seqs[i][j]
<1> DEFINE N == Len(seqs)
<1>1. N \in Nat /\ DOMAIN seqs = 1..N /\ \A n \in 1..N : seqs[n] \in Seq(V)
  OBVIOUS
<1>3. CASE N = 0
  <2>1. FlattenSeq(seqs) = seqs /\ seqs = <<>>
    BY <1>1, <1>3 DEF FlattenSeq
  <2> QED BY <2>1
<1>4. CASE N # 0
  <2>0. PICK whole : /\ FlattenSeq(seqs) = whole[Len(seqs)]
                     /\ \A i \in 1..Len(seqs) :
                          whole[i] = IF i = 1 THEN seqs[i] ELSE whole[i - 1] \o seqs[i]
    BY <1>4, FlattenSteps
  <2>4. FlattenSeq(seqs) = whole[N]
    BY <2>0
  <2>5. \A i \in 1..N : whole[i] = IF i = 1 THEN seqs[i] ELSE whole[i - 1] \o seqs[i]
    BY <2>0
  <2> DEFINE Holds(r, n) == /\ r \in Seq(V)
                            /\ \A i \in 1..n : \A j \in DOMAIN seqs[i] : \E k \in DOMAIN r : r[k] = seqs[i][j]
             G == {n \in Nat : n \in 1..N => Holds(whole[n], n)}
  <2>6. 0 \in G
    OBVIOUS
  <2>7. ASSUME NEW n \in Nat, n \in G PROVE n + 1 \in G
    <3> SUFFICES ASSUME n + 1 \in 1..N PROVE Holds(whole[n + 1], n + 1)
      OBVIOUS
    <3> DEFINE r == whole[n + 1]
               t == seqs[n + 1]
    <3>1. t \in Seq(V)
      BY <1>1
    <3>2. CASE n = 0
      <4>1. r = t /\ \A i \in 1..(n + 1) : i = n + 1
        BY <2>5, <3>2
      <4> HIDE DEF r
      <4> QED BY <3>1, <4>1 DEF r
    <3>3. CASE n # 0
      <4> DEFINE a == whole[n]
      <4>1. n \in 1..N /\ n + 1 # 1 /\ (n + 1) - 1 = n
        BY <1>1, <3>3
      <4>2. Holds(a, n) /\ r = a \o t
        BY <2>5, <2>7, <4>1
      <4> HIDE DEF a, r, t
      <4>3. /\ r \in Seq(V) /\ DOMAIN a = 1..Len(a) /\ DOMAIN t = 1..Len(t) /\ DOMAIN r = 1..(Len(a) + Len(t))
            /\ Len(a) \in Nat /\ Len(t) \in Nat
            /\ \A k \in 1..Len(a) : r[k] = a[k]
            /\ \A k \in 1..Len(t) : r[Len(a) + k] = t[k]
        <5>1. a \in Seq(V) /\ t \in Seq(V) /\ r = a \o t
          BY <3>1, <4>2
        <5> HIDE DEF Holds
        <5> QED BY <5>1
      <4>4. ASSUME NEW i \in 1..(n + 1), NEW j \in DOMAIN seqs[i]
            PROVE  \E k \in DOMAIN r : r[k] = seqs[i][j]
        <5>1. CASE i = n + 1
          <6>1. j \in DOMAIN t /\ t[j] = seqs[i][j]
            BY <4>4, <5>1 DEF t
          <6>2. Len(a) + j \in DOMAIN r /\ r[Len(a) + j] = t[j]
            BY <4>3, <6>1
          <6> QED BY <6>1, <6>2
        <5>2. CASE i # n + 1
          <6>1. i \in 1..n
            BY <5>2
          <6>2. PICK k \in DOMAIN a : a[k] = seqs[i][j]
            BY <4>2, <6>1
          <6>3. k \in DOMAIN r /\ r[k] = a[k]
            BY <4>3
          <6> QED BY <6>2, <6>3
        <5> QED BY <5>1, <5>2
      <4> QED BY <4>3, <4>4 DEF r
    <3> QED BY <3>2, <3>3
  <2> HIDE DEF G
  <2>8. N \in G
    BY <1>1, <2>6, <2>7, NatSetInduction
  <2>9. N \in 1..N
    BY <1>1, <1>4
  <2> QED BY <1>1, <2>4, <2>8, <2>9 DEF G
<1> QED BY <1>3, <1>4

-----------------------------------------------------------------------------
(***************************************************************************)
(* Every argument is bound, once.  An alias belongs to one parameter, so   *)
(* that arguments go to different parameters where each keyword finds its  *)
(* own parameter free of any other.                                        *)
(***************************************************************************)
Alias == {"x", "a", "x1", "x2", "axis"}

OwnName(name) ==
  CASE name \in {"x", "a", "x1"} -> "input"
    [] name = "x2" -> "other"
    [] name = "axis" -> "dim"
    [] OTHER -> name

Family(a) == /\ Len(a) \in Nat /\ DOMAIN a = 1..Len(a) /\ 1 \in DOMAIN a
             /\ \A k \in DOMAIN a : OwnName(a[k]) = a[1]

Heads(params) == {params[i][1] : i \in DOMAIN params}

Parameters(params) ==
  /\ Len(params) \in Nat /\ DOMAIN params = 1..Len(params)
  /\ \A i \in DOMAIN params : Family(params[i])
  /\ \A i, j \in DOMAIN params : params[i][1] = params[j][1] => i = j

Positions(c, v) == {i \in DOMAIN c.positional : c.positional[i] = v}

Keywords(c, v) == {k \in DOMAIN c.keywords : c.keywords[k] = v}

PlacesIn(slots, S, v) == {n \in S : slots[n] = v}

Places(slots, v) == PlacesIn(slots, DOMAIN slots, v)

\* Each keyword has a parameter to itself.
Fit(c, params) ==
  /\ Len(c.positional) <= Len(params)
  /\ \A key \in DOMAIN c.keywords : \E i \in DOMAIN params :
       i > Len(c.positional) /\ Spelled(c, params[i]) = {key}

\* These slots hold the arguments, with no list of them.
Plain(c, slots, names) ==
  /\ DOMAIN slots \subseteq names /\ IsFiniteSet(DOMAIN slots)
  /\ \A n \in DOMAIN slots : Argument(slots[n])
  /\ \A v : Cardinality(Places(slots, v)) = Cardinality(Positions(c, v)) + Cardinality(Keywords(c, v))

\* These slots hold the arguments.
Binds(c, slots, names) ==
  /\ DOMAIN slots \subseteq names
  /\ \A n \in DOMAIN slots : Passable(slots[n])
  /\ \A v : Count(Passed(c), v) = Count(Taken(slots), v)

LEMMA FinitePasses ==
  ASSUME NEW c, Passes(c)
  PROVE  /\ Len(c.positional) \in Nat /\ DOMAIN c.positional = 1..Len(c.positional)
         /\ IsFiniteSet(DOMAIN c.positional) /\ IsFiniteSet(DOMAIN c.keywords)
         /\ \A v : IsFiniteSet(Positions(c, v)) /\ IsFiniteSet(Keywords(c, v))
<1>1. Len(c.positional) \in Nat /\ DOMAIN c.positional = 1..Len(c.positional)
  BY DEF Passes
<1>2. IsFiniteSet(DOMAIN c.positional) /\ IsFiniteSet(DOMAIN c.keywords)
  <2>1. 1 \in Int /\ Len(c.positional) \in Int
    BY <1>1
  <2> QED BY <1>1, <2>1, FS_Interval DEF Passes
<1>3. ASSUME NEW v PROVE IsFiniteSet(Positions(c, v)) /\ IsFiniteSet(Keywords(c, v))
  BY <1>2, FS_Subset DEF Positions, Keywords
<1> QED BY <1>1, <1>2, <1>3

LEMMA PassedCount ==
  ASSUME NEW c, Passes(c), NEW v
  PROVE  Count(Passed(c), v) = Cardinality(Positions(c, v)) + Cardinality(Keywords(c, v))
<1> DEFINE f == [i \in DOMAIN c.positional |-> [at |-> <<"positional", i>>, value |-> c.positional[i]]]
           g == [k \in DOMAIN c.keywords |-> [at |-> <<"keyword", k>>, value |-> c.keywords[k]]]
           P == {f[i] : i \in Positions(c, v)}
           K == {g[k] : k \in Keywords(c, v)}
<1>1. IsFiniteSet(Positions(c, v)) /\ IsFiniteSet(Keywords(c, v))
  BY FinitePasses
<1>2. Positions(c, v) \subseteq DOMAIN f /\ Keywords(c, v) \subseteq DOMAIN g
  BY DEF Positions, Keywords
<1>3. /\ \A i, j \in DOMAIN f : f[i] = f[j] => i = j
      /\ \A i, j \in DOMAIN g : g[i] = g[j] => i = j
  <2>1. \A i, j \in DOMAIN f : f[i] = f[j] => <<"positional", i>> = <<"positional", j>>
    OBVIOUS
  <2>2. \A i, j \in DOMAIN g : g[i] = g[j] => <<"keyword", i>> = <<"keyword", j>>
    OBVIOUS
  <2>3. \A s, a, b : <<s, a>> = <<s, b>> => a = b
    OBVIOUS
  <2> HIDE DEF f, g
  <2> QED BY <2>1, <2>2, <2>3
<1>4. {x \in Passed(c) : x.value = v} = P \cup K
  <2> DEFINE A == {f[i] : i \in DOMAIN c.positional}
             B == {g[k] : k \in DOMAIN c.keywords}
  <2>1. Passed(c) = A \cup B
    BY DEF Passed
  <2>2. {x \in A : x.value = v} = P
    <3>1. \A i \in DOMAIN c.positional : f[i].value = c.positional[i]
      OBVIOUS
    <3> HIDE DEF f
    <3> QED BY <3>1 DEF Positions
  <2>3. {x \in B : x.value = v} = K
    <3>1. \A k \in DOMAIN c.keywords : g[k].value = c.keywords[k]
      OBVIOUS
    <3> HIDE DEF g
    <3> QED BY <3>1 DEF Keywords
  <2> HIDE DEF A, B, P, K
  <2> QED BY <2>1, <2>2, <2>3
<1>5. P \cap K = {}
  <2>1. \A i \in DOMAIN f, k \in DOMAIN g : f[i].at = <<"positional", i>> /\ g[k].at = <<"keyword", k>>
    OBVIOUS
  <2>2. \A a, b : <<"positional", a>> # <<"keyword", b>>
    OBVIOUS
  <2> HIDE DEF f, g
  <2> QED BY <1>2, <2>1, <2>2
<1> HIDE DEF f, g
<1>6. /\ IsFiniteSet(P) /\ Cardinality(P) = Cardinality(Positions(c, v))
      /\ IsFiniteSet(K) /\ Cardinality(K) = Cardinality(Keywords(c, v))
  BY <1>1, <1>2, <1>3, SameSize
<1> HIDE DEF P, K
<1>7. Cardinality(P \cup K) = Cardinality(P) + Cardinality(K)
  BY <1>5, <1>6, Apart
<1> QED BY <1>4, <1>6, <1>7 DEF Count

SlotValues(slots, S) == {[at |-> <<"slot", n>>, value |-> slots[n]] : n \in S}

LEMMA TakenCount ==
  ASSUME NEW slots, NEW S, NEW v, IsFiniteSet(S)
  PROVE  /\ IsFiniteSet({x \in SlotValues(slots, S) : x.value = v})
         /\ Count(SlotValues(slots, S), v) = Cardinality(PlacesIn(slots, S, v))
<1> DEFINE f == [n \in S |-> [at |-> <<"slot", n>>, value |-> slots[n]]]
           T == SlotValues(slots, S)
           H == PlacesIn(slots, S, v)
<1>1. IsFiniteSet(H) /\ H \subseteq DOMAIN f
  BY FS_Subset DEF PlacesIn
<1>2. \A i, j \in DOMAIN f : f[i] = f[j] => i = j
  <2>1. \A i, j \in DOMAIN f : f[i] = f[j] => <<"slot", i>> = <<"slot", j>>
    OBVIOUS
  <2>2. \A s, a, b : <<s, a>> = <<s, b>> => a = b
    OBVIOUS
  <2> HIDE DEF f
  <2> QED BY <2>1, <2>2
<1>3. {x \in T : x.value = v} = {f[n] : n \in H}
  <2>1. T = {f[n] : n \in S} /\ \A n \in S : f[n].value = slots[n]
    BY DEF SlotValues
  <2> HIDE DEF f, T
  <2> QED BY <2>1 DEF PlacesIn
<1> HIDE DEF f, H, T
<1>4. IsFiniteSet({f[n] : n \in H}) /\ Cardinality({f[n] : n \in H}) = Cardinality(H)
  BY <1>1, <1>2, SameSize
<1> QED BY <1>3, <1>4 DEF Count, H, T

\* Where no argument is a list of arguments.
LEMMA PlainHeld ==
  ASSUME NEW c, Passes(c), NEW slots, NEW names, Plain(c, slots, names)
  PROVE  Binds(c, slots, names)
<1> DEFINE T == SlotValues(slots, DOMAIN slots)
<1>1. Taken(slots) = T
  <2>1. {name \in DOMAIN slots : slots[name].name = "arguments"} = {}
    BY DEF Plain, Argument
  <2> QED BY <2>1 DEF Taken, SlotValues
<1>2. ASSUME NEW v PROVE Count(T, v) = Cardinality(Places(slots, v))
  BY TakenCount DEF Plain, Places
<1> HIDE DEF T
<1>3. ASSUME NEW v PROVE Count(Passed(c), v) = Count(Taken(slots), v)
  BY <1>1, <1>2, PassedCount DEF Plain
<1> QED BY <1>3 DEF Binds, Plain, Argument

\* Where one of them is that of all the positional ones.
LEMMA GatheredHeld ==
  ASSUME NEW c, Passes(c), NEW slots, NEW names, NEW name, name # "slot",
         name \notin DOMAIN slots, name \in names, DOMAIN slots \subseteq names,
         IsFiniteSet(DOMAIN slots), \A n \in DOMAIN slots : Argument(slots[n]),
         \A v : Cardinality(Places(slots, v)) = Cardinality(Keywords(c, v))
  PROVE  Binds(c, With(slots, name, AllPositional(c)), names)
<1> DEFINE w == With(slots, name, AllPositional(c))
           T == SlotValues(slots, DOMAIN slots)
           L == {[at |-> <<name, i>>, value |-> c.positional[i]] : i \in DOMAIN c.positional}
           all == AllPositional(c)
<1>1. /\ DOMAIN w = DOMAIN slots \cup {name} /\ w[name] = all
      /\ \A n \in DOMAIN slots : w[n] = slots[n]
  BY DEF With
<1>2. all.name = "arguments" /\ all.items = c.positional /\ all.kind = "list"
  BY DEF AllPositional
<1> HIDE DEF w, all
<1>3. Taken(w) = T \cup L
  <2>1. {n \in DOMAIN w : w[n].name = "arguments"} = {name}
    BY <1>1, <1>2 DEF Argument
  <2>2. DOMAIN w \ {name} = DOMAIN slots
    BY <1>1
  <2>3. {[at |-> <<"slot", n>>, value |-> w[n]] : n \in DOMAIN slots} = T
    BY <1>1 DEF SlotValues
  <2>4. {[at |-> <<name, i>>, value |-> w[name].items[i]] : i \in DOMAIN w[name].items} = L
    BY <1>1, <1>2
  <2> QED BY <2>1, <2>2, <2>3, <2>4 DEF Taken
<1>4. ASSUME NEW v PROVE Count(Passed(c), v) = Count(Taken(w), v)
  <2> DEFINE f == [i \in DOMAIN c.positional |-> [at |-> <<name, i>>, value |-> c.positional[i]]]
             P == {f[i] : i \in Positions(c, v)}
             H == {x \in T : x.value = v}
  <2>1. IsFiniteSet(Positions(c, v)) /\ Positions(c, v) \subseteq DOMAIN f
    BY FinitePasses DEF Positions
  <2>2. \A i, j \in DOMAIN f : f[i] = f[j] => i = j
    <3>1. \A i, j \in DOMAIN f : f[i] = f[j] => <<name, i>> = <<name, j>>
      OBVIOUS
    <3>2. \A s, a, b : <<s, a>> = <<s, b>> => a = b
      OBVIOUS
    <3> HIDE DEF f
    <3> QED BY <3>1, <3>2
  <2>3. {x \in L : x.value = v} = P
    <3>1. /\ L = {f[i] : i \in DOMAIN c.positional}
          /\ \A i \in DOMAIN c.positional : f[i].value = c.positional[i]
      OBVIOUS
    <3> HIDE DEF f, L
    <3> QED BY <3>1 DEF Positions
  <2>4. H \cap P = {}
    <3>1. \A x \in H : \E n \in DOMAIN slots : x.at = <<"slot", n>>
      BY DEF SlotValues
    <3>2. \A i \in DOMAIN f : f[i].at = <<name, i>>
      OBVIOUS
    <3>3. \A a, b : <<"slot", a>> # <<name, b>>
      OBVIOUS
    <3> HIDE DEF H, f
    <3> QED BY <2>1, <3>1, <3>2, <3>3
  <2>5. {x \in Taken(w) : x.value = v} = H \cup P
    BY <1>3, <2>3
  <2> HIDE DEF f
  <2>6. IsFiniteSet(P) /\ Cardinality(P) = Cardinality(Positions(c, v))
    BY <2>1, <2>2, SameSize
  <2>7. IsFiniteSet(H) /\ Cardinality(H) = Cardinality(Places(slots, v))
    BY TakenCount DEF Count, Places
  <2> HIDE DEF H, P
  <2>8. Count(Taken(w), v) = Cardinality(Places(slots, v)) + Cardinality(Positions(c, v))
    BY <2>4, <2>5, <2>6, <2>7, Apart DEF Count
  <2>9. Cardinality(Keywords(c, v)) \in Nat /\ Cardinality(Positions(c, v)) \in Nat
    BY FinitePasses, FS_CardinalityType
  <2> QED BY <2>8, <2>9, PassedCount
<1>5. Passable(all)
  <2>1. c.positional \in Seq(ToSet(c.positional)) /\ \A i \in DOMAIN c.positional : Passable(c.positional[i])
    BY DEF Passes, Argument
  <2> QED BY <1>2, <2>1 DEF Passable, probe_torch_function_override
<1> QED BY <1>1, <1>4, <1>5 DEF Binds, Argument, w, all

LEMMA SpelledFirst ==
  ASSUME NEW c, NEW param, Family(param), Spelled(c, param) # {}
  PROVE  FirstSpelled(c, param) \in Spelled(c, param) /\ OwnName(FirstSpelled(c, param)) = param[1]
<1> DEFINE D == {k \in DOMAIN param : param[k] \in DOMAIN c.keywords}
<1>1. D \in SUBSET Nat /\ D # {}
  BY DEF Family, Spelled, ToSet
<1>2. Min(D) \in D
  BY <1>1, LeastOf
<1>3. FirstSpelled(c, param) = param[Min(D)]
  BY DEF FirstSpelled
<1> QED BY <1>2, <1>3 DEF Family, Spelled, ToSet

\* A name that a call spells out belongs to the parameter it is spelled for.
LEMMA SpelledOwn ==
  ASSUME NEW c, NEW params, Parameters(params), NEW i \in DOMAIN params, NEW k \in Spelled(c, params[i])
  PROVE  OwnName(k) = params[i][1] /\ k \in DOMAIN c.keywords
BY DEF Parameters, Family, Spelled, ToSet

LEMMA SlotFacts ==
  ASSUME NEW c, NEW params, Parameters(params)
  PROVE  LET slots == Slots(c, params)
         IN  /\ DOMAIN slots = {params[i][1] : i \in {j \in DOMAIN params : Given(c, params, j)}}
             /\ \A i \in DOMAIN params :
                  Given(c, params, i) => slots[params[i][1]] = ArgumentFor(c, params, i)
<1> DEFINE given == {i \in DOMAIN params : Given(c, params, i)}
           names == {params[i][1] : i \in given}
           chosen(name) == CHOOSE i \in given : params[i][1] = name
           slots == Slots(c, params)
<1>1. slots = [name \in names |-> ArgumentFor(c, params, chosen(name))]
  BY DEF Slots
<1>2. ASSUME NEW i \in DOMAIN params, Given(c, params, i)
      PROVE  slots[params[i][1]] = ArgumentFor(c, params, i)
  <2>1. i \in given /\ params[i][1] \in names
    BY <1>2
  <2>2. chosen(params[i][1]) \in given /\ params[chosen(params[i][1])][1] = params[i][1]
    BY <2>1
  <2> HIDE DEF chosen
  <2>3. chosen(params[i][1]) = i
    BY <2>1, <2>2 DEF Parameters
  <2> HIDE DEF slots, names
  <2> QED BY <1>1, <2>1, <2>3
<1> HIDE DEF chosen
<1> QED BY <1>1, <1>2

\* Where each keyword has a parameter to itself, every argument has its slot.
LEMMA SlotsAccount ==
  ASSUME NEW c, Passes(c), NEW params, Parameters(params), Fit(c, params)
  PROVE  Plain(c, Slots(c, params), Heads(params))
<1> DEFINE slots == Slots(c, params)
           n == Len(c.positional)
           home == [i \in DOMAIN c.positional |-> params[i][1]]
           owner == [k \in DOMAIN c.keywords |-> OwnName(k)]
<1>0. /\ n \in Nat /\ DOMAIN c.positional = 1..n /\ IsFiniteSet(DOMAIN c.positional)
      /\ IsFiniteSet(DOMAIN c.keywords)
  BY FinitePasses
<1>1. /\ DOMAIN slots = {params[i][1] : i \in {j \in DOMAIN params : Given(c, params, j)}}
      /\ \A i \in DOMAIN params : Given(c, params, i) => slots[params[i][1]] = ArgumentFor(c, params, i)
  BY SlotFacts
<1> HIDE DEF slots, n
<1>2. /\ Len(params) \in Nat /\ DOMAIN params = 1..Len(params) /\ n <= Len(params)
      /\ \A i, j \in DOMAIN params : params[i][1] = params[j][1] => i = j
      /\ \A i \in DOMAIN params : Family(params[i])
  BY DEF Parameters, Fit, n
<1>3. ASSUME NEW i \in 1..n
      PROVE  /\ i \in DOMAIN params /\ home[i] = params[i][1]
             /\ home[i] \in DOMAIN slots /\ slots[home[i]] = c.positional[i]
  <2>1. i \in DOMAIN params /\ i \in DOMAIN c.positional
    BY <1>0, <1>2
  <2>2. Given(c, params, i) /\ ArgumentFor(c, params, i) = c.positional[i]
    BY DEF Given, ArgumentFor, n
  <2> QED BY <1>1, <2>1, <2>2
<1>4. ASSUME NEW k \in DOMAIN c.keywords
      PROVE  \E i \in DOMAIN params :
               /\ i > n /\ Spelled(c, params[i]) = {k} /\ owner[k] = params[i][1]
               /\ owner[k] \in DOMAIN slots /\ slots[owner[k]] = c.keywords[k]
  <2>1. PICK i \in DOMAIN params : i > n /\ Spelled(c, params[i]) = {k}
    BY DEF Fit, n
  <2>2. owner[k] = params[i][1]
    BY <2>1, SpelledOwn
  <2>3. FirstSpelled(c, params[i]) = k
    BY <1>2, <2>1, SpelledFirst
  <2>4. ~(i <= n)
    BY <1>0, <1>2, <2>1
  <2>5. Given(c, params, i) /\ ArgumentFor(c, params, i) = c.keywords[k]
    BY <2>1, <2>3, <2>4 DEF Given, ArgumentFor, n
  <2> HIDE DEF home, owner
  <2>6. params[i][1] \in DOMAIN slots
    BY <1>1, <2>5
  <2>7. slots[params[i][1]] = c.keywords[k]
    BY <1>1, <2>5
  <2> QED BY <2>1, <2>2, <2>6, <2>7
<1>5. ASSUME NEW name \in DOMAIN slots
      PROVE  (\E i \in 1..n : name = home[i]) \/ (\E k \in DOMAIN c.keywords : name = owner[k])
  <2>1. PICK i \in DOMAIN params : Given(c, params, i) /\ name = params[i][1]
    BY <1>1
  <2>2. CASE i <= n
    <3>1. i \in 1..n
      BY <1>0, <1>2, <2>2
    <3> QED BY <1>3, <2>1, <3>1
  <2>3. CASE ~(i <= n)
    <3>1. PICK k : k \in Spelled(c, params[i])
      BY <2>1, <2>3 DEF Given, n
    <3>2. k \in DOMAIN c.keywords /\ owner[k] = params[i][1]
      BY <2>1, <3>1, SpelledOwn
    <3> QED BY <2>1, <3>2
  <2> QED BY <2>2, <2>3
<1>6. \A i, j \in 1..n : home[i] = home[j] => i = j
  BY <1>2, <1>3
<1>7. ASSUME NEW k \in DOMAIN c.keywords, NEW l \in DOMAIN c.keywords, owner[k] = owner[l]
      PROVE  k = l
  <2>1. PICK i \in DOMAIN params : Spelled(c, params[i]) = {k} /\ owner[k] = params[i][1]
    BY <1>4
  <2>2. PICK j \in DOMAIN params : Spelled(c, params[j]) = {l} /\ owner[l] = params[j][1]
    BY <1>4
  <2>3. i = j
    BY <1>2, <1>7, <2>1, <2>2
  <2> QED BY <2>1, <2>2, <2>3
<1>8. ASSUME NEW i \in 1..n, NEW k \in DOMAIN c.keywords PROVE home[i] # owner[k]
  <2>1. PICK j \in DOMAIN params : j > n /\ owner[k] = params[j][1]
    BY <1>4
  <2>2. i # j
    BY <1>0, <1>2, <2>1
  <2> QED BY <1>2, <1>3, <2>1, <2>2
<1>9. DOMAIN home = DOMAIN c.positional /\ DOMAIN owner = DOMAIN c.keywords
  OBVIOUS
<1> HIDE DEF home, owner
<1>10. ASSUME NEW name \in DOMAIN slots PROVE Argument(slots[name])
  BY <1>0, <1>3, <1>4, <1>5, <1>10 DEF Passes
<1>11. ASSUME NEW v
       PROVE  Cardinality(Places(slots, v)) = Cardinality(Positions(c, v)) + Cardinality(Keywords(c, v))
  <2> DEFINE P == {home[i] : i \in Positions(c, v)}
             K == {owner[k] : k \in Keywords(c, v)}
  <2>1. Positions(c, v) \subseteq 1..n /\ Keywords(c, v) \subseteq DOMAIN c.keywords
    BY <1>0 DEF Positions, Keywords
  <2>2. Places(slots, v) = P \cup K
    <3>1. ASSUME NEW name \in Places(slots, v) PROVE name \in P \cup K
      <4>1. name \in DOMAIN slots /\ slots[name] = v
        BY DEF Places, PlacesIn
      <4>2. CASE \E i \in 1..n : name = home[i]
        BY <1>0, <1>3, <4>1, <4>2 DEF Positions
      <4>3. CASE \E k \in DOMAIN c.keywords : name = owner[k]
        BY <1>4, <4>1, <4>3 DEF Keywords
      <4> QED BY <1>5, <4>1, <4>2, <4>3
    <3>2. ASSUME NEW name \in P PROVE name \in Places(slots, v)
      <4>1. PICK i \in Positions(c, v) : name = home[i]
        BY <3>2
      <4> QED BY <1>3, <2>1, <4>1 DEF Positions, Places, PlacesIn
    <3>3. ASSUME NEW name \in K PROVE name \in Places(slots, v)
      <4>1. PICK k \in Keywords(c, v) : name = owner[k]
        BY <3>3
      <4>2. slots[owner[k]] = c.keywords[k] /\ owner[k] \in DOMAIN slots
        BY <1>4, <2>1
      <4> QED BY <4>1, <4>2 DEF Keywords, Places, PlacesIn
    <3> QED BY <3>1, <3>2, <3>3
  <2>3. P \cap K = {}
    BY <1>8, <2>1
  <2>4. IsFiniteSet(Positions(c, v)) /\ IsFiniteSet(Keywords(c, v))
    BY FinitePasses
  <2>5. IsFiniteSet(P) /\ Cardinality(P) = Cardinality(Positions(c, v))
    <3>1. /\ Positions(c, v) \subseteq DOMAIN home
          /\ \A i, j \in Positions(c, v) : home[i] = home[j] => i = j
      BY <1>0, <1>6, <1>9, <2>1
    <3> QED BY <2>4, <3>1, SameSize
  <2>6. IsFiniteSet(K) /\ Cardinality(K) = Cardinality(Keywords(c, v))
    BY <1>7, <1>9, <2>1, <2>4, SameSize
  <2> HIDE DEF P, K
  <2> QED BY <2>2, <2>3, <2>5, <2>6, Apart
<1>12. DOMAIN slots \subseteq Heads(params)
  BY <1>1 DEF Heads
<1>13. IsFiniteSet(DOMAIN slots)
  <2> DEFINE P == {home[i] : i \in DOMAIN c.positional}
             K == {owner[k] : k \in DOMAIN c.keywords}
  <2>1. IsFiniteSet(P)
    BY <1>0, <1>6, <1>9, SameSize
  <2>2. IsFiniteSet(K)
    BY <1>0, <1>7, <1>9, SameSize
  <2>3. DOMAIN slots \subseteq P \cup K
    BY <1>0, <1>5
  <2> HIDE DEF P, K
  <2>4. IsFiniteSet(P \cup K)
    BY <2>1, <2>2, FS_Union
  <2> QED BY <2>3, <2>4, FS_Subset
<1> QED BY <1>10, <1>11, <1>12, <1>13 DEF Plain, slots

(***************************************************************************)
(* What the binders check of keywords is enough for that.                  *)
(***************************************************************************)
Filled(c, params) == {i \in DOMAIN params : i > Len(c.positional) /\ Given(c, params, i)}

LEMMA FilledSpelled ==
  ASSUME NEW c, Passes(c), NEW params, Parameters(params), NEW i \in Filled(c, params)
  PROVE  /\ i \in DOMAIN params /\ i > Len(c.positional) /\ Spelled(c, params[i]) # {}
         /\ FirstSpelled(c, params[i]) \in Spelled(c, params[i])
         /\ OwnName(FirstSpelled(c, params[i])) = params[i][1]
<1>1. Len(c.positional) \in Nat /\ i \in Nat /\ i > Len(c.positional) /\ i \in DOMAIN params
  BY FinitePasses DEF Filled, Parameters
<1>2. Spelled(c, params[i]) # {}
  BY <1>1 DEF Filled, Given
<1> QED BY <1>1, <1>2, SpelledFirst DEF Parameters

\* Each keyword is a parameter's own name: no alias is there besides.
LEMMA NamedFits ==
  ASSUME NEW c, Passes(c), NEW params, Parameters(params), Len(c.positional) <= Len(params),
         \A key \in DOMAIN c.keywords : \E i \in DOMAIN params :
           params[i][1] = key /\ i > Len(c.positional)
  PROVE  Fit(c, params)
<1>1. ASSUME NEW key \in DOMAIN c.keywords
      PROVE  \E i \in DOMAIN params : i > Len(c.positional) /\ Spelled(c, params[i]) = {key}
  <2>1. PICK i \in DOMAIN params : params[i][1] = key /\ i > Len(c.positional)
    OBVIOUS
  <2>2. key \in Spelled(c, params[i])
    BY <2>1 DEF Parameters, Family, Spelled, ToSet
  <2>3. ASSUME NEW k \in Spelled(c, params[i]) PROVE k = key
    <3>1. OwnName(k) = params[i][1] /\ k \in DOMAIN c.keywords
      BY <2>3, SpelledOwn
    <3>2. PICK j \in DOMAIN params : params[j][1] = k
      BY <3>1
    <3>3. OwnName(k) = k
      BY <3>2 DEF Parameters, Family
    <3> QED BY <2>1, <3>1, <3>3
  <2> QED BY <2>1, <2>2, <2>3
<1> QED BY <1>1 DEF Fit

\* There are no more keywords than parameters that one fills.
LEMMA FewFit ==
  ASSUME NEW c, Passes(c), NEW params, Parameters(params), Len(c.positional) <= Len(params),
         Cardinality(DOMAIN c.keywords) <= Cardinality(Filled(c, params))
  PROVE  Fit(c, params)
<1> DEFINE S == Filled(c, params)
           K == DOMAIN c.keywords
           f == [i \in S |-> FirstSpelled(c, params[i])]
<1>1. IsFiniteSet(K)
  BY FinitePasses
<1>2. ASSUME NEW i \in S
      PROVE  /\ i \in DOMAIN params /\ i > Len(c.positional)
             /\ f[i] \in Spelled(c, params[i]) /\ f[i] \in K /\ OwnName(f[i]) = params[i][1]
  <2>1. f[i] = FirstSpelled(c, params[i])
    OBVIOUS
  <2> HIDE DEF f, S
  <2>2. i \in Filled(c, params)
    BY DEF S
  <2> QED BY <2>1, <2>2, FilledSpelled DEF Spelled
<1>3. \A i, j \in S : f[i] = f[j] => i = j
  <2> HIDE DEF f, S
  <2> QED BY <1>2 DEF Parameters
<1>4. f \in [S -> K]
  <2>1. f = [i \in S |-> f[i]]
    OBVIOUS
  <2> HIDE DEF f, S, K
  <2> QED BY <1>2, <2>1
<1>5. f \in Injection(S, K)
  BY <1>3, <1>4 DEF Injection, IsInjective
<1> HIDE DEF f, S, K
<1>6. IsFiniteSet(S) /\ Cardinality(S) <= Cardinality(K) /\ (Cardinality(S) = Cardinality(K) <=> f \in Surjection(S, K))
  BY <1>1, <1>5, FS_Injection
<1>7. Cardinality(S) \in Nat /\ Cardinality(K) \in Nat /\ Cardinality(K) <= Cardinality(S)
  BY <1>1, <1>6, FS_CardinalityType DEF S, K
<1>8. f \in Surjection(S, K)
  BY <1>6, <1>7
<1>9. ASSUME NEW key \in K
      PROVE  \E i \in DOMAIN params : i > Len(c.positional) /\ Spelled(c, params[i]) = {key}
  <2>1. PICK i \in S : f[i] = key
    BY <1>8 DEF Surjection
  <2>2. ASSUME NEW k \in Spelled(c, params[i]) PROVE k = key
    <3>0. i \in DOMAIN params
      BY <1>2
    <3>9. k \in DOMAIN c.keywords /\ OwnName(k) = params[i][1]
      <4> HIDE DEF K, S
      <4>1. i \in DOMAIN params /\ k \in Spelled(c, params[i])
        BY <2>2, <3>0
      <4> QED BY <4>1 DEF Parameters, Family, Spelled, ToSet
    <3>1. k \in K /\ OwnName(k) = params[i][1]
      BY <3>9 DEF K
    <3>2. PICK j \in S : f[j] = k
      BY <1>8, <3>1 DEF Surjection
    <3>3. params[j][1] = params[i][1] /\ j \in DOMAIN params /\ i \in DOMAIN params
      BY <1>2, <3>1, <3>2
    <3> QED BY <2>1, <3>2, <3>3 DEF Parameters
  <2> QED BY <1>2, <2>1, <2>2
<1> QED BY <1>9 DEF Fit, K

\* The check that looks at keywords only when there are too many of them.
LEMMA CountedFits ==
  ASSUME NEW c, Passes(c), NEW params, Parameters(params), Len(c.positional) <= Len(params),
         NEW bound \in Nat, bound <= Cardinality(Filled(c, params)),
         ~chunk_keyword_error(c, params, bound)
  PROVE  Fit(c, params)
<1>1. Cardinality(DOMAIN c.keywords) \in Nat
  BY FinitePasses, FS_CardinalityType
<1>2. IsFiniteSet(Filled(c, params)) /\ Cardinality(Filled(c, params)) \in Nat
  <2>1. Len(params) \in Nat /\ Filled(c, params) \subseteq 1..Len(params) /\ 1 \in Int /\ Len(params) \in Int
    BY DEF Filled, Parameters
  <2> QED BY <2>1, FS_Interval, FS_Subset, FS_CardinalityType
<1>3. CASE Cardinality(DOMAIN c.keywords) <= bound
  BY <1>1, <1>2, <1>3, FewFit
<1>4. CASE ~(Cardinality(DOMAIN c.keywords) <= bound)
  <2>1. Cardinality(DOMAIN c.keywords) > bound
    BY <1>1, <1>4
  <2>2. ASSUME NEW key \in DOMAIN c.keywords
        PROVE  \E i \in DOMAIN params : params[i][1] = key /\ i > Len(c.positional)
    <3>1. PICK i \in DOMAIN params : params[i][1] = key /\ ~(i <= Len(c.positional))
      BY <2>1 DEF chunk_keyword_error
    <3>2. i \in Nat /\ Len(c.positional) \in Nat
      BY FinitePasses DEF Parameters
    <3> QED BY <3>1, <3>2
  <2> QED BY <2>2, NamedFits
<1> QED BY <1>3, <1>4

(***************************************************************************)
(* The binders: a call that one of them binds has its arguments bound.     *)
(***************************************************************************)
LEMMA FitPlain ==
  ASSUME NEW c, Passes(c), NEW params, Parameters(params), Fit(c, params)
  PROVE  LET b == Bound(Slots(c, params))
         IN  b.ok /\ Plain(c, b.slots, Heads(params)) /\ Binds(c, b.slots, Heads(params))
BY SlotsAccount, PlainHeld DEF Bound

LEMMA WalkPlain ==
  ASSUME NEW c, Passes(c), NEW params, Parameters(params), NEW limit \in Nat, limit <= Len(params),
         NEW required, ByWalk(c, params, limit, required).ok
  PROVE  LET b == ByWalk(c, params, limit, required)
         IN  /\ b = Bound(Slots(c, params)) /\ Fills(c, params, limit, required)
             /\ Plain(c, b.slots, Heads(params)) /\ Binds(c, b.slots, Heads(params))
<1> DEFINE b == ByWalk(c, params, limit, required)
<1>1. Fills(c, params, limit, required) /\ bind_narrow_keywords(c, params) /\ b = Bound(Slots(c, params))
  BY DEF ByWalk, Rejected
<1>2. Len(c.positional) <= Len(params)
  <2>1. Len(c.positional) \in Nat /\ Len(params) \in Nat
    BY FinitePasses DEF Parameters
  <2> QED BY <1>1, <2>1 DEF Fills
<1>3. Fit(c, params)
  BY <1>1, <1>2 DEF Fit, bind_narrow_keywords
<1> HIDE DEF b
<1> QED BY <1>1, <1>3, FitPlain DEF b

LEMMA CountPlain ==
  ASSUME NEW c, Passes(c), NEW params, Parameters(params), NEW limit \in Nat, limit <= Len(params),
         NEW required, ByCount(c, params, limit, required).ok
  PROVE  LET b == ByCount(c, params, limit, required)
         IN  /\ b = Bound(Slots(c, params)) /\ Fills(c, params, limit, required)
             /\ Plain(c, b.slots, Heads(params)) /\ Binds(c, b.slots, Heads(params))
<1> DEFINE b == ByCount(c, params, limit, required)
           bound == Cardinality(Filled(c, params))
<1>1. Fills(c, params, limit, required) /\ ~chunk_keyword_error(c, params, bound) /\ b = Bound(Slots(c, params))
  BY DEF ByCount, Rejected, Filled
<1>2. Len(c.positional) <= Len(params)
  <2>1. Len(c.positional) \in Nat /\ Len(params) \in Nat
    BY FinitePasses DEF Parameters
  <2> QED BY <1>1, <2>1 DEF Fills
<1>3. bound \in Nat
  <2>1. Len(params) \in Nat /\ Filled(c, params) \subseteq 1..Len(params) /\ 1 \in Int /\ Len(params) \in Int
    BY DEF Filled, Parameters
  <2> QED BY <2>1, FS_Interval, FS_Subset, FS_CardinalityType
<1>4. Fit(c, params)
  BY <1>1, <1>2, <1>3, CountedFits
<1> HIDE DEF b
<1> QED BY <1>1, <1>4, FitPlain DEF b

(***************************************************************************)
(* The parameters that functions have: they go by different names.         *)
(***************************************************************************)
LEMMA Families ==
  /\ Family(Input) /\ Input[1] = "input"
  /\ Family(Other) /\ Other[1] = "other"
  /\ Family(<<"dim", "axis">>) /\ <<"dim", "axis">>[1] = "dim"
  /\ \A n : n \notin Alias => Family(<<n>>) /\ <<n>>[1] = n
BY DEF Family, Input, Other, OwnName, Alias

LEMMA ParamsOne ==
  ASSUME NEW a, Family(a)
  PROVE  /\ Parameters(<<a>>) /\ Len(<<a>>) = 1
         /\ Heads(<<a>>) = {a[1]}
<1> DEFINE p == <<a>>
<1>1. Len(p) = 1 /\ DOMAIN p = 1..1 /\ p[1] = a
  OBVIOUS
<1> HIDE DEF p
<1>2. \A i \in DOMAIN p : Family(p[i])
  BY <1>1
<1>3. \A i, j \in DOMAIN p : p[i][1] = p[j][1] => i = j
  BY <1>1
<1>4. Heads(p) = {a[1]}
  BY <1>1 DEF Heads
<1>5. Parameters(p)
  BY <1>1, <1>2, <1>3 DEF Parameters
<1> QED BY <1>1, <1>4, <1>5 DEF p

LEMMA ParamsTwo ==
  ASSUME NEW a, NEW b, Family(a), Family(b),
         a[1] \notin {b[1]}
  PROVE  /\ Parameters(<<a, b>>) /\ Len(<<a, b>>) = 2
         /\ Heads(<<a, b>>) = {a[1], b[1]}
<1> DEFINE p == <<a, b>>
<1>1. Len(p) = 2 /\ DOMAIN p = 1..2 /\ p[1] = a /\ p[2] = b
  OBVIOUS
<1> HIDE DEF p
<1>2. \A i \in DOMAIN p : Family(p[i])
  BY <1>1
<1>3. \A i, j \in DOMAIN p : p[i][1] = p[j][1] => i = j
  BY <1>1
<1>4. Heads(p) = {a[1], b[1]}
  BY <1>1 DEF Heads
<1>5. Parameters(p)
  BY <1>1, <1>2, <1>3 DEF Parameters
<1> QED BY <1>1, <1>4, <1>5 DEF p

LEMMA ParamsThree ==
  ASSUME NEW a, NEW b, NEW d, Family(a), Family(b), Family(d),
         a[1] \notin {b[1], d[1]}, b[1] \notin {d[1]}
  PROVE  /\ Parameters(<<a, b, d>>) /\ Len(<<a, b, d>>) = 3
         /\ Heads(<<a, b, d>>) = {a[1], b[1], d[1]}
<1> DEFINE p == <<a, b, d>>
<1>1. Len(p) = 3 /\ DOMAIN p = 1..3 /\ p[1] = a /\ p[2] = b /\ p[3] = d
  OBVIOUS
<1> HIDE DEF p
<1>2. \A i \in DOMAIN p : Family(p[i])
  BY <1>1
<1>3. \A i, j \in DOMAIN p : p[i][1] = p[j][1] => i = j
  BY <1>1
<1>4. Heads(p) = {a[1], b[1], d[1]}
  BY <1>1 DEF Heads
<1>5. Parameters(p)
  BY <1>1, <1>2, <1>3 DEF Parameters
<1> QED BY <1>1, <1>4, <1>5 DEF p

LEMMA ParamsFour ==
  ASSUME NEW a, NEW b, NEW d, NEW e, Family(a), Family(b), Family(d), Family(e),
         a[1] \notin {b[1], d[1], e[1]}, b[1] \notin {d[1], e[1]}, d[1] \notin {e[1]}
  PROVE  /\ Parameters(<<a, b, d, e>>) /\ Len(<<a, b, d, e>>) = 4
         /\ Heads(<<a, b, d, e>>) = {a[1], b[1], d[1], e[1]}
<1> DEFINE p == <<a, b, d, e>>
<1>1. Len(p) = 4 /\ DOMAIN p = 1..4 /\ p[1] = a /\ p[2] = b /\ p[3] = d /\ p[4] = e
  OBVIOUS
<1> HIDE DEF p
<1>2. \A i \in DOMAIN p : Family(p[i])
  BY <1>1
<1>3. \A i, j \in DOMAIN p : p[i][1] = p[j][1] => i = j
  BY <1>1
<1>4. Heads(p) = {a[1], b[1], d[1], e[1]}
  BY <1>1 DEF Heads
<1>5. Parameters(p)
  BY <1>1, <1>2, <1>3 DEF Parameters
<1> QED BY <1>1, <1>4, <1>5 DEF p

LEMMA ParamsFive ==
  ASSUME NEW a, NEW b, NEW d, NEW e, NEW g, Family(a), Family(b), Family(d), Family(e), Family(g),
         a[1] \notin {b[1], d[1], e[1], g[1]}, b[1] \notin {d[1], e[1], g[1]}, d[1] \notin {e[1], g[1]}, e[1] \notin {g[1]}
  PROVE  /\ Parameters(<<a, b, d, e, g>>) /\ Len(<<a, b, d, e, g>>) = 5
         /\ Heads(<<a, b, d, e, g>>) = {a[1], b[1], d[1], e[1], g[1]}
<1> DEFINE p == <<a, b, d, e, g>>
<1>1. Len(p) = 5 /\ DOMAIN p = 1..5 /\ p[1] = a /\ p[2] = b /\ p[3] = d /\ p[4] = e /\ p[5] = g
  OBVIOUS
<1> HIDE DEF p
<1>2. \A i \in DOMAIN p : Family(p[i])
  BY <1>1
<1>3. \A i, j \in DOMAIN p : p[i][1] = p[j][1] => i = j
  BY <1>1
<1>4. Heads(p) = {a[1], b[1], d[1], e[1], g[1]}
  BY <1>1 DEF Heads
<1>5. Parameters(p)
  BY <1>1, <1>2, <1>3 DEF Parameters
<1> QED BY <1>1, <1>4, <1>5 DEF p

\* Names, none of which is an alias.
Distinct(s) ==
  /\ s \in Seq(ToSet(s)) /\ \A i, j \in DOMAIN s : s[i] = s[j] => i = j
  /\ ToSet(s) \cap Alias = {}

LEMMA NamesOne ==
  ASSUME NEW a, {a} \cap Alias = {}
  PROVE  Distinct(<<a>>) /\ ToSet(<<a>>) = {a} /\ Len(<<a>>) = 1
<1> DEFINE p == <<a>>
<1>1. p \in Seq({a}) /\ Len(p) = 1 /\ DOMAIN p = 1..1 /\ p[1] = a
  OBVIOUS
<1> HIDE DEF p
<1>2. ToSet(p) = {a}
  BY <1>1 DEF ToSet
<1>3. \A i, j \in DOMAIN p : p[i] = p[j] => i = j
  BY <1>1
<1> QED BY <1>1, <1>2, <1>3 DEF p, Distinct

LEMMA NamesTwo ==
  ASSUME NEW a, NEW b, {a, b} \cap Alias = {},
         a \notin {b}
  PROVE  Distinct(<<a, b>>) /\ ToSet(<<a, b>>) = {a, b} /\ Len(<<a, b>>) = 2
<1> DEFINE p == <<a, b>>
<1>1. p \in Seq({a, b}) /\ Len(p) = 2 /\ DOMAIN p = 1..2 /\ p[1] = a /\ p[2] = b
  OBVIOUS
<1> HIDE DEF p
<1>2. ToSet(p) = {a, b}
  BY <1>1 DEF ToSet
<1>3. \A i, j \in DOMAIN p : p[i] = p[j] => i = j
  BY <1>1
<1> QED BY <1>1, <1>2, <1>3 DEF p, Distinct

LEMMA NamesThree ==
  ASSUME NEW a, NEW b, NEW d, {a, b, d} \cap Alias = {},
         a \notin {b, d}, b \notin {d}
  PROVE  Distinct(<<a, b, d>>) /\ ToSet(<<a, b, d>>) = {a, b, d} /\ Len(<<a, b, d>>) = 3
<1> DEFINE p == <<a, b, d>>
<1>1. p \in Seq({a, b, d}) /\ Len(p) = 3 /\ DOMAIN p = 1..3 /\ p[1] = a /\ p[2] = b /\ p[3] = d
  OBVIOUS
<1> HIDE DEF p
<1>2. ToSet(p) = {a, b, d}
  BY <1>1 DEF ToSet
<1>3. \A i, j \in DOMAIN p : p[i] = p[j] => i = j
  BY <1>1
<1> QED BY <1>1, <1>2, <1>3 DEF p, Distinct

LEMMA NamesFour ==
  ASSUME NEW a, NEW b, NEW d, NEW e, {a, b, d, e} \cap Alias = {},
         a \notin {b, d, e}, b \notin {d, e}, d \notin {e}
  PROVE  Distinct(<<a, b, d, e>>) /\ ToSet(<<a, b, d, e>>) = {a, b, d, e} /\ Len(<<a, b, d, e>>) = 4
<1> DEFINE p == <<a, b, d, e>>
<1>1. p \in Seq({a, b, d, e}) /\ Len(p) = 4 /\ DOMAIN p = 1..4 /\ p[1] = a /\ p[2] = b /\ p[3] = d /\ p[4] = e
  OBVIOUS
<1> HIDE DEF p
<1>2. ToSet(p) = {a, b, d, e}
  BY <1>1 DEF ToSet
<1>3. \A i, j \in DOMAIN p : p[i] = p[j] => i = j
  BY <1>1
<1> QED BY <1>1, <1>2, <1>3 DEF p, Distinct

LEMMA NamesFive ==
  ASSUME NEW a, NEW b, NEW d, NEW e, NEW g, {a, b, d, e, g} \cap Alias = {},
         a \notin {b, d, e, g}, b \notin {d, e, g}, d \notin {e, g}, e \notin {g}
  PROVE  Distinct(<<a, b, d, e, g>>) /\ ToSet(<<a, b, d, e, g>>) = {a, b, d, e, g} /\ Len(<<a, b, d, e, g>>) = 5
<1> DEFINE p == <<a, b, d, e, g>>
<1>1. p \in Seq({a, b, d, e, g}) /\ Len(p) = 5 /\ DOMAIN p = 1..5 /\ p[1] = a /\ p[2] = b /\ p[3] = d /\ p[4] = e /\ p[5] = g
  OBVIOUS
<1> HIDE DEF p
<1>2. ToSet(p) = {a, b, d, e, g}
  BY <1>1 DEF ToSet
<1>3. \A i, j \in DOMAIN p : p[i] = p[j] => i = j
  BY <1>1
<1> QED BY <1>1, <1>2, <1>3 DEF p, Distinct

LEMMA NamesSix ==
  ASSUME NEW a, NEW b, NEW d, NEW e, NEW g, NEW h, {a, b, d, e, g, h} \cap Alias = {},
         a \notin {b, d, e, g, h}, b \notin {d, e, g, h}, d \notin {e, g, h}, e \notin {g, h}, g \notin {h}
  PROVE  Distinct(<<a, b, d, e, g, h>>) /\ ToSet(<<a, b, d, e, g, h>>) = {a, b, d, e, g, h} /\ Len(<<a, b, d, e, g, h>>) = 6
<1> DEFINE p == <<a, b, d, e, g, h>>
<1>1. p \in Seq({a, b, d, e, g, h}) /\ Len(p) = 6 /\ DOMAIN p = 1..6 /\ p[1] = a /\ p[2] = b /\ p[3] = d /\ p[4] = e /\ p[5] = g /\ p[6] = h
  OBVIOUS
<1> HIDE DEF p
<1>2. ToSet(p) = {a, b, d, e, g, h}
  BY <1>1 DEF ToSet
<1>3. \A i, j \in DOMAIN p : p[i] = p[j] => i = j
  BY <1>1
<1> QED BY <1>1, <1>2, <1>3 DEF p, Distinct

LEMMA NamesJoin ==
  ASSUME NEW s, NEW t, Distinct(s), Distinct(t), ToSet(s) \cap ToSet(t) = {}
  PROVE  Distinct(s \o t) /\ ToSet(s \o t) = ToSet(s) \cup ToSet(t) /\ Len(s \o t) = Len(s) + Len(t)
<1> DEFINE V == ToSet(s) \cup ToSet(t)
           r == s \o t
<1>1. s \in Seq(V) /\ t \in Seq(V)
  BY DEF Distinct
<1> HIDE DEF V
<1>2. /\ Len(s) \in Nat /\ Len(t) \in Nat /\ DOMAIN s = 1..Len(s) /\ DOMAIN t = 1..Len(t)
      /\ r \in Seq(V) /\ Len(r) = Len(s) + Len(t) /\ DOMAIN r = 1..(Len(s) + Len(t))
      /\ \A i \in 1..Len(s) : r[i] = s[i]
      /\ \A i \in 1..Len(t) : r[Len(s) + i] = t[i]
  BY <1>1
<1>3. \A i \in DOMAIN r : i \in DOMAIN s \/ (i - Len(s) \in DOMAIN t /\ r[i] = t[i - Len(s)])
  BY <1>2
<1> HIDE DEF r
<1>4. ToSet(r) = V
  <2>1. \A x \in ToSet(r) : x \in V
    BY <1>2 DEF ToSet
  <2>2. ASSUME NEW x \in V PROVE x \in ToSet(r)
    <3>1. CASE \E i \in DOMAIN s : x = s[i]
      BY <1>2, <3>1 DEF ToSet
    <3>2. CASE \E i \in DOMAIN t : x = t[i]
      <4>1. PICK i \in DOMAIN t : x = t[i]
        BY <3>2
      <4>2. Len(s) + i \in DOMAIN r /\ r[Len(s) + i] = x
        BY <1>2, <4>1
      <4> QED BY <4>2 DEF ToSet
    <3> QED BY <2>2, <3>1, <3>2 DEF V, ToSet
  <2> QED BY <2>1, <2>2
<1>5. ASSUME NEW i \in DOMAIN r, NEW j \in DOMAIN r, r[i] = r[j] PROVE i = j
  <2>1. \A k \in DOMAIN s, l \in DOMAIN t : s[k] # t[l]
    BY DEF ToSet
  <2>2. i \in Nat /\ j \in Nat
    BY <1>2
  <2>3. CASE i \in DOMAIN s /\ j \in DOMAIN s
    BY <1>2, <1>5, <2>3 DEF Distinct
  <2>4. CASE i \in DOMAIN s /\ j \notin DOMAIN s
    BY <1>2, <1>3, <1>5, <2>1, <2>4
  <2>5. CASE i \notin DOMAIN s /\ j \in DOMAIN s
    BY <1>2, <1>3, <1>5, <2>1, <2>5
  <2>6. CASE i \notin DOMAIN s /\ j \notin DOMAIN s
    <3>1. i - Len(s) = j - Len(s)
      BY <1>3, <1>5, <2>6 DEF Distinct
    <3> QED BY <1>2, <2>2, <3>1
  <2> QED BY <2>3, <2>4, <2>5, <2>6
<1> QED BY <1>2, <1>4, <1>5 DEF r, V, Distinct

LEMMA OptionParams ==
  ASSUME NEW s, Distinct(s)
  PROVE  /\ Options(s) \in Seq(ToSet(Options(s))) /\ Parameters(Options(s))
         /\ Len(Options(s)) = Len(s) /\ Heads(Options(s)) = ToSet(s)
<1> DEFINE p == Options(s)
<1>1. DOMAIN s = 1..Len(s) /\ Len(s) \in Nat
  BY DEF Distinct
<1>2. p = [i \in 1..Len(s) |-> <<s[i]>>]
  BY <1>1 DEF Options
<1>3. DOMAIN p = 1..Len(s) /\ \A i \in 1..Len(s) : p[i] = <<s[i]>>
  BY <1>2
<1>4. p \in Seq(ToSet(p)) /\ Len(p) = Len(s)
  BY <1>1, <1>2 DEF ToSet
<1> HIDE DEF p
<1>5. ASSUME NEW i \in DOMAIN p PROVE Family(p[i]) /\ p[i][1] = s[i]
  <2>1. i \in DOMAIN s /\ p[i] = <<s[i]>>
    BY <1>1, <1>3
  <2>2. s[i] \notin Alias
    BY <2>1 DEF Distinct, ToSet
  <2> QED BY <2>1, <2>2, Families
<1>6. Heads(p) = ToSet(s)
  BY <1>1, <1>3, <1>5 DEF Heads, ToSet
<1>7. Parameters(p)
  BY <1>1, <1>3, <1>4, <1>5 DEF Parameters, Distinct
<1> QED BY <1>4, <1>6, <1>7 DEF p

LEMMA ParamsBefore ==
  ASSUME NEW a, NEW p, Family(a), Parameters(p), p \in Seq(ToSet(p)), a[1] \notin Heads(p)
  PROVE  LET r == <<a>> \o p
         IN  Parameters(r) /\ Len(r) = Len(p) + 1 /\ Heads(r) = Heads(p) \cup {a[1]}
<1> DEFINE V == ToSet(p) \cup {a}
           r == <<a>> \o p
<1>0. p \in Seq(V)
  OBVIOUS
<1>1. /\ Len(p) \in Nat /\ DOMAIN p = 1..Len(p) /\ DOMAIN r = 1..(Len(p) + 1) /\ Len(r) = Len(p) + 1
      /\ r[1] = a /\ \A i \in 1..Len(p) : r[i + 1] = p[i]
  <2> HIDE DEF V
  <2>1. a \in V /\ <<a>> \in Seq(V)
    BY DEF V
  <2> QED BY <1>0, <2>1
<1> HIDE DEF r
<1>2. \A i \in DOMAIN r : i = 1 \/ (i - 1 \in DOMAIN p /\ r[i] = p[i - 1])
  BY <1>1
<1>3. \A i \in DOMAIN r : Family(r[i])
  BY <1>1, <1>2 DEF Parameters
<1>4. ASSUME NEW i \in DOMAIN r, NEW j \in DOMAIN r, r[i][1] = r[j][1] PROVE i = j
  <2>1. \A k \in DOMAIN p : p[k][1] # a[1]
    BY DEF Heads
  <2>2. i \in Nat /\ j \in Nat
    BY <1>1
  <2>3. CASE i = 1 \/ j = 1
    BY <1>1, <1>2, <1>4, <2>1, <2>3
  <2>4. CASE i # 1 /\ j # 1
    <3>1. i - 1 = j - 1
      BY <1>2, <1>4, <2>4 DEF Parameters
    <3> QED BY <2>2, <3>1
  <2> QED BY <2>3, <2>4
<1>5. Heads(r) = Heads(p) \cup {a[1]}
  <2>1. \A x \in Heads(r) : x \in Heads(p) \cup {a[1]}
    BY <1>1, <1>2 DEF Heads
  <2>2. a[1] \in Heads(r)
    BY <1>1 DEF Heads
  <2>3. ASSUME NEW k \in DOMAIN p PROVE p[k][1] \in Heads(r)
    <3>1. k + 1 \in DOMAIN r /\ r[k + 1] = p[k]
      BY <1>1
    <3> QED BY <3>1 DEF Heads
  <2> QED BY <2>1, <2>2, <2>3 DEF Heads
<1> QED BY <1>1, <1>3, <1>4, <1>5 DEF r, Parameters

(***************************************************************************)
(* The binders that check their keywords in ways of their own.             *)
(***************************************************************************)
LEMMA SingleFacts ==
  Parameters(<<Input>>) /\ Len(<<Input>>) = 1 /\ Heads(<<Input>>) = {"input"} /\ <<Input>>[1] = Input
BY Families, ParamsOne

\* A tensor that a keyword spells is the only one that does.
LEMMA SingleSpelled ==
  ASSUME NEW c, Passes(c), NEW others, Len(c.positional) <= 1,
         validate_legacy_single_keywords(c, others), NEW key \in DOMAIN c.keywords \ others,
         \A k \in Spelled(c, Input) : k \notin others
  PROVE  Len(c.positional) = 0 /\ Spelled(c, Input) = {key}
<1>1. \/ Len(c.positional) = 0 /\ Cardinality(DOMAIN c.keywords \ others) = 1 /\ {key} = Spelled(c, Input)
      \/ key = "input" /\ Len(c.positional) = 0
  BY DEF validate_legacy_single_keywords
<1>2. CASE key = "input" /\ Len(c.positional) = 0
  <2>1. key \in Spelled(c, Input)
    <3>1. Input[1] = "input" /\ 1 \in DOMAIN Input
      BY Families DEF Family
    <3> QED BY <1>2, <3>1 DEF Spelled, ToSet
  <2>2. ASSUME NEW k \in Spelled(c, Input) PROVE k = key
    <3>1. k \in DOMAIN c.keywords \ others
      BY <2>2 DEF Spelled
    <3>2. {k} = Spelled(c, Input) \/ k = "input"
      BY <3>1 DEF validate_legacy_single_keywords
    <3> QED BY <1>2, <2>1, <3>2
  <2> QED BY <1>2, <2>1, <2>2
<1> QED BY <1>1, <1>2

LEMMA SinglePlain ==
  ASSUME NEW c, Passes(c), LegacySingle(c).ok
  PROVE  LET b == LegacySingle(c)
         IN  /\ b = Bound(Slots(c, <<Input>>)) /\ Fills(c, <<Input>>, 1, 1)
             /\ Plain(c, b.slots, {"input"}) /\ Binds(c, b.slots, {"input"})
<1>1. /\ Fills(c, <<Input>>, 1, 1) /\ validate_legacy_single_keywords(c, {})
      /\ LegacySingle(c) = Bound(Slots(c, <<Input>>))
  BY DEF LegacySingle, Rejected, select_legacy_single_argument
<1>2. Len(c.positional) <= 1
  BY <1>1 DEF Fills
<1>3. ASSUME NEW key \in DOMAIN c.keywords
      PROVE  \E i \in DOMAIN <<Input>> : i > Len(c.positional) /\ Spelled(c, <<Input>>[i]) = {key}
  <2>1. Len(c.positional) = 0 /\ Spelled(c, Input) = {key}
    BY <1>1, <1>2, <1>3, SingleSpelled
  <2> QED BY <2>1, SingleFacts DEF Parameters
<1>4. Fit(c, <<Input>>)
  BY <1>2, <1>3, SingleFacts DEF Fit
<1> QED BY <1>1, <1>4, FitPlain, SingleFacts

LEMMA SingleOutPlain ==
  ASSUME NEW c, Passes(c), Fills(c, <<Input>>, 1, 1), validate_legacy_single_keywords(c, {"out"})
  PROVE  LET slots == Slots(c, <<Input, <<"out">>>>)
         IN  Plain(c, slots, {"input", "out"}) /\ Binds(c, slots, {"input", "out"})
<1> DEFINE params == <<Input, <<"out">>>>
<1>0. Family(<<"out">>) /\ <<"out">>[1] = "out"
  BY Families DEF Alias
<1>1. /\ Parameters(params) /\ Heads(params) = {"input", "out"} /\ Len(params) = 2
      /\ params[1] = Input /\ params[2] = <<"out">> /\ DOMAIN params = 1..2
  BY <1>0, Families, ParamsTwo
<1> HIDE DEF params
<1>2. Len(c.positional) <= 1 /\ Len(c.positional) \in Nat
  BY FinitePasses DEF Fills
<1>3. \A k \in Spelled(c, Input) : k # "out"
  BY Families DEF Spelled, ToSet, Family, OwnName
<1>4. ASSUME NEW key \in DOMAIN c.keywords
      PROVE  \E i \in DOMAIN params : i > Len(c.positional) /\ Spelled(c, params[i]) = {key}
  <2>1. CASE key = "out"
    <3>1. Spelled(c, <<"out">>) = {"out"}
      <4>1. ToSet(<<"out">>) = {"out"}
        BY DEF ToSet
      <4> QED BY <1>4, <2>1, <4>1 DEF Spelled
    <3>2. 2 \in DOMAIN params /\ 2 > Len(c.positional)
      BY <1>1, <1>2
    <3> QED BY <1>1, <2>1, <3>1, <3>2
  <2>2. CASE key # "out"
    <3>1. Len(c.positional) = 0 /\ Spelled(c, Input) = {key}
      BY <1>2, <1>3, <1>4, <2>2, SingleSpelled
    <3>2. 1 \in DOMAIN params /\ 1 > Len(c.positional)
      BY <1>1, <3>1
    <3> QED BY <1>1, <3>1, <3>2
  <2> QED BY <2>1, <2>2
<1>5. Fit(c, params)
  BY <1>1, <1>2, <1>4 DEF Fit
<1>6. Plain(c, Slots(c, params), {"input", "out"}) /\ Binds(c, Slots(c, params), {"input", "out"})
  BY <1>1, <1>5, FitPlain DEF Bound
<1> QED BY <1>6 DEF params

LEMMA ContainsJoin ==
  ASSUME NEW V, NEW s \in Seq(V), NEW t \in Seq(V), NEW e, Contains(s \o t, e)
  PROVE  Contains(s, e) \/ Contains(t, e)
<1> DEFINE r == s \o t
<1>1. /\ Len(s) \in Nat /\ Len(t) \in Nat /\ Len(r) = Len(s) + Len(t)
      /\ \A i \in 1..Len(s) : r[i] = s[i]
      /\ \A i \in (Len(s) + 1)..(Len(s) + Len(t)) : r[i] = t[i - Len(s)] /\ i - Len(s) \in 1..Len(t)
  OBVIOUS
<1>2. PICK i \in 1..Len(r) : r[i] = e
  BY DEF Contains
<1> HIDE DEF r
<1>3. CASE i <= Len(s)
  <2>1. i \in 1..Len(s)
    BY <1>1, <1>2, <1>3
  <2> QED BY <1>1, <1>2, <2>1 DEF Contains
<1>4. CASE ~(i <= Len(s))
  <2>1. i \in (Len(s) + 1)..(Len(s) + Len(t))
    BY <1>1, <1>2, <1>4
  <2> QED BY <1>1, <1>2, <2>1 DEF Contains
<1> QED BY <1>3, <1>4

LEMMA DivisionPlain ==
  ASSUME NEW c, Passes(c), NEW params, params = <<Input, Other, <<"rounding_mode">>, <<"out">>>>,
         Fills(c, params, 2, 2),
         ~bind_top_level_division_keyword_error(c, Cardinality(Filled(c, params)))
  PROVE  LET slots == Slots(c, params)
             names == {"input", "other", "rounding_mode", "out"}
         IN  Plain(c, slots, names) /\ Binds(c, slots, names)
<1> DEFINE names == {"input", "other", "rounding_mode", "out"}
<1>0. \A n \in {"rounding_mode", "out"} : Family(<<n>>) /\ <<n>>[1] = n
  BY Families DEF Alias
<1>1. /\ Parameters(params) /\ Heads(params) = names /\ Len(params) = 4
      /\ params[1] = Input /\ params[2] = Other /\ params[3] = <<"rounding_mode">> /\ params[4] = <<"out">>
      /\ DOMAIN params = 1..4
  BY <1>0, Families, ParamsFour
<1>2. Len(c.positional) <= 2 /\ Len(c.positional) \in Nat
  BY FinitePasses DEF Fills
<1>3. IsFiniteSet(Filled(c, params)) /\ Cardinality(Filled(c, params)) \in Nat
  <2>1. Filled(c, params) \subseteq 1..4 /\ 1 \in Int /\ 4 \in Int
    BY <1>1 DEF Filled
  <2> QED BY <2>1, FS_Interval, FS_Subset, FS_CardinalityType
<1>4. Cardinality(DOMAIN c.keywords) \in Nat
  BY FinitePasses, FS_CardinalityType
<1> HIDE DEF names
<1>5. CASE Cardinality(DOMAIN c.keywords) <= Cardinality(Filled(c, params))
  <2>1. Fit(c, params)
    BY <1>1, <1>2, <1>5, FewFit
  <2> QED BY <1>1, <2>1, FitPlain DEF Bound, names
<1>6. CASE ~(Cardinality(DOMAIN c.keywords) <= Cardinality(Filled(c, params)))
  <2>1. /\ \A param \in {Input, Other} : ~(Cardinality(Spelled(c, param)) > 1)
        /\ \A key \in DOMAIN c.keywords :
             /\ Contains(Input \o Other \o <<"rounding_mode", "out">>, key)
             /\ Contains(Input, key) => ~(Len(c.positional) > 0)
             /\ Contains(Other, key) => ~(Len(c.positional) > 1)
    BY <1>3, <1>4, <1>6 DEF bind_top_level_division_keyword_error
  <2>2. ASSUME NEW param \in {Input, Other}, NEW key \in Spelled(c, param) PROVE Spelled(c, param) = {key}
    <3>1. IsFiniteSet(Spelled(c, param)) /\ Cardinality(Spelled(c, param)) \in Nat
      <4>1. Spelled(c, param) \in SUBSET DOMAIN c.keywords
        BY DEF Spelled
      <4> QED BY <4>1, FinitePasses, FS_Subset, FS_CardinalityType
    <3>2. Cardinality(Spelled(c, param)) # 0
      BY <2>2, <3>1, FS_EmptySet
    <3>3. Cardinality(Spelled(c, param)) = 1
      BY <2>1, <2>2, <3>1, <3>2
    <3>4. PICK x : Spelled(c, param) = {x}
      BY <3>1, <3>3, FS_Singleton
    <3> QED BY <2>2, <3>4
  <2>3. ASSUME NEW key \in DOMAIN c.keywords
        PROVE  \E i \in DOMAIN params : i > Len(c.positional) /\ Spelled(c, params[i]) = {key}
    <3>1. Contains(Input, key) \/ Contains(Other, key) \/ key = "rounding_mode" \/ key = "out"
      <4> DEFINE V == {"input", "x", "a", "x1", "other", "x2", "rounding_mode", "out"}
                 both == Input \o Other
                 rest == <<"rounding_mode", "out">>
      <4>1. Input \in Seq(V) /\ Other \in Seq(V) /\ rest \in Seq(V)
        BY DEF Input, Other
      <4>2. Contains(both \o rest, key)
        BY <2>1, <2>3
      <4> HIDE DEF V, rest
      <4>3. both \in Seq(V)
        BY <4>1
      <4>4. Contains(both, key) \/ Contains(rest, key)
        <5> HIDE DEF both
        <5> QED BY <4>1, <4>2, <4>3, ContainsJoin
      <4>5. Contains(both, key) => Contains(Input, key) \/ Contains(Other, key)
        BY <4>1, ContainsJoin
      <4>6. Contains(rest, key) => key \in {"rounding_mode", "out"}
        BY DEF Contains, rest
      <4> QED BY <4>4, <4>5, <4>6
    <3>2. CASE Contains(Input, key)
      <4>1. key \in Spelled(c, Input)
        BY <2>3, <3>2 DEF Contains, Spelled, ToSet, Input
      <4>2. Spelled(c, Input) = {key}
        BY <2>2, <4>1
      <4>3. 1 > Len(c.positional)
        BY <1>2, <2>1, <2>3, <3>2
      <4>4. 1 \in DOMAIN params
        BY <1>1
      <4> QED BY <1>1, <4>2, <4>3, <4>4
    <3>3. CASE Contains(Other, key)
      <4>1. key \in Spelled(c, Other)
        BY <2>3, <3>3 DEF Contains, Spelled, ToSet, Other
      <4>2. Spelled(c, Other) = {key}
        BY <2>2, <4>1
      <4>3. 2 > Len(c.positional)
        BY <1>2, <2>1, <2>3, <3>3
      <4>4. 2 \in DOMAIN params
        BY <1>1
      <4> QED BY <1>1, <4>2, <4>3, <4>4
    <3>4. CASE key \in {"rounding_mode", "out"}
      <4>1. Spelled(c, <<key>>) = {key}
        <5>1. ToSet(<<key>>) = {key}
          BY DEF ToSet
        <5> QED BY <2>3, <5>1 DEF Spelled
      <4>2. 3 \in DOMAIN params /\ 4 \in DOMAIN params /\ 3 > Len(c.positional) /\ 4 > Len(c.positional)
        BY <1>1, <1>2
      <4> QED BY <1>1, <3>4, <4>1, <4>2
    <3> QED BY <3>1, <3>2, <3>3, <3>4
  <2>4. Fit(c, params)
    <3>1. Len(c.positional) <= Len(params)
      BY <1>1, <1>2
    <3> QED BY <2>3, <3>1, Zenon DEF Fit
  <2> QED BY <1>1, <2>4, FitPlain DEF Bound, names
<1> QED BY <1>5, <1>6

LEMMA MovedimPlain ==
  ASSUME NEW c, Passes(c), NEW params, Parameters(params), bind_movedim_call_arguments(c, params).ok
  PROVE  LET b == bind_movedim_call_arguments(c, params)
         IN  /\ b = Bound(Slots(c, params)) /\ Fills(c, params, Len(params), Len(params))
             /\ Plain(c, b.slots, Heads(params)) /\ Binds(c, b.slots, Heads(params))
<1> DEFINE b == bind_movedim_call_arguments(c, params)
           n == Len(c.positional)
<1>1. /\ n + Cardinality(DOMAIN c.keywords) = Len(params)
      /\ Fills(c, params, Len(params), Len(params)) /\ b = Bound(Slots(c, params))
  BY DEF bind_movedim_call_arguments, Rejected
<1>2. n \in Nat /\ n <= Len(params) /\ Len(params) \in Nat /\ Cardinality(DOMAIN c.keywords) \in Nat
  BY <1>1, FinitePasses, FS_CardinalityType DEF Fills, Parameters
<1>3. Filled(c, params) = (n + 1)..Len(params)
  <2>1. \A i \in DOMAIN params : Given(c, params, i)
    BY <1>1 DEF Fills, Parameters
  <2>2. DOMAIN params = 1..Len(params)
    BY DEF Parameters
  <2> HIDE DEF n
  <2>3. {i \in 1..Len(params) : i > n} = (n + 1)..Len(params)
    BY <1>2
  <2> QED BY <2>1, <2>2, <2>3 DEF Filled, n
<1>4. Cardinality(Filled(c, params)) = Len(params) - n
  <2>1. n + 1 \in Int /\ Len(params) \in Int
    BY <1>2
  <2>2. Cardinality((n + 1)..Len(params)) = IF n + 1 > Len(params) THEN 0 ELSE Len(params) - (n + 1) + 1
    BY <2>1, FS_Interval
  <2> QED BY <1>2, <1>3, <2>2
<1>5. Fit(c, params)
  BY <1>1, <1>2, <1>4, FewFit
<1> HIDE DEF b
<1> QED BY <1>1, <1>5, FitPlain DEF b

LEMMA SplitPlain ==
  ASSUME NEW c, Passes(c), NEW params, Parameters(params), Len(params) = 2, NEW required,
         Fills(c, params, 2, required), ~chunk_keyword_error(c, params, 0)
  PROVE  Binds(c, Slots(c, params), Heads(params))
<1>1. Len(c.positional) <= Len(params)
  BY FinitePasses DEF Fills
<1>2. Cardinality(Filled(c, params)) \in Nat
  <2>1. Filled(c, params) \subseteq 1..2 /\ 1 \in Int /\ 2 \in Int
    BY DEF Filled, Parameters
  <2> QED BY <2>1, FS_Interval, FS_Subset, FS_CardinalityType
<1> DEFINE bound == 0
<1>3. bound \in Nat /\ bound <= Cardinality(Filled(c, params)) /\ ~chunk_keyword_error(c, params, bound)
  BY <1>2
<1> HIDE DEF bound
<1>4. Fit(c, params)
  BY <1>1, <1>3, CountedFits
<1> QED BY <1>4, FitPlain DEF Bound

\* All the positional arguments as one.
LEMMA VariadicBinds ==
  ASSUME NEW c, Passes(c), NEW name, name # "slot", NEW fits, Variadic(c, name, fits).ok
  PROVE  Binds(c, Variadic(c, name, fits).slots, {name})
<1> DEFINE none == Rejected.slots
<1>1. DOMAIN c.keywords = {} /\ Variadic(c, name, fits) = Bound(With(none, name, AllPositional(c)))
  BY DEF Variadic, Rejected
<1>2. DOMAIN none = {}
  BY DEF Rejected
<1> HIDE DEF none
<1>3. \A v : Places(none, v) = {} /\ Keywords(c, v) = {}
  BY <1>1, <1>2 DEF Places, PlacesIn, Keywords
<1>4. IsFiniteSet(DOMAIN none)
  BY <1>2, FS_EmptySet
<1>5. Binds(c, With(none, name, AllPositional(c)), {name})
  BY <1>2, <1>3, <1>4, GatheredHeld
<1> QED BY <1>1, <1>5 DEF Bound

-----------------------------------------------------------------------------
(***************************************************************************)
(* What a call is once its arguments are bound.                            *)
(***************************************************************************)
AllForms ==
  {"function", "descriptor", "mode", "unbound", "dunder", "guarded", "native", "unary", "variadic"}

\* The forms that ask anybody but the mode.
AskingForms == {"function", "dunder", "unary"}

Accounted(c, slots) == \A v : Count(Passed(c), v) = Count(Taken(slots), v)

EntryOK(c, r) ==
  /\ r.form \in AllForms
  /\ r.ok =>
       /\ Orderly(r.overrides)
       /\ r.form \in AskingForms => \A v \in Handlers(r) : Lists(r.overrides, v)
       /\ r.form \notin AskingForms => r.overrides = <<>>
       /\ r.native \in {"value", "unsupported", "panic", "declined", "rejected"}
       /\ r.native = "panic" => r.form = "function" /\ r.overrides # <<>>
       /\ r.native = "declined" => r.form = "dunder"
       /\ r.form = "variadic" /\ DOMAIN c.keywords = {} => Handlers(r) = {}
       /\ r.form # "unary" /\ (r.form \in {"dunder", "unbound"} => r.native \in {"value", "unsupported"})
          => Accounted(c, r.slots)

\* No handler is hidden in the arguments besides those named.
Open(b, names) ==
  \A name \in DOMAIN b.slots \ names :
    ~probe_torch_function_override(b.slots[name]) /\ name \notin {"tensors", "shape"}

LEMMA OperandFacts ==
  ASSUME NEW b, NEW name, \A n \in DOMAIN b.slots : Passable(b.slots[n])
  PROVE  /\ Operands(b, name) \in Seq(ToSet(Operands(b, name)))
         /\ \A v \in ToSet(Operands(b, name)) : probe_torch_function_override(v) => v.name # "type"
<1> DEFINE v == b.slots[name]
<1>1. CASE ~Has(b, name)
  <2>1. Operands(b, name) = <<>>
    BY <1>1 DEF Operands
  <2> QED BY <2>1 DEF ToSet
<1>2. CASE Has(b, name) /\ name \in {"tensors", "shape"} /\ IsList(v)
  <2>1. Operands(b, name) = v.items
    BY <1>2 DEF Operands
  <2>2. Passable(v)
    BY <1>2 DEF Has
  <2> HIDE DEF v
  <2>3. v.items \in Seq(ToSet(v.items))
    BY <1>2, <2>2 DEF Passable
  <2>4. ASSUME NEW u \in ToSet(v.items) PROVE probe_torch_function_override(u) => u.name # "type"
    BY <1>2, <2>2, <2>4 DEF Passable, ToSet
  <2> QED BY <2>1, <2>3, <2>4
<1>3. CASE Has(b, name) /\ ~(name \in {"tensors", "shape"} /\ IsList(v))
  <2>1. Operands(b, name) = <<v>>
    BY <1>3 DEF Operands
  <2>2. Passable(v)
    BY <1>3 DEF Has
  <2> HIDE DEF v
  <2>3. ToSet(<<v>>) = {v} /\ <<v>> \in Seq({v})
    BY DEF ToSet
  <2> QED BY <2>1, <2>2, <2>3 DEF Passable
<1> QED BY <1>1, <1>2, <1>3

\* Who is asked about arguments is everyone among them that has a handler.
LEMMA OverridesFacts ==
  ASSUME NEW b, \A n \in DOMAIN b.slots : Passable(b.slots[n]), NEW names, names \in Seq(ToSet(names))
  PROVE  LET r == OrderedOverrides(b, names)
         IN  /\ Orderly(r) /\ (names = <<>> => r = <<>>)
             /\ \A name \in ToSet(names) : \A v \in ToSet(Operands(b, name)) :
                  probe_torch_function_override(v) => Lists(r, v)
<1> DEFINE V == UNION {ToSet(Operands(b, name)) : name \in ToSet(names)}
           seqs == [i \in DOMAIN names |-> Operands(b, names[i])]
           all == FlattenSeq(seqs)
           r == Ordered(all)
<1>1. DOMAIN names = 1..Len(names) /\ Len(names) \in Nat
  OBVIOUS
<1>2. ASSUME NEW i \in DOMAIN names PROVE seqs[i] \in Seq(V)
  <2>1. names[i] \in ToSet(names)
    BY DEF ToSet
  <2>2. Operands(b, names[i]) \in Seq(ToSet(Operands(b, names[i])))
    BY OperandFacts
  <2>3. ToSet(Operands(b, names[i])) \subseteq V
    BY <2>1
  <2> HIDE DEF V
  <2> QED BY <2>2, <2>3
<1>3. \A v \in V : probe_torch_function_override(v) => v.name # "type"
  <2> SUFFICES ASSUME NEW name \in ToSet(names), NEW v \in ToSet(Operands(b, name)),
                      probe_torch_function_override(v)
               PROVE  v.name # "type"
    OBVIOUS
  <2> QED BY OperandFacts
<1>4. seqs \in Seq(Seq(V)) /\ DOMAIN seqs = DOMAIN names
  <2>1. seqs = [i \in 1..Len(names) |-> seqs[i]]
    BY <1>1
  <2> HIDE DEF seqs, V
  <2> QED BY <1>1, <1>2, <2>1
<1>5. names = <<>> => V = {}
  BY DEF ToSet
<1>6. OrderedOverrides(b, names) = r
  BY DEF OrderedOverrides
<1>7. ASSUME NEW name \in ToSet(names), NEW v \in ToSet(Operands(b, name))
      PROVE  \E i \in DOMAIN seqs : \E j \in DOMAIN seqs[i] : seqs[i][j] = v
  <2>1. PICK i \in DOMAIN names : names[i] = name
    BY DEF ToSet
  <2>2. seqs[i] = Operands(b, name) /\ i \in DOMAIN seqs
    BY <2>1
  <2> HIDE DEF seqs
  <2> QED BY <1>7, <2>2 DEF ToSet
<1> HIDE DEF V, seqs
<1>8. /\ all \in Seq(V)
      /\ \A i \in DOMAIN seqs : \A j \in DOMAIN seqs[i] : \E k \in DOMAIN all : all[k] = seqs[i][j]
  BY <1>4, Flattened
<1> HIDE DEF all
<1>9. /\ r \in Seq(V) /\ Orderly(r)
      /\ \A i \in DOMAIN all : probe_torch_function_override(all[i]) => Lists(r, all[i])
  BY <1>3, <1>8, OrderedFacts
<1> HIDE DEF r
<1>10. ASSUME NEW name \in ToSet(names), NEW v \in ToSet(Operands(b, name)), probe_torch_function_override(v)
       PROVE  Lists(r, v)
  <2>1. PICK i \in DOMAIN seqs : \E j \in DOMAIN seqs[i] : seqs[i][j] = v
    BY <1>7
  <2>2. PICK k \in DOMAIN all : all[k] = v
    BY <1>8, <2>1
  <2> QED BY <1>9, <1>10, <2>2
<1>11. names = <<>> => r = <<>>
  BY <1>5, <1>9
<1> QED BY <1>6, <1>9, <1>10, <1>11

\* Where all that has a handler is among the arguments that are looked at.
LEMMA OpenCovered ==
  ASSUME NEW b, NEW names, Open(b, names), NEW v, probe_torch_function_override(v),
         v \in Values(b.slots) \cup UNION {ToSet(Operands(b, name)) : name \in DOMAIN b.slots}
  PROVE  \E name \in names : v \in ToSet(Operands(b, name))
<1>1. ASSUME NEW name \in DOMAIN b.slots, v = b.slots[name] PROVE name \in names /\ v \in ToSet(Operands(b, name))
  <2>1. name \in names
    BY <1>1 DEF Open
  <2>2. ~IsList(v)
    BY DEF probe_torch_function_override, IsList
  <2>3. Operands(b, name) = <<v>>
    BY <1>1, <2>2 DEF Operands, Has
  <2>4. ToSet(<<v>>) = {v}
    BY DEF ToSet
  <2> QED BY <2>1, <2>3, <2>4
<1>2. ASSUME NEW name \in DOMAIN b.slots, v \in ToSet(Operands(b, name)), name \notin names PROVE FALSE
  <2>1. ~probe_torch_function_override(b.slots[name]) /\ name \notin {"tensors", "shape"}
    BY <1>2 DEF Open
  <2>2. Operands(b, name) = <<b.slots[name]>>
    BY <1>2, <2>1 DEF Operands, Has
  <2>3. ToSet(<<b.slots[name]>>) = {b.slots[name]}
    BY DEF ToSet
  <2> QED BY <1>2, <2>1, <2>2, <2>3
<1> QED BY <1>1, <1>2 DEF Values

LEMMA FunctionEntry ==
  ASSUME NEW c, Passes(c), NEW b, NEW names, names \in Seq(ToSet(names)), NEW held, NEW native,
         b.ok => /\ Binds(c, b.slots, held) /\ Open(b, ToSet(names))
                 /\ native \in {"value", "unsupported", "panic"}
                 /\ NoOverride(b, ToSet(names)) => native # "panic"
  PROVE  EntryOK(c, Function(b, names, native))
<1> DEFINE r == Function(b, names, native)
<1> SUFFICES EntryOK(c, r)
  OBVIOUS
<1>1. r.ok = b.ok /\ r.form = "function" /\ r.slots = b.slots
  BY DEF Function, Call
<1>2. b.ok => r.native = native /\ r.overrides = OrderedOverrides(b, names)
  BY DEF Function, Call
<1> HIDE DEF r
<1>3. CASE ~b.ok
  BY <1>1, <1>3 DEF EntryOK, AllForms
<1>4. CASE b.ok
  <2> DEFINE all == r.overrides
  <2>1. \A n \in DOMAIN b.slots : Passable(b.slots[n])
    BY <1>4 DEF Binds
  <2>2. /\ Orderly(all)
        /\ \A name \in ToSet(names) : \A v \in ToSet(Operands(b, name)) :
             probe_torch_function_override(v) => Lists(all, v)
    BY <1>2, <1>4, <2>1, OverridesFacts
  <2>3. ASSUME NEW v \in Handlers(r) PROVE Lists(all, v)
    <3>1. \A name : Operands(r, name) = Operands(b, name)
      BY <1>1 DEF Operands, Has
    <3>2. /\ probe_torch_function_override(v)
          /\ v \in Values(b.slots) \cup UNION {ToSet(Operands(b, name)) : name \in DOMAIN b.slots}
      BY <1>1, <2>3, <3>1 DEF Handlers
    <3> QED BY <1>4, <2>2, <3>2, OpenCovered
  <2>4. native = "panic" => all # <<>>
    <3> SUFFICES ASSUME native = "panic" PROVE all # <<>>
      OBVIOUS
    <3>1. ~NoOverride(b, ToSet(names))
      BY <1>4
    <3>2. PICK v : Lists(all, v)
      BY <2>2, <3>1 DEF NoOverride
    <3> QED BY <3>2 DEF Lists
  <2>5. Accounted(c, b.slots)
    BY <1>4 DEF Binds, Accounted
  <2> QED BY <1>1, <1>2, <1>4, <2>2, <2>3, <2>4, <2>5 DEF EntryOK, AllForms, AskingForms
<1> QED BY <1>3, <1>4

LEMMA EmptyNames == <<>> \in Seq(ToSet(<<>>)) /\ ToSet(<<>>) = {}
BY DEF ToSet

\* A call about whose arguments nobody is asked.
LEMMA CallEntry ==
  ASSUME NEW c, Passes(c), NEW b, NEW held, NEW form \in {"native", "guarded", "mode", "descriptor"}, NEW native,
         b.ok => Binds(c, b.slots, held) /\ native \in {"value", "unsupported"}
  PROVE  EntryOK(c, Call(b, form, <<>>, native))
<1> DEFINE r == Call(b, form, <<>>, native)
<1> SUFFICES EntryOK(c, r)
  OBVIOUS
<1>1. r.ok = b.ok /\ r.form = form /\ r.slots = b.slots /\ r.native = native
  BY DEF Call
<1>2. b.ok => r.overrides = OrderedOverrides(b, <<>>)
  BY DEF Call
<1> HIDE DEF r
<1>3. CASE ~b.ok
  BY <1>1, <1>3 DEF EntryOK, AllForms
<1>4. CASE b.ok
  <2>1. \A n \in DOMAIN b.slots : Passable(b.slots[n])
    BY <1>4 DEF Binds
  <2>2. Orderly(r.overrides) /\ r.overrides = <<>>
    BY <1>2, <1>4, <2>1, EmptyNames, OverridesFacts
  <2>3. Accounted(c, b.slots)
    BY <1>4 DEF Binds, Accounted
  <2> QED BY <1>1, <1>4, <2>2, <2>3 DEF EntryOK, AllForms, AskingForms
<1> QED BY <1>3, <1>4

LEMMA NativeEntry ==
  ASSUME NEW c, Passes(c), NEW b, NEW held, b.ok => Binds(c, b.slots, held)
  PROVE  EntryOK(c, Native(b))
BY CallEntry DEF Native

\* An argument that is no sequence of operands is its own operand.
LEMMA SoleOperand ==
  ASSUME NEW b, NEW name, name \notin {"tensors", "shape"}
  PROVE  ToSet(Operands(b, name)) = IF Has(b, name) THEN {b.slots[name]} ELSE {}
<1>1. \A v : ToSet(<<v>>) = {v}
  BY DEF ToSet
<1> QED BY <1>1, EmptyNames DEF Operands

LEMMA SoleOperands ==
  ASSUME NEW b, NEW names, names \cap {"tensors", "shape"} = {}
  PROVE  /\ NoOverride(b, names)
              <=> \A name \in names : Has(b, name) => ~probe_torch_function_override(b.slots[name])
         /\ TensorsOnly(b, names) <=> \A name \in names : Has(b, name) => IsTensor(b.slots[name])
<1>1. \A name \in names : ToSet(Operands(b, name)) = IF Has(b, name) THEN {b.slots[name]} ELSE {}
  BY SoleOperand
<1> QED BY <1>1 DEF NoOverride, TensorsOnly

LEMMA FewerOverrides ==
  ASSUME NEW b, NEW names, NoOverride(b, names), NEW some, some \subseteq names
  PROVE  NoOverride(b, some)
BY DEF NoOverride

\* A parameter that is required has its slot.
LEMMA RequiredHas ==
  ASSUME NEW c, NEW params, Parameters(params), NEW limit, NEW required \in Nat,
         Fills(c, params, limit, required), NEW i \in 1..required, required <= Len(params)
  PROVE  params[i][1] \in DOMAIN Slots(c, params)
<1>1. i \in DOMAIN params /\ Given(c, params, i)
  BY DEF Fills, Parameters
<1> QED BY <1>1, SlotFacts

\* What the two ways to account for keywords give when they accept a call.
LEMMA Walked ==
  ASSUME NEW c, Passes(c), NEW params, Parameters(params), NEW limit \in Nat, limit <= Len(params),
         NEW required \in Nat, required <= Len(params),
         NEW b, b = ByWalk(c, params, limit, required), b.ok
  PROVE  Binds(c, b.slots, Heads(params)) /\ \A i \in 1..required : Has(b, params[i][1])
<1>1. /\ b = Bound(Slots(c, params)) /\ Fills(c, params, limit, required)
      /\ Binds(c, b.slots, Heads(params))
  BY WalkPlain
<1>2. ASSUME NEW i \in 1..required PROVE Has(b, params[i][1])
  <2>1. params[i][1] \in DOMAIN Slots(c, params)
    BY <1>1, RequiredHas
  <2> QED BY <1>1, <2>1 DEF Has, Bound
<1> QED BY <1>1, <1>2

LEMMA CountBinds ==
  ASSUME NEW c, Passes(c), NEW params, Parameters(params), NEW limit \in Nat, limit <= Len(params),
         NEW required \in Nat, required <= Len(params),
         NEW b, b = ByCount(c, params, limit, required), b.ok
  PROVE  Binds(c, b.slots, Heads(params)) /\ \A i \in 1..required : Has(b, params[i][1])
<1>1. /\ b = Bound(Slots(c, params)) /\ Fills(c, params, limit, required)
      /\ Binds(c, b.slots, Heads(params))
  BY CountPlain
<1>2. ASSUME NEW i \in 1..required PROVE Has(b, params[i][1])
  <2>1. params[i][1] \in DOMAIN Slots(c, params)
    BY <1>1, RequiredHas
  <2> QED BY <1>1, <2>1 DEF Has, Bound
<1> QED BY <1>1, <1>2

LEMMA ReshapeEntry ==
  ASSUME NEW c, Passes(c)
  PROVE  EntryOK(c, reshape_variable_function(c))
<1> DEFINE params == <<Input, <<"shape">>>>
           w == ByCount(c, params, 2, 2)
           b == bind_top_level_reshape_arguments(c)
           names == <<"input", "shape">>
<1>1. /\ Parameters(params) /\ Len(params) = 2 /\ Heads(params) = {"input", "shape"}
      /\ params[1][1] = "input" /\ params[2][1] = "shape"
  BY Families, ParamsTwo DEF Alias
<1>2. ASSUME b.ok
      PROVE  /\ w.ok /\ b = w
             /\ Fits(b, "input", parse_tensor_or_torch_function_argument)
             /\ Fits(b, "shape", bind_top_level_reshape_shape)
  BY <1>2 DEF bind_top_level_reshape_arguments, Checked, Rejected
<1>3. names \in Seq(ToSet(names)) /\ ToSet(names) = {"input", "shape"}
  BY NamesTwo DEF Alias, Distinct
<1> HIDE DEF params, w, b, names
<1>4. 2 \in Nat /\ 2 <= Len(params) /\ 2 \in Nat /\ 2 <= Len(params)
  BY <1>1
<1>5. ASSUME b.ok
      PROVE  Binds(c, b.slots, {"input", "shape"}) /\ Has(b, "input") /\ Has(b, "shape")
  <2>1. Binds(c, w.slots, Heads(params)) /\ \A i \in 1..2 : Has(w, params[i][1])
    BY <1>1, <1>2, <1>4, <1>5, CountBinds DEF w
  <2>2. 1 \in 1..2 /\ 2 \in 1..2
    OBVIOUS
  <2> QED BY <1>1, <1>2, <1>5, <2>1, <2>2
<1>6. ASSUME b.ok PROVE Open(b, {"input", "shape"})
  BY <1>2, <1>5, <1>6 DEF Open, Binds, Fits, probe_torch_function_override
<1>7. ASSUME b.ok, NoOverride(b, {"input", "shape"}) PROVE TensorsOnly(b, {"input"})
  <2>1. {"input"} \cap {"tensors", "shape"} = {} /\ {"input"} \subseteq {"input", "shape"}
    OBVIOUS
  <2>2. NoOverride(b, {"input"})
    BY <1>7, <2>1, FewerOverrides
  <2> QED BY <1>2, <1>5, <1>7, <2>1, <2>2, SoleOperands DEF Fits, Has, parse_tensor_or_torch_function_argument
<1>8. NoOverride(b, {"input", "shape"}) => NoOverride(b, {"shape"})
  <2>1. {"shape"} \subseteq {"input", "shape"}
    OBVIOUS
  <2> QED BY <2>1, FewerOverrides
<1> QED BY <1>2, <1>3, <1>5, <1>6, <1>7, <1>8, FunctionEntry DEF reshape_variable_function, dispatch_top_level_reshape, Expects, b, names

LEMMA UnbindEntry ==
  ASSUME NEW c, Passes(c)
  PROVE  EntryOK(c, unbind_variable_function(c))
<1> DEFINE params == <<Input, <<"dim">>>>
           w == ByCount(c, params, 2, 1)
           b == bind_top_level_unbind_arguments(c)
           names == <<"input">>
<1>1. /\ Parameters(params) /\ Len(params) = 2 /\ Heads(params) = {"input", "dim"}
      /\ params[1][1] = "input"
  BY Families, ParamsTwo DEF Alias
<1>2. ASSUME b.ok
      PROVE  /\ w.ok /\ b = w
             /\ Fits(b, "input", parse_tensor_or_torch_function_argument)
             /\ Fits(b, "dim", is_dimension_swap_integer)
  BY <1>2 DEF bind_top_level_unbind_arguments, Checked, Rejected
<1>3. names \in Seq(ToSet(names)) /\ ToSet(names) = {"input"}
  BY NamesOne DEF Alias, Distinct
<1> HIDE DEF params, w, b, names
<1>4. 2 \in Nat /\ 2 <= Len(params) /\ 1 \in Nat /\ 1 <= Len(params)
  BY <1>1
<1>5. ASSUME b.ok
      PROVE  Binds(c, b.slots, {"input", "dim"}) /\ Has(b, "input")
  <2>1. Binds(c, w.slots, Heads(params)) /\ \A i \in 1..1 : Has(w, params[i][1])
    BY <1>1, <1>2, <1>4, <1>5, CountBinds DEF w
  <2>2. 1 \in 1..1
    OBVIOUS
  <2> QED BY <1>1, <1>2, <1>5, <2>1, <2>2
<1>6. ASSUME b.ok PROVE Open(b, {"input"})
  BY <1>2, <1>5, <1>6 DEF Open, Binds, Fits, is_dimension_swap_integer, AnyInt, probe_torch_function_override
<1>7. ASSUME b.ok, NoOverride(b, {"input"}) PROVE TensorsOnly(b, {"input"})
  <2>1. {"input"} \cap {"tensors", "shape"} = {} /\ {"input"} \subseteq {"input"}
    OBVIOUS
  <2>2. NoOverride(b, {"input"})
    BY <1>7
  <2> QED BY <1>2, <1>5, <1>7, <2>1, <2>2, SoleOperands DEF Fits, Has, parse_tensor_or_torch_function_argument
<1> QED BY <1>2, <1>3, <1>5, <1>6, <1>7, FunctionEntry DEF unbind_variable_function, dispatch_top_level_unbind, Expects, b, names

LEMMA SelectEntry ==
  ASSUME NEW c, Passes(c)
  PROVE  EntryOK(c, select_variable_function(c))
<1> DEFINE params == <<Input, <<"dim">>, <<"index">>>>
           w == ByCount(c, params, 3, 3)
           b == bind_top_level_select_arguments(c)
           names == <<"input">>
<1>1. /\ Parameters(params) /\ Len(params) = 3 /\ Heads(params) = {"input", "dim", "index"}
      /\ params[1][1] = "input" /\ params[2][1] = "dim" /\ params[3][1] = "index"
  BY Families, ParamsThree DEF Alias
<1>2. ASSUME b.ok
      PROVE  /\ w.ok /\ b = w
             /\ Fits(b, "input", parse_tensor_or_torch_function_argument)
             /\ Fits(b, "dim", is_dimension_swap_integer) /\ Fits(b, "index", validate_select_index)
  BY <1>2 DEF bind_top_level_select_arguments, Checked, Rejected
<1>3. names \in Seq(ToSet(names)) /\ ToSet(names) = {"input"}
  BY NamesOne DEF Alias, Distinct
<1> HIDE DEF params, w, b, names
<1>4. 3 \in Nat /\ 3 <= Len(params) /\ 3 \in Nat /\ 3 <= Len(params)
  BY <1>1
<1>5. ASSUME b.ok
      PROVE  Binds(c, b.slots, {"input", "dim", "index"}) /\ Has(b, "input") /\ Has(b, "dim") /\ Has(b, "index")
  <2>1. Binds(c, w.slots, Heads(params)) /\ \A i \in 1..3 : Has(w, params[i][1])
    BY <1>1, <1>2, <1>4, <1>5, CountBinds DEF w
  <2>2. 1 \in 1..3 /\ 2 \in 1..3 /\ 3 \in 1..3
    OBVIOUS
  <2> QED BY <1>1, <1>2, <1>5, <2>1, <2>2
<1>6. ASSUME b.ok PROVE Open(b, {"input"})
  BY <1>2, <1>5, <1>6 DEF Open, Binds, Fits, is_dimension_swap_integer, validate_select_index, probe_select_index, AnyInt, probe_torch_function_override
<1>7. ASSUME b.ok, NoOverride(b, {"input"}) PROVE TensorsOnly(b, {"input"})
  <2>1. {"input"} \cap {"tensors", "shape"} = {} /\ {"input"} \subseteq {"input"}
    OBVIOUS
  <2>2. NoOverride(b, {"input"})
    BY <1>7
  <2> QED BY <1>2, <1>5, <1>7, <2>1, <2>2, SoleOperands DEF Fits, Has, parse_tensor_or_torch_function_argument
<1> QED BY <1>2, <1>3, <1>5, <1>6, <1>7, FunctionEntry DEF select_variable_function, dispatch_top_level_select, Expects, b, names

LEMMA ChunkEntry ==
  ASSUME NEW c, Passes(c)
  PROVE  EntryOK(c, chunk_variable_function(c))
<1> DEFINE params == <<Input, <<"chunks">>, <<"dim">>>>
           w == ByCount(c, params, 3, 2)
           b == bind_top_level_chunk_arguments(c)
           names == <<"input", "chunks", "dim">>
<1>1. /\ Parameters(params) /\ Len(params) = 3 /\ Heads(params) = {"input", "chunks", "dim"}
      /\ params[1][1] = "input" /\ params[2][1] = "chunks"
  BY Families, ParamsThree DEF Alias
<1>2. ASSUME b.ok
      PROVE  /\ w.ok /\ b = w
             /\ Fits(b, "input", parse_tensor_or_torch_function_argument)
             /\ Fits(b, "chunks", IntegerOrOverride) /\ Fits(b, "dim", IntegerOrOverride)
  BY <1>2 DEF bind_top_level_chunk_arguments, Checked, Rejected
<1>3. names \in Seq(ToSet(names)) /\ ToSet(names) = {"input", "chunks", "dim"}
  BY NamesThree DEF Alias, Distinct
<1> HIDE DEF params, w, b, names
<1>4. 3 \in Nat /\ 3 <= Len(params) /\ 2 \in Nat /\ 2 <= Len(params)
  BY <1>1
<1>5. ASSUME b.ok
      PROVE  Binds(c, b.slots, {"input", "chunks", "dim"}) /\ Has(b, "input") /\ Has(b, "chunks")
  <2>1. Binds(c, w.slots, Heads(params)) /\ \A i \in 1..2 : Has(w, params[i][1])
    BY <1>1, <1>2, <1>4, <1>5, CountBinds DEF w
  <2>2. 1 \in 1..2 /\ 2 \in 1..2
    OBVIOUS
  <2> QED BY <1>1, <1>2, <1>5, <2>1, <2>2
<1>6. ASSUME b.ok PROVE Open(b, {"input", "chunks", "dim"})
  BY <1>2, <1>5, <1>6 DEF Open, Binds, Fits, probe_torch_function_override
<1>7. ASSUME b.ok, NoOverride(b, {"input", "chunks", "dim"}) PROVE TensorsOnly(b, {"input"})
  <2>1. {"input"} \cap {"tensors", "shape"} = {} /\ {"input"} \subseteq {"input", "chunks", "dim"}
    OBVIOUS
  <2>2. NoOverride(b, {"input"})
    BY <1>7, <2>1, FewerOverrides
  <2> QED BY <1>2, <1>5, <1>7, <2>1, <2>2, SoleOperands DEF Fits, Has, parse_tensor_or_torch_function_argument
<1>8. NoOverride(b, {"input", "chunks", "dim"}) => NoOverride(b, {"chunks", "dim"})
  <2>1. {"chunks", "dim"} \subseteq {"input", "chunks", "dim"}
    OBVIOUS
  <2> QED BY <2>1, FewerOverrides
<1> QED BY <1>2, <1>3, <1>5, <1>6, <1>7, <1>8, FunctionEntry DEF chunk_variable_function, dispatch_top_level_chunk, Expects, b, names

LEMMA PermuteEntry ==
  ASSUME NEW c, Passes(c)
  PROVE  EntryOK(c, permute_variable_function(c))
<1> DEFINE params == <<Input, <<"dims">>>>
           w == ByCount(c, params, 2, 2)
           b == bind_top_level_permute_arguments(c)
<1>1. Parameters(params) /\ Len(params) = 2 /\ Heads(params) = {"input", "dims"}
  BY Families, ParamsTwo DEF Alias
<1>2. b.ok => w.ok /\ b = w
  BY DEF bind_top_level_permute_arguments, Checked, Rejected
<1> HIDE DEF params, w, b
<1>3. 2 \in Nat /\ 2 <= Len(params) /\ 2 \in Nat /\ 2 <= Len(params)
  BY <1>1
<1>4. w.ok => Binds(c, w.slots, Heads(params))
  BY <1>1, <1>3, CountBinds DEF w
<1> QED BY <1>2, <1>4, NativeEntry DEF permute_variable_function, b

LEMMA SumEntry ==
  ASSUME NEW c, Passes(c)
  PROVE  EntryOK(c, sum_variable_function(c))
<1> DEFINE params == ReductionParams
           w == ByWalk(c, params, 3, 1)
           b == bind_top_level_sum_arguments(c)
           names == <<"input", "dtype", "out">>
<1>1. /\ Parameters(params) /\ Len(params) = 5 /\ Heads(params) = {"input", "dim", "keepdim", "dtype", "out"}
      /\ params[1][1] = "input"
  BY Families, ParamsFive DEF Alias, ReductionParams
<1>2. ASSUME b.ok
      PROVE  /\ w.ok /\ b = w
             /\ Fits(b, "input", parse_tensor_or_torch_function_argument)
             /\ Fits(b, "dim", is_sum_dimension_argument) /\ Fits(b, "keepdim", IsBool)
             /\ Fits(b, "dtype", bind_top_level_sum_dtype) /\ Fits(b, "out", parse_out)
  BY <1>2 DEF bind_top_level_sum_arguments, Checked, Rejected
<1>3. names \in Seq(ToSet(names)) /\ ToSet(names) = {"input", "dtype", "out"}
  BY NamesThree DEF Alias, Distinct
<1> HIDE DEF params, w, b, names
<1>4. 3 \in Nat /\ 3 <= Len(params) /\ 1 \in Nat /\ 1 <= Len(params)
  BY <1>1
<1>5. ASSUME b.ok
      PROVE  Binds(c, b.slots, {"input", "dim", "keepdim", "dtype", "out"}) /\ Has(b, "input")
  <2>1. Binds(c, w.slots, Heads(params)) /\ \A i \in 1..1 : Has(w, params[i][1])
    BY <1>1, <1>2, <1>4, <1>5, Walked DEF w
  <2>2. 1 \in 1..1
    OBVIOUS
  <2> QED BY <1>1, <1>2, <1>5, <2>1, <2>2
<1>6. ASSUME b.ok PROVE Open(b, {"input", "dtype", "out"})
  BY <1>2, <1>5, <1>6 DEF Open, Binds, Fits, is_sum_dimension_argument, is_dimension_swap_integer, AnyInt, IsBool, IsList, probe_torch_function_override
<1>7. ASSUME b.ok, NoOverride(b, {"input", "dtype", "out"}) PROVE TensorsOnly(b, {"input"})
  <2>1. {"input"} \cap {"tensors", "shape"} = {} /\ {"input"} \subseteq {"input", "dtype", "out"}
    OBVIOUS
  <2>2. NoOverride(b, {"input"})
    BY <1>7, <2>1, FewerOverrides
  <2> QED BY <1>2, <1>5, <1>7, <2>1, <2>2, SoleOperands DEF Fits, Has, parse_tensor_or_torch_function_argument
<1> QED BY <1>2, <1>3, <1>5, <1>6, <1>7, FunctionEntry DEF sum_variable_function, dispatch_top_level_sum, Reduced, b, names

LEMMA MeanEntry ==
  ASSUME NEW c, Passes(c)
  PROVE  EntryOK(c, mean_variable_function(c))
<1> DEFINE params == ReductionParams
           w == ByWalk(c, params, 3, 1)
           b == bind_top_level_mean_arguments(c)
           names == <<"input", "dtype", "out">>
<1>1. /\ Parameters(params) /\ Len(params) = 5 /\ Heads(params) = {"input", "dim", "keepdim", "dtype", "out"}
      /\ params[1][1] = "input"
  BY Families, ParamsFive DEF Alias, ReductionParams
<1>2. ASSUME b.ok
      PROVE  /\ w.ok /\ b = w
             /\ Fits(b, "input", parse_tensor_or_torch_function_argument)
             /\ Fits(b, "dim", is_sum_dimension_argument) /\ Fits(b, "keepdim", IsBool)
             /\ Fits(b, "dtype", bind_top_level_sum_dtype) /\ Fits(b, "out", parse_out)
  BY <1>2 DEF bind_top_level_mean_arguments, Checked, Rejected
<1>3. names \in Seq(ToSet(names)) /\ ToSet(names) = {"input", "dtype", "out"}
  BY NamesThree DEF Alias, Distinct
<1> HIDE DEF params, w, b, names
<1>4. 3 \in Nat /\ 3 <= Len(params) /\ 1 \in Nat /\ 1 <= Len(params)
  BY <1>1
<1>5. ASSUME b.ok
      PROVE  Binds(c, b.slots, {"input", "dim", "keepdim", "dtype", "out"}) /\ Has(b, "input")
  <2>1. Binds(c, w.slots, Heads(params)) /\ \A i \in 1..1 : Has(w, params[i][1])
    BY <1>1, <1>2, <1>4, <1>5, Walked DEF w
  <2>2. 1 \in 1..1
    OBVIOUS
  <2> QED BY <1>1, <1>2, <1>5, <2>1, <2>2
<1>6. ASSUME b.ok PROVE Open(b, {"input", "dtype", "out"})
  BY <1>2, <1>5, <1>6 DEF Open, Binds, Fits, is_sum_dimension_argument, is_dimension_swap_integer, AnyInt, IsBool, IsList, probe_torch_function_override
<1>7. ASSUME b.ok, NoOverride(b, {"input", "dtype", "out"}) PROVE TensorsOnly(b, {"input"})
  <2>1. {"input"} \cap {"tensors", "shape"} = {} /\ {"input"} \subseteq {"input", "dtype", "out"}
    OBVIOUS
  <2>2. NoOverride(b, {"input"})
    BY <1>7, <2>1, FewerOverrides
  <2> QED BY <1>2, <1>5, <1>7, <2>1, <2>2, SoleOperands DEF Fits, Has, parse_tensor_or_torch_function_argument
<1> QED BY <1>2, <1>3, <1>5, <1>6, <1>7, FunctionEntry DEF mean_variable_function, dispatch_top_level_mean, Reduced, b, names

LEMMA NarrowEntry ==
  ASSUME NEW c, Passes(c)
  PROVE  EntryOK(c, narrow_variable_function(c))
<1> DEFINE params == <<Input, <<"dim">>, <<"start">>, <<"length">>>>
           w == ByWalk(c, params, 4, 4)
           b == bind_top_level_narrow_arguments(c)
           names == <<"input", "dim", "start", "length">>
<1>1. /\ Parameters(params) /\ Len(params) = 4 /\ Heads(params) = {"input", "dim", "start", "length"}
      /\ params[1][1] = "input" /\ params[2][1] = "dim" /\ params[3][1] = "start" /\ params[4][1] = "length"
  BY Families, ParamsFour DEF Alias
<1>2. ASSUME b.ok
      PROVE  /\ w.ok /\ b = w
             /\ Fits(b, "input", parse_tensor_or_torch_function_argument)
  BY <1>2 DEF bind_top_level_narrow_arguments, Checked, Rejected
<1>3. names \in Seq(ToSet(names)) /\ ToSet(names) = {"input", "dim", "start", "length"}
  BY NamesFour DEF Alias, Distinct
<1> HIDE DEF params, w, b, names
<1>4. 4 \in Nat /\ 4 <= Len(params) /\ 4 \in Nat /\ 4 <= Len(params)
  BY <1>1
<1>5. ASSUME b.ok
      PROVE  Binds(c, b.slots, {"input", "dim", "start", "length"}) /\ Has(b, "input") /\ Has(b, "dim") /\ Has(b, "start") /\ Has(b, "length")
  <2>1. Binds(c, w.slots, Heads(params)) /\ \A i \in 1..4 : Has(w, params[i][1])
    BY <1>1, <1>2, <1>4, <1>5, Walked DEF w
  <2>2. 1 \in 1..4 /\ 2 \in 1..4 /\ 3 \in 1..4 /\ 4 \in 1..4
    OBVIOUS
  <2> QED BY <1>1, <1>2, <1>5, <2>1, <2>2
<1>6. ASSUME b.ok PROVE Open(b, {"input", "dim", "start", "length"})
  BY <1>2, <1>5, <1>6 DEF Open, Binds, Fits, probe_torch_function_override
<1>7. ASSUME b.ok, NoOverride(b, {"input", "dim", "start", "length"}) PROVE TensorsOnly(b, {"input"})
  <2>1. {"input"} \cap {"tensors", "shape"} = {} /\ {"input"} \subseteq {"input", "dim", "start", "length"}
    OBVIOUS
  <2>2. NoOverride(b, {"input"})
    BY <1>7, <2>1, FewerOverrides
  <2> QED BY <1>2, <1>5, <1>7, <2>1, <2>2, SoleOperands DEF Fits, Has, parse_tensor_or_torch_function_argument
<1>8. NoOverride(b, {"input", "dim", "start", "length"}) => NoOverride(b, {"dim", "start", "length"})
  <2>1. {"dim", "start", "length"} \subseteq {"input", "dim", "start", "length"}
    OBVIOUS
  <2> QED BY <2>1, FewerOverrides
<1> QED BY <1>2, <1>3, <1>5, <1>6, <1>7, <1>8, FunctionEntry DEF narrow_variable_function, dispatch_top_level_narrow, Expects, NarrowStart, b, names

LEMMA MmEntry ==
  ASSUME NEW c, Passes(c)
  PROVE  EntryOK(c, mm_variable_function(c))
<1> DEFINE params == <<Input, <<"mat2">>, <<"out">>>>
           w == ByCount(c, params, 2, 2)
           b == bind_top_level_mm_arguments(c)
           names == <<"input", "mat2", "out">>
<1>1. /\ Parameters(params) /\ Len(params) = 3 /\ Heads(params) = {"input", "mat2", "out"}
      /\ params[1][1] = "input" /\ params[2][1] = "mat2"
  BY Families, ParamsThree DEF Alias
<1>2. ASSUME b.ok
      PROVE  /\ w.ok /\ b = w
             /\ Fits(b, "input", parse_tensor_or_torch_function_argument)
             /\ Fits(b, "mat2", parse_tensor_or_torch_function_argument) /\ Fits(b, "out", parse_out)
  BY <1>2 DEF bind_top_level_mm_arguments, Checked, Rejected
<1>3. names \in Seq(ToSet(names)) /\ ToSet(names) = {"input", "mat2", "out"}
  BY NamesThree DEF Alias, Distinct
<1> HIDE DEF params, w, b, names
<1>4. 2 \in Nat /\ 2 <= Len(params) /\ 2 \in Nat /\ 2 <= Len(params)
  BY <1>1
<1>5. ASSUME b.ok
      PROVE  Binds(c, b.slots, {"input", "mat2", "out"}) /\ Has(b, "input") /\ Has(b, "mat2")
  <2>1. Binds(c, w.slots, Heads(params)) /\ \A i \in 1..2 : Has(w, params[i][1])
    BY <1>1, <1>2, <1>4, <1>5, CountBinds DEF w
  <2>2. 1 \in 1..2 /\ 2 \in 1..2
    OBVIOUS
  <2> QED BY <1>1, <1>2, <1>5, <2>1, <2>2
<1>6. ASSUME b.ok PROVE Open(b, {"input", "mat2", "out"})
  BY <1>2, <1>5, <1>6 DEF Open, Binds, Fits, probe_torch_function_override
<1>7. ASSUME b.ok, NoOverride(b, {"input", "mat2", "out"}) PROVE TensorsOnly(b, {"input", "mat2"})
  <2>1. {"input", "mat2"} \cap {"tensors", "shape"} = {} /\ {"input", "mat2"} \subseteq {"input", "mat2", "out"}
    OBVIOUS
  <2>2. NoOverride(b, {"input", "mat2"})
    BY <1>7, <2>1, FewerOverrides
  <2> QED BY <1>2, <1>5, <1>7, <2>1, <2>2, SoleOperands DEF Fits, Has, parse_tensor_or_torch_function_argument
<1> QED BY <1>2, <1>3, <1>5, <1>6, <1>7, FunctionEntry DEF mm_variable_function, dispatch_top_level_mm, OutRefused, Expects, b, names

LEMMA AddEntry ==
  ASSUME NEW c, Passes(c)
  PROVE  EntryOK(c, add_variable_function(c))
<1> DEFINE params == <<Input, Other, <<"alpha">>, <<"out">>>>
           w == ByCount(c, params, 2, 2)
           b == bind_top_level_add_arguments(c)
           names == <<"input", "other", "alpha", "out">>
<1>1. /\ Parameters(params) /\ Len(params) = 4 /\ Heads(params) = {"input", "other", "alpha", "out"}
      /\ params[1][1] = "input" /\ params[2][1] = "other"
  BY Families, ParamsFour DEF Alias
<1>2. ASSUME b.ok
      PROVE  /\ w.ok /\ b = w
  BY <1>2 DEF bind_top_level_add_arguments, Checked, Rejected
<1>3. names \in Seq(ToSet(names)) /\ ToSet(names) = {"input", "other", "alpha", "out"}
  BY NamesFour DEF Alias, Distinct
<1> HIDE DEF params, w, b, names
<1>4. 2 \in Nat /\ 2 <= Len(params) /\ 2 \in Nat /\ 2 <= Len(params)
  BY <1>1
<1>5. ASSUME b.ok
      PROVE  Binds(c, b.slots, {"input", "other", "alpha", "out"}) /\ Has(b, "input") /\ Has(b, "other")
  <2>1. Binds(c, w.slots, Heads(params)) /\ \A i \in 1..2 : Has(w, params[i][1])
    BY <1>1, <1>2, <1>4, <1>5, CountBinds DEF w
  <2>2. 1 \in 1..2 /\ 2 \in 1..2
    OBVIOUS
  <2> QED BY <1>1, <1>2, <1>5, <2>1, <2>2
<1>6. ASSUME b.ok PROVE Open(b, {"input", "other", "alpha", "out"})
  BY <1>2, <1>5, <1>6 DEF Open, Binds, Fits, probe_torch_function_override
<1>7. NoOverride(b, {"input", "other", "alpha", "out"}) => NoOverride(b, {"input", "other"})
  <2>1. {"input", "other"} \subseteq {"input", "other", "alpha", "out"}
    OBVIOUS
  <2> QED BY <2>1, FewerOverrides
<1>8. NoOverride(b, {"input", "other", "alpha", "out"}) => NoOverride(b, {"alpha"})
  <2>1. {"alpha"} \subseteq {"input", "other", "alpha", "out"}
    OBVIOUS
  <2> QED BY <2>1, FewerOverrides
<1> QED BY <1>2, <1>3, <1>5, <1>6, <1>7, <1>8, FunctionEntry DEF add_variable_function, dispatch_top_level_addition, OutRefused, Alpha, Arithmetic, b, names

\* Tensors that are joined are all tensors where none of them has a handler.
LEMMA JoinedFacts ==
  ASSUME NEW b, Has(b, "tensors"), parse_cat_tensors_argument(b.slots["tensors"]), NEW names, "tensors" \in names,
         Has(b, "dim") => "dim" \in names
  PROVE  /\ JoinedTensors(b) \in {"value", "unsupported", "panic"}
         /\ NoOverride(b, names) => JoinedTensors(b) # "panic"
<1> DEFINE v == b.slots["tensors"]
<1>1. JoinedTensors(b) \in {"value", "unsupported", "panic"}
  BY DEF JoinedTensors, OutRefused
<1>2. ASSUME NoOverride(b, names) PROVE JoinedTensors(b) # "panic"
  <2>1. IsList(v)
    <3> SUFFICES ASSUME ~IsList(v) PROVE FALSE
      OBVIOUS
    <3>1. probe_torch_function_override(v)
      BY DEF parse_cat_tensors_argument
    <3>2. Operands(b, "tensors") = <<v>>
      BY DEF Operands
    <3>3. v \in ToSet(<<v>>)
      BY DEF ToSet
    <3> QED BY <1>2, <3>1, <3>2, <3>3 DEF NoOverride
  <2>2. Operands(b, "tensors") = v.items
    BY <2>1 DEF Operands
  <2>3. ASSUME NEW u \in ToSet(v.items) PROVE IsTensor(u)
    <3>1. ~probe_torch_function_override(u)
      BY <1>2, <2>2 DEF NoOverride
    <3>2. PICK i \in DOMAIN v.items : v.items[i] = u
      BY <2>3 DEF ToSet
    <3>3. parse_tensor_or_torch_function_argument(v.items[i])
      BY <2>1, <3>2 DEF parse_cat_tensors_argument
    <3> QED BY <3>1, <3>2, <3>3 DEF parse_tensor_or_torch_function_argument
  <2>4. TensorsOnly(b, {"tensors"})
    BY <2>2, <2>3 DEF TensorsOnly
  <2>5. NoOverride(b, {"dim"})
    <3>1. CASE Has(b, "dim")
      BY <1>2, <3>1 DEF NoOverride
    <3>2. CASE ~Has(b, "dim")
      <4>1. Operands(b, "dim") = <<>>
        BY <3>2 DEF Operands
      <4>2. ToSet(<<>>) = {}
        BY EmptyNames
      <4> QED BY <4>1, <4>2 DEF NoOverride
    <3> QED BY <3>1, <3>2
  <2> QED BY <2>1, <2>4, <2>5 DEF JoinedTensors, OutRefused
<1> QED BY <1>1, <1>2

LEMMA CatEntry ==
  ASSUME NEW c, Passes(c)
  PROVE  EntryOK(c, cat_alias_variable_function(c))
<1> DEFINE params == <<<<"tensors">>, <<"dim", "axis">>, <<"out">>>>
           w == ByWalk(c, params, 2, 1)
           b == bind_top_level_cat_arguments(c)
           names == <<"tensors", "dim", "out">>
<1>1. /\ Parameters(params) /\ Len(params) = 3 /\ Heads(params) = {"tensors", "dim", "out"}
      /\ params[1][1] = "tensors"
  BY Families, ParamsThree DEF Alias
<1>2. ASSUME b.ok
      PROVE  /\ w.ok /\ b = w
             /\ Fits(b, "tensors", parse_cat_tensors_argument) /\ Fits(b, "dim", IntegerOrOverride)
  BY <1>2 DEF bind_top_level_cat_arguments, Checked, Rejected
<1>3. names \in Seq(ToSet(names)) /\ ToSet(names) = {"tensors", "dim", "out"}
  BY NamesThree DEF Alias, Distinct
<1> HIDE DEF params, w, b, names
<1>4. 2 \in Nat /\ 2 <= Len(params) /\ 1 \in Nat /\ 1 <= Len(params)
  BY <1>1
<1>5. ASSUME b.ok
      PROVE  Binds(c, b.slots, {"tensors", "dim", "out"}) /\ Has(b, "tensors")
  <2>1. Binds(c, w.slots, Heads(params)) /\ \A i \in 1..1 : Has(w, params[i][1])
    BY <1>1, <1>2, <1>4, <1>5, Walked DEF w
  <2>2. 1 \in 1..1
    OBVIOUS
  <2> QED BY <1>1, <1>2, <1>5, <2>1, <2>2
<1>6. ASSUME b.ok PROVE Open(b, {"tensors", "dim", "out"})
  BY <1>2, <1>5, <1>6 DEF Open, Binds, Fits, probe_torch_function_override
<1>7. ASSUME b.ok
      PROVE  /\ JoinedTensors(b) \in {"value", "unsupported", "panic"}
             /\ NoOverride(b, {"tensors", "dim", "out"}) => JoinedTensors(b) # "panic"
  <2>1. parse_cat_tensors_argument(b.slots["tensors"])
    BY <1>2, <1>5, <1>7 DEF Fits, Has
  <2>2. "tensors" \in {"tensors", "dim", "out"} /\ "dim" \in {"tensors", "dim", "out"}
    OBVIOUS
  <2> QED BY <1>5, <1>7, <2>1, <2>2, JoinedFacts
<1> QED BY <1>2, <1>3, <1>5, <1>6, <1>7, FunctionEntry DEF cat_alias_variable_function, dispatch_top_level_cat, b, names

LEMMA StackEntry ==
  ASSUME NEW c, Passes(c)
  PROVE  EntryOK(c, stack_variable_function(c))
<1> DEFINE params == <<<<"tensors">>, <<"dim", "axis">>, <<"out">>>>
           w == ByWalk(c, params, 2, 1)
           b == bind_top_level_stack_arguments(c)
           names == <<"tensors", "dim", "out">>
<1>1. /\ Parameters(params) /\ Len(params) = 3 /\ Heads(params) = {"tensors", "dim", "out"}
      /\ params[1][1] = "tensors"
  BY Families, ParamsThree DEF Alias
<1>2. ASSUME b.ok
      PROVE  /\ w.ok /\ b = w
             /\ Fits(b, "tensors", parse_stack_tensors_argument) /\ Fits(b, "dim", IntegerOrOverride)
  BY <1>2 DEF bind_top_level_stack_arguments, Checked, Rejected
<1>3. names \in Seq(ToSet(names)) /\ ToSet(names) = {"tensors", "dim", "out"}
  BY NamesThree DEF Alias, Distinct
<1> HIDE DEF params, w, b, names
<1>4. 2 \in Nat /\ 2 <= Len(params) /\ 1 \in Nat /\ 1 <= Len(params)
  BY <1>1
<1>5. ASSUME b.ok
      PROVE  Binds(c, b.slots, {"tensors", "dim", "out"}) /\ Has(b, "tensors")
  <2>1. Binds(c, w.slots, Heads(params)) /\ \A i \in 1..1 : Has(w, params[i][1])
    BY <1>1, <1>2, <1>4, <1>5, Walked DEF w
  <2>2. 1 \in 1..1
    OBVIOUS
  <2> QED BY <1>1, <1>2, <1>5, <2>1, <2>2
<1>6. ASSUME b.ok PROVE Open(b, {"tensors", "dim", "out"})
  BY <1>2, <1>5, <1>6 DEF Open, Binds, Fits, probe_torch_function_override
<1>7. ASSUME b.ok
      PROVE  /\ JoinedTensors(b) \in {"value", "unsupported", "panic"}
             /\ NoOverride(b, {"tensors", "dim", "out"}) => JoinedTensors(b) # "panic"
  <2>1. parse_cat_tensors_argument(b.slots["tensors"])
    BY <1>2, <1>5, <1>7 DEF Fits, Has, parse_stack_tensors_argument
  <2>2. "tensors" \in {"tensors", "dim", "out"} /\ "dim" \in {"tensors", "dim", "out"}
    OBVIOUS
  <2> QED BY <1>5, <1>7, <2>1, <2>2, JoinedFacts
<1> QED BY <1>2, <1>3, <1>5, <1>6, <1>7, FunctionEntry DEF stack_variable_function, dispatch_top_level_stack, b, names

LEMMA VstackEntry ==
  ASSUME NEW c, Passes(c)
  PROVE  EntryOK(c, atleast_stack_variable_function(c))
<1> DEFINE params == <<<<"tensors">>, <<"out">>>>
           w == ByWalk(c, params, 1, 1)
           b == bind_top_level_atleast_stack_arguments(c)
           names == <<"tensors", "out">>
<1>1. /\ Parameters(params) /\ Len(params) = 2 /\ Heads(params) = {"tensors", "out"}
      /\ params[1][1] = "tensors"
  BY Families, ParamsTwo DEF Alias
<1>2. ASSUME b.ok
      PROVE  /\ w.ok /\ b = w
             /\ Fits(b, "tensors", parse_atleast_stack_tensors_argument)
  BY <1>2 DEF bind_top_level_atleast_stack_arguments, Checked, Rejected
<1>3. names \in Seq(ToSet(names)) /\ ToSet(names) = {"tensors", "out"}
  BY NamesTwo DEF Alias, Distinct
<1> HIDE DEF params, w, b, names
<1>4. 1 \in Nat /\ 1 <= Len(params) /\ 1 \in Nat /\ 1 <= Len(params)
  BY <1>1
<1>5. ASSUME b.ok
      PROVE  Binds(c, b.slots, {"tensors", "out"}) /\ Has(b, "tensors")
  <2>1. Binds(c, w.slots, Heads(params)) /\ \A i \in 1..1 : Has(w, params[i][1])
    BY <1>1, <1>2, <1>4, <1>5, Walked DEF w
  <2>2. 1 \in 1..1
    OBVIOUS
  <2> QED BY <1>1, <1>2, <1>5, <2>1, <2>2
<1>6. ASSUME b.ok PROVE Open(b, {"tensors", "out"})
  BY <1>2, <1>5, <1>6 DEF Open, Binds, Fits, probe_torch_function_override
<1>7. ASSUME b.ok
      PROVE  /\ JoinedTensors(b) \in {"value", "unsupported", "panic"}
             /\ NoOverride(b, {"tensors", "out"}) => JoinedTensors(b) # "panic"
  <2>1. parse_cat_tensors_argument(b.slots["tensors"])
    BY <1>2, <1>5, <1>7 DEF Fits, Has, parse_atleast_stack_tensors_argument
  <2>2. "tensors" \in {"tensors", "out"} /\ ~Has(b, "dim")
    BY <1>5, <1>7 DEF Binds, Has
  <2> QED BY <1>5, <1>7, <2>1, <2>2, JoinedFacts
<1> QED BY <1>2, <1>3, <1>5, <1>6, <1>7, FunctionEntry DEF atleast_stack_variable_function, dispatch_top_level_atleast_stack, b, names

\* One tensor, which is all of it.
LEMMA SingleEntry ==
  ASSUME NEW c, Passes(c)
  PROVE  LET b == bind_legacy_single_tensor_or_override_argument(c)
         IN  EntryOK(c, Function(b, <<"input">>, Expects(TensorsOnly(b, {"input"}))))
<1> DEFINE w == LegacySingle(c)
           b == bind_legacy_single_tensor_or_override_argument(c)
           names == <<"input">>
<1>1. ASSUME b.ok
      PROVE  w.ok /\ b = w /\ Fits(b, "input", parse_tensor_or_torch_function_argument)
  BY <1>1 DEF bind_legacy_single_tensor_or_override_argument, Checked, Rejected
<1>2. names \in Seq(ToSet(names)) /\ ToSet(names) = {"input"}
  BY NamesOne DEF Alias, Distinct
<1> SUFFICES EntryOK(c, Function(b, names, Expects(TensorsOnly(b, {"input"}))))
  OBVIOUS
<1> HIDE DEF w, b, names
<1>3. ASSUME b.ok PROVE Binds(c, b.slots, {"input"})
  BY <1>1, <1>3, SinglePlain DEF w
<1>4. ASSUME b.ok PROVE Open(b, {"input"})
  BY <1>3, <1>4 DEF Open, Binds
<1>5. ASSUME b.ok, NoOverride(b, {"input"}) PROVE TensorsOnly(b, {"input"})
  <2>1. {"input"} \cap {"tensors", "shape"} = {}
    OBVIOUS
  <2> QED BY <1>1, <1>5, <2>1, SoleOperands DEF Fits, Has, parse_tensor_or_torch_function_argument
<1> QED BY <1>2, <1>3, <1>4, <1>5, FunctionEntry DEF Expects

LEMMA UnaryOutEntry ==
  ASSUME NEW c, Passes(c)
  PROVE  EntryOK(c, unary_out_variable_function(c))
<1> DEFINE slots == Slots(c, <<Input, <<"out">>>>)
           b == bind_unary_out_arguments(c)
           names == <<"input", "out">>
<1>1. ASSUME b.ok
      PROVE  /\ b = Bound(slots) /\ Fills(c, <<Input>>, 1, 1) /\ validate_legacy_single_keywords(c, {"out"})
             /\ Fits(b, "input", parse_tensor_or_torch_function_argument)
  BY <1>1 DEF bind_unary_out_arguments, Checked, Rejected
<1>2. names \in Seq(ToSet(names)) /\ ToSet(names) = {"input", "out"}
  BY NamesTwo DEF Alias, Distinct
<1>3. ASSUME b.ok PROVE Binds(c, b.slots, {"input", "out"})
  <2>1. Binds(c, slots, {"input", "out"})
    BY <1>1, <1>3, SingleOutPlain
  <2> QED BY <1>1, <1>3, <2>1 DEF Bound
<1> HIDE DEF b, names
<1>4. ASSUME b.ok PROVE Open(b, {"input", "out"})
  BY <1>3, <1>4 DEF Open, Binds
<1>5. ASSUME b.ok, NoOverride(b, {"input", "out"}) PROVE TensorsOnly(b, {"input"})
  <2>1. {"input"} \cap {"tensors", "shape"} = {} /\ {"input"} \subseteq {"input", "out"}
    OBVIOUS
  <2>2. NoOverride(b, {"input"})
    BY <1>5, <2>1, FewerOverrides
  <2> QED BY <1>1, <1>5, <2>1, <2>2, SoleOperands DEF Fits, Has, parse_tensor_or_torch_function_argument
<1> QED BY <1>2, <1>3, <1>4, <1>5, FunctionEntry
        DEF unary_out_variable_function, dispatch_top_level_unary_out, OutRefused, Expects, b, names

LEMMA PowEntry ==
  ASSUME NEW c, Passes(c)
  PROVE  EntryOK(c, pow_variable_function(c))
<1> DEFINE params == <<Input, <<"exponent">>, <<"out">>>>
           w == ByWalk(c, params, 2, 2)
           b == bind_top_level_pow_arguments(c)
           names == <<"input", "exponent", "out">>
           none == Rejected
<1>1. Parameters(params) /\ Len(params) = 3 /\ Heads(params) = {"input", "exponent", "out"}
  BY Families, ParamsThree DEF Alias
<1>2. ASSUME b.ok PROVE w.ok /\ b = w
  BY <1>2 DEF bind_top_level_pow_arguments, Checked, Rejected
<1>3. names \in Seq(ToSet(names)) /\ ToSet(names) = {"input", "exponent", "out"}
  BY NamesThree DEF Alias, Distinct
<1>4. ~none.ok /\ none = Rejected
  BY DEF Rejected
<1> HIDE DEF params, w, b, names, none
<1>5. 2 \in Nat /\ 2 <= Len(params)
  BY <1>1
<1>6. ASSUME b.ok PROVE Binds(c, b.slots, {"input", "exponent", "out"})
  BY <1>1, <1>2, <1>5, <1>6, Walked DEF w
<1>7. ASSUME b.ok PROVE Open(b, {"input", "exponent", "out"})
  BY <1>6, <1>7 DEF Open, Binds
<1>8. EntryOK(c, Function(b, names, OutRefused(b, Power(b))))
  BY <1>3, <1>6, <1>7, FunctionEntry DEF OutRefused, Power
<1>9. EntryOK(c, Function(Rejected, <<>>, "value"))
  BY <1>4, EmptyNames, FunctionEntry
<1> QED BY <1>8, <1>9 DEF pow_variable_function, dispatch_top_level_pow, b, names

LEMMA MovedimEntry ==
  ASSUME NEW c, Passes(c)
  PROVE  EntryOK(c, dimension_move_variable_function(c))
<1> DEFINE params == <<Input, <<"source">>, <<"destination">>>>
           w == bind_movedim_call_arguments(c, params)
           b == bind_top_level_movedim_arguments(c)
           names == <<"input">>
<1>1. /\ Parameters(params) /\ Len(params) = 3 /\ Heads(params) = {"input", "source", "destination"}
      /\ params[2][1] = "source" /\ params[3][1] = "destination"
  BY Families, ParamsThree DEF Alias
<1>2. ASSUME b.ok
      PROVE  /\ w.ok /\ b = w /\ Fits(b, "input", parse_tensor_or_torch_function_argument)
             /\ movedim_argument_form(b.slots["source"], b.slots["destination"])
  BY <1>2 DEF bind_top_level_movedim_arguments, Checked, Rejected
<1>3. names \in Seq(ToSet(names)) /\ ToSet(names) = {"input"}
  BY NamesOne DEF Alias, Distinct
<1> HIDE DEF params, w, b, names
<1>4. ASSUME b.ok PROVE Binds(c, b.slots, {"input", "source", "destination"})
  BY <1>1, <1>2, <1>4, MovedimPlain DEF w
<1>5. ASSUME b.ok PROVE Open(b, {"input"})
  BY <1>2, <1>4, <1>5 DEF Open, Binds, movedim_argument_form, is_dimension_swap_integer, AnyInt,
     movedim_sequence_argument_matches_overload, FirstIsDimension, IsList, probe_torch_function_override
<1>6. ASSUME b.ok, NoOverride(b, {"input"}) PROVE TensorsOnly(b, {"input"})
  <2>1. {"input"} \cap {"tensors", "shape"} = {}
    OBVIOUS
  <2> QED BY <1>2, <1>6, <2>1, SoleOperands DEF Fits, Has, parse_tensor_or_torch_function_argument
<1> QED BY <1>3, <1>4, <1>5, <1>6, FunctionEntry
        DEF dimension_move_variable_function, dispatch_top_level_movedim, Expects, b, names

LEMMA MatmulEntry ==
  ASSUME NEW c, Passes(c)
  PROVE  EntryOK(c, matmul_variable_function(c)) /\ EntryOK(c, multiplication_variable_function(c))
<1> DEFINE params == <<Input, Other>>
           w == bind_legacy_binary_arguments(c)
           tensors == Checked(w, \A name \in DOMAIN w.slots : parse_tensor_or_torch_function_argument(w.slots[name]))
           factors == Checked(w, \A name \in DOMAIN w.slots : parse_top_level_multiplication_operand(w.slots[name]))
           names == <<"input", "other">>
<1>1. Parameters(params) /\ Len(params) = 2 /\ Heads(params) = {"input", "other"}
  BY Families, ParamsTwo
<1>2. ASSUME tensors.ok
      PROVE  w.ok /\ tensors = w /\ \A name \in DOMAIN w.slots : parse_tensor_or_torch_function_argument(w.slots[name])
  BY <1>2 DEF Checked, Rejected
<1>3. ASSUME factors.ok PROVE w.ok /\ factors = w
  BY <1>3 DEF Checked, Rejected
<1>4. names \in Seq(ToSet(names)) /\ ToSet(names) = {"input", "other"}
  BY NamesTwo DEF Alias, Distinct
<1>5. w = ByCount(c, params, 2, 2)
  BY DEF bind_legacy_binary_arguments
<1>6. matmul_variable_function(c) = dispatch_top_level_matmul(tensors)
  BY DEF matmul_variable_function
<1>7. multiplication_variable_function(c) = dispatch_top_level_multiplication(factors)
  BY DEF multiplication_variable_function
<1> HIDE DEF params, w, tensors, factors, names
<1>8. 2 \in Nat /\ 2 <= Len(params)
  BY <1>1
<1>9. ASSUME w.ok PROVE Binds(c, w.slots, {"input", "other"}) /\ Open(w, {"input", "other"})
  <2>1. Binds(c, w.slots, {"input", "other"})
    BY <1>1, <1>5, <1>8, <1>9, CountBinds
  <2> QED BY <2>1 DEF Open, Binds
<1>10. ASSUME tensors.ok, NoOverride(tensors, {"input", "other"}) PROVE TensorsOnly(tensors, {"input", "other"})
  <2>1. {"input", "other"} \cap {"tensors", "shape"} = {}
    OBVIOUS
  <2> QED BY <1>2, <1>10, <2>1, SoleOperands DEF Has, parse_tensor_or_torch_function_argument
<1>11. EntryOK(c, dispatch_top_level_matmul(tensors))
  BY <1>2, <1>4, <1>9, <1>10, FunctionEntry DEF dispatch_top_level_matmul, Expects, names
<1>12. EntryOK(c, dispatch_top_level_multiplication(factors))
  BY <1>3, <1>4, <1>9, FunctionEntry DEF dispatch_top_level_multiplication, Arithmetic, names
<1> QED BY <1>6, <1>7, <1>11, <1>12

LEMMA SubEntry ==
  ASSUME NEW c, Passes(c), NEW subtract
  PROVE  EntryOK(c, subtraction_variable_function(c, subtract))
<1> DEFINE few == <<<<"input">>, <<"other">>, <<"alpha">>>>
           many == <<Input, Other, <<"alpha">>, <<"out">>>>
           v == ByWalk(c, few, 3, 3)
           w == ByCount(c, many, 2, 2)
           b == bind_top_level_subtraction_arguments(c, subtract)
           names == <<"input", "other", "alpha", "out">>
           all == {"input", "other", "alpha", "out"}
<1>1. Parameters(few) /\ Len(few) = 3 /\ Heads(few) = {"input", "other", "alpha"}
  BY Families, ParamsThree DEF Alias
<1>2. Parameters(many) /\ Len(many) = 4 /\ Heads(many) = all
  BY Families, ParamsFour DEF Alias
<1>3. ASSUME b.ok PROVE (v.ok /\ b = v) \/ (w.ok /\ b = w)
  BY <1>3 DEF bind_top_level_subtraction_arguments, bind_top_level_subtract_positional_scalar_overload,
     Checked, Rejected
<1>4. names \in Seq(ToSet(names)) /\ ToSet(names) = all
  BY NamesFour DEF Alias, Distinct
<1> HIDE DEF few, many, v, w, b, names
<1>5. 3 \in Nat /\ 3 <= Len(few) /\ 2 \in Nat /\ 2 <= Len(many)
  BY <1>1, <1>2
<1>6. ASSUME v.ok PROVE Binds(c, v.slots, all)
  <2>1. Binds(c, v.slots, {"input", "other", "alpha"})
    BY <1>1, <1>5, <1>6, Walked DEF v
  <2> QED BY <2>1 DEF Binds
<1>7. ASSUME w.ok PROVE Binds(c, w.slots, all)
  BY <1>2, <1>5, <1>7, CountBinds DEF w
<1>8. ASSUME b.ok PROVE Binds(c, b.slots, all) /\ Open(b, all)
  BY <1>3, <1>6, <1>7, <1>8 DEF Open, Binds
<1>9. NoOverride(b, all) => NoOverride(b, {"input", "other"}) /\ NoOverride(b, {"alpha"})
  BY FewerOverrides
<1> QED BY <1>4, <1>8, <1>9, FunctionEntry
        DEF subtraction_variable_function, dispatch_top_level_subtraction, OutRefused, Alpha, Arithmetic, b, names

LEMMA DivEntry ==
  ASSUME NEW c, Passes(c)
  PROVE  EntryOK(c, division_variable_function(c))
<1> DEFINE params == <<Input, Other, <<"rounding_mode">>, <<"out">>>>
           b == bind_top_level_division_arguments(c)
           names == <<"input", "other", "rounding_mode", "out">>
           all == {"input", "other", "rounding_mode", "out"}
<1>1. ASSUME b.ok
      PROVE  /\ b = Bound(Slots(c, params)) /\ Fills(c, params, 2, 2)
             /\ ~bind_top_level_division_keyword_error(c, Cardinality(Filled(c, params)))
  BY <1>1 DEF bind_top_level_division_arguments, Checked, Rejected, Filled
<1>2. names \in Seq(ToSet(names)) /\ ToSet(names) = all
  BY NamesFour DEF Alias, Distinct
<1>3. ASSUME b.ok PROVE Binds(c, b.slots, all)
  <2>1. Binds(c, Slots(c, params), all)
    BY <1>1, <1>3, DivisionPlain
  <2> QED BY <1>1, <1>3, <2>1 DEF Bound
<1> HIDE DEF params, b, names
<1>4. ASSUME b.ok PROVE Open(b, all)
  BY <1>3, <1>4 DEF Open, Binds
<1>5. NoOverride(b, all) => NoOverride(b, {"input", "other"}) /\ NoOverride(b, {"rounding_mode"})
  BY FewerOverrides
<1> QED BY <1>2, <1>3, <1>4, <1>5, FunctionEntry
        DEF division_variable_function, dispatch_top_level_division, OutRefused, Rounding, Arithmetic, b, names

LEMMA CanCastEntry ==
  ASSUME NEW c, Passes(c), NEW names, Distinct(names)
  PROVE  EntryOK(c, dtype_binary_variable_function(c, names))
<1> DEFINE params == [i \in DOMAIN names |-> <<names[i]>>]
           w == ByWalk(c, params, Len(names), Len(names))
           b == bind_dtype_binary_arguments(c, names)
<1>1. Parameters(params) /\ Len(params) = Len(names) /\ Heads(params) = ToSet(names)
  <2>1. params = Options(names)
    BY DEF Options
  <2> HIDE DEF params
  <2> QED BY <2>1, OptionParams
<1>2. ASSUME b.ok PROVE w.ok /\ b = w
  BY <1>2 DEF bind_dtype_binary_arguments, Required, Checked, Rejected
<1>3. names \in Seq(ToSet(names)) /\ Len(names) \in Nat
  BY DEF Distinct
<1> HIDE DEF params, w, b
<1>4. ASSUME b.ok PROVE Binds(c, b.slots, ToSet(names))
  <2>1. Len(names) \in Nat /\ Len(names) <= Len(params)
    BY <1>1, <1>3
  <2> QED BY <1>1, <1>2, <1>4, <2>1, Walked DEF w
<1>5. ASSUME b.ok PROVE Open(b, ToSet(names))
  BY <1>4, <1>5 DEF Open, Binds
<1> QED BY <1>3, <1>4, <1>5, FunctionEntry DEF dtype_binary_variable_function, dispatch_dtype_binary, Expects, b

\* What is not given has no handler either.
LEMMA AbsentOverrides ==
  ASSUME NEW b, NEW names, NoOverride(b, names), NEW some, \A name \in some \ names : ~Has(b, name)
  PROVE  NoOverride(b, some)
<1>1. ASSUME NEW name \in some, name \notin names PROVE ToSet(Operands(b, name)) = {}
  BY <1>1, EmptyNames DEF Operands
<1> QED BY <1>1 DEF NoOverride

LEMMA UnbindMethod ==
  ASSUME NEW c, Passes(c)
  PROVE  EntryOK(c, tensor_unbind(c))
<1> DEFINE params == <<<<"dim">>>>
           w == ByWalk(c, params, 1, 0)
           b == bind_unbind_dimension(c)
           names == <<>>
<1>1. Parameters(params) /\ Len(params) = 1 /\ Heads(params) = {"dim"}
  BY Families, ParamsOne DEF Alias
<1>2. ASSUME b.ok
      PROVE  /\ w.ok /\ b = w
             /\ Fits(b, "dim", is_dimension_swap_integer)
  BY <1>2 DEF bind_unbind_dimension, Checked, Rejected
<1>3. names \in Seq(ToSet(names)) /\ ToSet(names) = {}
  BY EmptyNames
<1> HIDE DEF params, w, b, names
<1>4. 1 \in Nat /\ 1 <= Len(params) /\ 0 \in Nat /\ 0 <= Len(params)
  BY <1>1
<1>5. ASSUME b.ok
      PROVE  Binds(c, b.slots, {"dim"})
  <2>1. Binds(c, w.slots, Heads(params)) /\ \A i \in 1..0 : Has(w, params[i][1])
    BY <1>1, <1>2, <1>4, <1>5, Walked DEF w
  <2> QED BY <1>1, <1>2, <1>5, <2>1
<1>6. ASSUME b.ok PROVE Open(b, {})
  BY <1>2, <1>5, <1>6 DEF Open, Binds, Fits, is_dimension_swap_integer, AnyInt, probe_torch_function_override
<1> QED BY <1>2, <1>3, <1>5, <1>6, FunctionEntry DEF tensor_unbind, dispatch_tensorbase_method_mode, b, names

LEMMA SelectMethod ==
  ASSUME NEW c, Passes(c)
  PROVE  EntryOK(c, tensor_select(c))
<1> DEFINE params == <<<<"dim">>, <<"index">>>>
           w == ByWalk(c, params, 2, 2)
           b == bind_select_arguments(c)
           names == <<>>
<1>1. /\ Parameters(params) /\ Len(params) = 2 /\ Heads(params) = {"dim", "index"}
      /\ params[1][1] = "dim" /\ params[2][1] = "index"
  BY Families, ParamsTwo DEF Alias
<1>2. ASSUME b.ok
      PROVE  /\ w.ok /\ b = w
             /\ Fits(b, "dim", is_dimension_swap_integer) /\ Fits(b, "index", validate_select_index)
  BY <1>2 DEF bind_select_arguments, Checked, Rejected
<1>3. names \in Seq(ToSet(names)) /\ ToSet(names) = {}
  BY EmptyNames
<1> HIDE DEF params, w, b, names
<1>4. 2 \in Nat /\ 2 <= Len(params) /\ 2 \in Nat /\ 2 <= Len(params)
  BY <1>1
<1>5. ASSUME b.ok
      PROVE  Binds(c, b.slots, {"dim", "index"}) /\ Has(b, "dim") /\ Has(b, "index")
  <2>1. Binds(c, w.slots, Heads(params)) /\ \A i \in 1..2 : Has(w, params[i][1])
    BY <1>1, <1>2, <1>4, <1>5, Walked DEF w
  <2>2. 1 \in 1..2 /\ 2 \in 1..2
    OBVIOUS
  <2> QED BY <1>1, <1>2, <1>5, <2>1, <2>2
<1>6. ASSUME b.ok PROVE Open(b, {})
  BY <1>2, <1>5, <1>6 DEF Open, Binds, Fits, is_dimension_swap_integer, validate_select_index, probe_select_index, AnyInt, probe_torch_function_override
<1> QED BY <1>2, <1>3, <1>5, <1>6, FunctionEntry DEF tensor_select, dispatch_tensorbase_method_mode, b, names

LEMMA NarrowMethod ==
  ASSUME NEW c, Passes(c)
  PROVE  EntryOK(c, tensor_narrow(c))
<1> DEFINE params == <<<<"dim">>, <<"start">>, <<"length">>>>
           w == ByWalk(c, params, 3, 3)
           b == bind_narrow_arguments(c)
           names == <<"dim", "start", "length">>
<1>1. /\ Parameters(params) /\ Len(params) = 3 /\ Heads(params) = {"dim", "start", "length"}
      /\ params[1][1] = "dim" /\ params[2][1] = "start" /\ params[3][1] = "length"
  BY Families, ParamsThree DEF Alias
<1>2. ASSUME b.ok
      PROVE  /\ w.ok /\ b = w
  BY <1>2 DEF bind_narrow_arguments, Checked, Rejected
<1>3. names \in Seq(ToSet(names)) /\ ToSet(names) = {"dim", "start", "length"}
  BY NamesThree DEF Alias, Distinct
<1> HIDE DEF params, w, b, names
<1>4. 3 \in Nat /\ 3 <= Len(params) /\ 3 \in Nat /\ 3 <= Len(params)
  BY <1>1
<1>5. ASSUME b.ok
      PROVE  Binds(c, b.slots, {"dim", "start", "length"}) /\ Has(b, "dim") /\ Has(b, "start") /\ Has(b, "length")
  <2>1. Binds(c, w.slots, Heads(params)) /\ \A i \in 1..3 : Has(w, params[i][1])
    BY <1>1, <1>2, <1>4, <1>5, Walked DEF w
  <2>2. 1 \in 1..3 /\ 2 \in 1..3 /\ 3 \in 1..3
    OBVIOUS
  <2> QED BY <1>1, <1>2, <1>5, <2>1, <2>2
<1>6. ASSUME b.ok PROVE Open(b, {"dim", "start", "length"})
  BY <1>2, <1>5, <1>6 DEF Open, Binds, Fits, probe_torch_function_override
<1> QED BY <1>2, <1>3, <1>5, <1>6, FunctionEntry DEF tensor_narrow, dispatch_narrow_method, Expects, NarrowStart, b, names

LEMMA ChunkMethod ==
  ASSUME NEW c, Passes(c)
  PROVE  EntryOK(c, tensor_chunk(c))
<1> DEFINE params == <<<<"chunks">>, <<"dim">>>>
           w == ByCount(c, params, 2, 1)
           b == bind_chunk_arguments(c)
           names == <<"chunks", "dim">>
<1>1. /\ Parameters(params) /\ Len(params) = 2 /\ Heads(params) = {"chunks", "dim"}
      /\ params[1][1] = "chunks"
  BY Families, ParamsTwo DEF Alias
<1>2. ASSUME b.ok
      PROVE  /\ w.ok /\ b = w
  BY <1>2 DEF bind_chunk_arguments, Checked, Rejected
<1>3. names \in Seq(ToSet(names)) /\ ToSet(names) = {"chunks", "dim"}
  BY NamesTwo DEF Alias, Distinct
<1> HIDE DEF params, w, b, names
<1>4. 2 \in Nat /\ 2 <= Len(params) /\ 1 \in Nat /\ 1 <= Len(params)
  BY <1>1
<1>5. ASSUME b.ok
      PROVE  Binds(c, b.slots, {"chunks", "dim"}) /\ Has(b, "chunks")
  <2>1. Binds(c, w.slots, Heads(params)) /\ \A i \in 1..1 : Has(w, params[i][1])
    BY <1>1, <1>2, <1>4, <1>5, CountBinds DEF w
  <2>2. 1 \in 1..1
    OBVIOUS
  <2> QED BY <1>1, <1>2, <1>5, <2>1, <2>2
<1>6. ASSUME b.ok PROVE Open(b, {"chunks", "dim"})
  BY <1>2, <1>5, <1>6 DEF Open, Binds, Fits, probe_torch_function_override
<1> QED BY <1>2, <1>3, <1>5, <1>6, FunctionEntry DEF tensor_chunk, dispatch_chunk_method, Expects, b, names

LEMMA SizeMethod ==
  ASSUME NEW c, Passes(c)
  PROVE  EntryOK(c, tensor_size(c))
<1> DEFINE params == <<<<"dim">>>>
           w == ByCount(c, params, 1, 0)
           b == bind_size_dimension(c)
           names == <<>>
<1>1. Parameters(params) /\ Len(params) = 1 /\ Heads(params) = {"dim"}
  BY Families, ParamsOne DEF Alias
<1>2. ASSUME b.ok
      PROVE  /\ w.ok /\ b = w
             /\ Fits(b, "dim", validate_size_dimension)
  BY <1>2 DEF bind_size_dimension, Checked, Rejected
<1>3. names \in Seq(ToSet(names)) /\ ToSet(names) = {}
  BY EmptyNames
<1> HIDE DEF params, w, b, names
<1>4. 1 \in Nat /\ 1 <= Len(params) /\ 0 \in Nat /\ 0 <= Len(params)
  BY <1>1
<1>5. ASSUME b.ok
      PROVE  Binds(c, b.slots, {"dim"})
  <2>1. Binds(c, w.slots, Heads(params)) /\ \A i \in 1..0 : Has(w, params[i][1])
    BY <1>1, <1>2, <1>4, <1>5, CountBinds DEF w
  <2> QED BY <1>1, <1>2, <1>5, <2>1
<1>6. ASSUME b.ok PROVE Open(b, {})
  BY <1>2, <1>5, <1>6 DEF Open, Binds, Fits, validate_size_dimension, is_dimension_swap_integer, AnyInt, probe_torch_function_override
<1> QED BY <1>2, <1>3, <1>5, <1>6, FunctionEntry DEF tensor_size, dispatch_tensorbase_method_mode, b, names

LEMMA PowMethod ==
  ASSUME NEW c, Passes(c)
  PROVE  EntryOK(c, tensor_pow(c))
<1> DEFINE params == <<<<"exponent">>>>
           w == ByWalk(c, params, 1, 1)
           b == bind_tensor_pow_arguments(c)
           names == <<"exponent">>
<1>1. /\ Parameters(params) /\ Len(params) = 1 /\ Heads(params) = {"exponent"}
      /\ params[1][1] = "exponent"
  BY Families, ParamsOne DEF Alias
<1>2. ASSUME b.ok
      PROVE  /\ w.ok /\ b = w
  BY <1>2 DEF bind_tensor_pow_arguments, Checked, Rejected
<1>3. names \in Seq(ToSet(names)) /\ ToSet(names) = {"exponent"}
  BY NamesOne DEF Alias, Distinct
<1> HIDE DEF params, w, b, names
<1>4. 1 \in Nat /\ 1 <= Len(params) /\ 1 \in Nat /\ 1 <= Len(params)
  BY <1>1
<1>5. ASSUME b.ok
      PROVE  Binds(c, b.slots, {"exponent"}) /\ Has(b, "exponent")
  <2>1. Binds(c, w.slots, Heads(params)) /\ \A i \in 1..1 : Has(w, params[i][1])
    BY <1>1, <1>2, <1>4, <1>5, Walked DEF w
  <2>2. 1 \in 1..1
    OBVIOUS
  <2> QED BY <1>1, <1>2, <1>5, <2>1, <2>2
<1>6. ASSUME b.ok PROVE Open(b, {"exponent"})
  BY <1>2, <1>5, <1>6 DEF Open, Binds, Fits, probe_torch_function_override
<1> QED BY <1>2, <1>3, <1>5, <1>6, FunctionEntry DEF tensor_pow, dispatch_tensor_pow_method, Power, b, names

LEMMA DivMethod ==
  ASSUME NEW c, Passes(c)
  PROVE  EntryOK(c, tensor_division_method(c))
<1> DEFINE params == <<Other, <<"rounding_mode">>>>
           w == ByWalk(c, params, 1, 1)
           b == bind_tensor_division_method_arguments(c)
           names == <<"other", "rounding_mode">>
<1>1. /\ Parameters(params) /\ Len(params) = 2 /\ Heads(params) = {"other", "rounding_mode"}
      /\ params[1][1] = "other"
  BY Families, ParamsTwo DEF Alias
<1>2. ASSUME b.ok
      PROVE  /\ w.ok /\ b = w
  BY <1>2 DEF bind_tensor_division_method_arguments, Checked, Rejected
<1>3. names \in Seq(ToSet(names)) /\ ToSet(names) = {"other", "rounding_mode"}
  BY NamesTwo DEF Alias, Distinct
<1> HIDE DEF params, w, b, names
<1>4. 1 \in Nat /\ 1 <= Len(params) /\ 1 \in Nat /\ 1 <= Len(params)
  BY <1>1
<1>5. ASSUME b.ok
      PROVE  Binds(c, b.slots, {"other", "rounding_mode"}) /\ Has(b, "other")
  <2>1. Binds(c, w.slots, Heads(params)) /\ \A i \in 1..1 : Has(w, params[i][1])
    BY <1>1, <1>2, <1>4, <1>5, Walked DEF w
  <2>2. 1 \in 1..1
    OBVIOUS
  <2> QED BY <1>1, <1>2, <1>5, <2>1, <2>2
<1>6. ASSUME b.ok PROVE Open(b, {"other", "rounding_mode"})
  BY <1>2, <1>5, <1>6 DEF Open, Binds, Fits, probe_torch_function_override
<1>7. NoOverride(b, {"other", "rounding_mode"}) => NoOverride(b, {"rounding_mode"})
  <2>1. {"rounding_mode"} \subseteq {"other", "rounding_mode"}
    OBVIOUS
  <2> QED BY <2>1, FewerOverrides
<1>8. ASSUME b.ok, NoOverride(b, {"other", "rounding_mode"}) PROVE NoOverride(b, {"input", "other"})
  BY <1>5, <1>8, AbsentOverrides DEF Binds, Has
<1> QED BY <1>2, <1>3, <1>5, <1>6, <1>7, <1>8, FunctionEntry DEF tensor_division_method, dispatch_tensor_division_method, Rounding, Arithmetic, b, names

LEMMA MovedimMethod ==
  ASSUME NEW c, Passes(c)
  PROVE  EntryOK(c, dimension_move_tensor_method(c))
<1> DEFINE params == <<<<"source">>, <<"destination">>>>
           w == bind_movedim_call_arguments(c, params)
           b == bind_movedim_arguments(c)
<1>1. Parameters(params) /\ Len(params) = 2 /\ Heads(params) = {"source", "destination"}
  BY Families, ParamsTwo DEF Alias
<1>2. ASSUME b.ok
      PROVE  w.ok /\ b = w /\ movedim_argument_form(b.slots["source"], b.slots["destination"])
  BY <1>2 DEF bind_movedim_arguments, Checked, Rejected
<1> HIDE DEF params, w, b
<1>3. ASSUME b.ok PROVE Binds(c, b.slots, {"source", "destination"})
  BY <1>1, <1>2, <1>3, MovedimPlain DEF w
<1>4. ASSUME b.ok PROVE Open(b, {})
  BY <1>2, <1>3, <1>4 DEF Open, Binds, movedim_argument_form, is_dimension_swap_integer, AnyInt,
     movedim_sequence_argument_matches_overload, FirstIsDimension, IsList, probe_torch_function_override
<1> QED BY <1>3, <1>4, EmptyNames, FunctionEntry DEF dimension_move_tensor_method, dispatch_tensorbase_method_mode, b

LEMMA VariadicFacts ==
  ASSUME NEW c, Passes(c), DOMAIN c.keywords = {}, NEW name, name \notin {"slot", "tensors", "shape"},
         NEW b, b = Bound(With(Rejected.slots, name, AllPositional(c)))
  PROVE  Binds(c, b.slots, {name}) /\ Open(b, {})
<1>1. Variadic(c, name, TRUE) = b /\ b.ok
  BY DEF Variadic, Bound
<1>2. Binds(c, b.slots, {name})
  BY <1>1, VariadicBinds
<1>3. DOMAIN b.slots = {name} /\ b.slots[name] = AllPositional(c)
  BY DEF Bound, With, Rejected
<1> QED BY <1>2, <1>3 DEF Open, AllPositional, probe_torch_function_override

\* Where the first argument is bound alone.
LEMMA AloneFacts ==
  ASSUME NEW d, NEW v, d.positional = <<v>>, DOMAIN d.keywords = {}, Argument(v), IsList(v),
         NEW b, b = Bound(With(Rejected.slots, "size", v))
  PROVE  Passes(d) /\ Binds(d, b.slots, {"size"}) /\ Open(b, {})
<1>1. DOMAIN d.positional = {1} /\ d.positional[1] = v
  OBVIOUS
<1>2. Passes(d)
  <2>1. ToSet(<<v>>) = {v} /\ <<v>> \in Seq({v})
    BY DEF ToSet
  <2>2. IsFiniteSet(DOMAIN d.keywords)
    BY FS_EmptySet
  <2> QED BY <1>1, <2>1, <2>2 DEF Passes
<1>3. DOMAIN b.slots = {"size"} /\ b.slots["size"] = v
  BY DEF Bound, With, Rejected
<1>4. ASSUME NEW u
      PROVE  Cardinality(Places(b.slots, u)) = Cardinality(Positions(d, u)) + Cardinality(Keywords(d, u))
  <2>1. Keywords(d, u) = {} /\ Cardinality({}) = 0
    BY FS_EmptySet DEF Keywords
  <2>2. CASE u = v
    <3>1. Places(b.slots, u) = {"size"} /\ Positions(d, u) = {1}
      BY <1>1, <1>3, <2>2 DEF Places, PlacesIn, Positions
    <3>2. Cardinality({"size"}) = 1 /\ Cardinality({1}) = 1
      BY FS_Singleton
    <3> QED BY <2>1, <3>1, <3>2
  <2>3. CASE u # v
    <3>1. Places(b.slots, u) = {} /\ Positions(d, u) = {}
      BY <1>1, <1>3, <2>3 DEF Places, PlacesIn, Positions
    <3> QED BY <2>1, <3>1
  <2> QED BY <2>2, <2>3
<1>5. IsFiniteSet(DOMAIN b.slots)
  BY <1>3, FS_Singleton
<1>6. Plain(d, b.slots, {"size"})
  BY <1>3, <1>4, <1>5 DEF Plain
<1>7. Binds(d, b.slots, {"size"})
  BY <1>2, <1>6, PlainHeld
<1>8. Open(b, {})
  BY <1>3 DEF Open, IsList, probe_torch_function_override
<1> QED BY <1>2, <1>7, <1>8

\* Of the arguments those that count are bound.
LEMMA ViewMethod ==
  ASSUME NEW given, given.of = "method", given.name = "view", Passes(given.arguments)
  PROVE  EntryOK(Counted(given), tensor_view(given.arguments))
<1> DEFINE c == given.arguments
           d == Counted(given)
           first == c.positional[1]
           sizes == <<<<"size">>>>
           dtypes == <<<<"dtype">>>>
           size == ByWalk(c, sizes, 0, 1)
           dtype == ByWalk(c, dtypes, 0, 1)
           many == Bound(With(Rejected.slots, "size", AllPositional(c)))
           alone == Bound(With(Rejected.slots, "size", first))
           b == bind_view_argument(c)
           all == {"size", "dtype"}
<1>1. Parameters(sizes) /\ Len(sizes) = 1 /\ Heads(sizes) = {"size"}
  BY Families, ParamsOne DEF Alias
<1>2. Parameters(dtypes) /\ Len(dtypes) = 1 /\ Heads(dtypes) = {"dtype"}
  BY Families, ParamsOne DEF Alias
<1>3. Passes(c)
  OBVIOUS
<1>4. ShapeAlone(given) <=>
        Len(c.positional) > 1 /\ validate_view_shape_first(first) /\ is_view_shape_dimension(first)
  BY DEF ShapeAlone
<1>5. /\ ~ShapeAlone(given) => d = c
      /\ ShapeAlone(given) => d.positional = <<first>> /\ d.keywords = c.keywords
  BY DEF Counted
<1> HIDE DEF c, d
<1>6. ASSUME b.ok
      PROVE  \/ /\ ~ShapeAlone(given)
                /\ \/ dtype.ok /\ b = dtype /\ ("dtype" \in DOMAIN b.slots => b.slots["dtype"].kind = "dtype")
                   \/ size.ok /\ b = size /\ Fits(b, "size", validate_view_shape_first)
                   \/ b = many /\ DOMAIN c.keywords = {}
             \/ ShapeAlone(given) /\ b = alone /\ DOMAIN c.keywords = {}
  <2> DEFINE n == Len(c.positional)
  <2>1. n \in Nat /\ (c.positional = <<>> <=> n = 0)
    BY <1>3 DEF Passes
  <2>2. /\ c.positional = <<>> => ~(n > 1)
        /\ n = 1 => c.positional # <<>> /\ ~(n > 1)
        /\ n > 1 => c.positional # <<>> /\ n # 1
        /\ c.positional = <<>> \/ n = 1 \/ n > 1
    <3> HIDE DEF n
    <3> QED BY <2>1
  <2>3. CASE c.positional = <<>> /\ "dtype" \in DOMAIN c.keywords
    <3>1. b = Checked(dtype, Fits(dtype, "dtype", LAMBDA v : v.kind = "dtype"))
      BY <2>3 DEF bind_view_argument
    <3> QED BY <1>4, <1>6, <2>2, <2>3, <3>1 DEF Checked, Fits, Rejected
  <2>4. CASE c.positional = <<>> /\ "dtype" \notin DOMAIN c.keywords
    <3>1. b = Checked(size, Fits(size, "size", validate_view_shape_first))
      BY <2>4 DEF bind_view_argument
    <3> QED BY <1>4, <1>6, <2>2, <2>4, <3>1 DEF Checked, Rejected
  <2>5. CASE n = 1
    <3>1. c.positional # <<>> /\ Len(c.positional) = 1 /\ ~(n > 1)
      BY <2>2, <2>5
    <3>2. b = Variadic(c, "size", IF IsList(first) THEN validate_view_shape_first(first)
                                  ELSE is_view_shape_dimension(first) \/ first.kind = "dtype")
      BY <3>1 DEF bind_view_argument
    <3>3. b = many /\ DOMAIN c.keywords = {}
      BY <1>6, <3>2 DEF Variadic, Rejected
    <3> QED BY <1>4, <3>1, <3>3
  <2>6. CASE n > 1 /\ validate_view_shape_first(first)
    <3>1. c.positional # <<>> /\ Len(c.positional) # 1
      BY <2>2, <2>6
    <3>2. b = FirstAlone(c, "size", is_view_shape_dimension(first))
      BY <2>6, <3>1 DEF bind_view_argument
    <3>3. b = alone /\ DOMAIN c.keywords = {} /\ is_view_shape_dimension(first)
      BY <1>6, <3>2 DEF FirstAlone, Rejected
    <3> QED BY <1>4, <2>6, <3>3
  <2>7. CASE n > 1 /\ ~validate_view_shape_first(first)
    <3>1. c.positional # <<>> /\ Len(c.positional) # 1
      BY <2>2, <2>7
    <3>2. b = Variadic(c, "size", is_view_shape_dimension(first))
      BY <2>7, <3>1 DEF bind_view_argument
    <3>3. b = many /\ DOMAIN c.keywords = {}
      BY <1>6, <3>2 DEF Variadic, Rejected
    <3> QED BY <1>4, <2>7, <3>3
  <2> HIDE DEF n, b, many, alone, size, dtype, first
  <2> QED BY <2>2, <2>3, <2>4, <2>5, <2>6, <2>7
<1> HIDE DEF sizes, dtypes, size, dtype, many, b
<1>7. ASSUME size.ok PROVE Binds(c, size.slots, {"size"})
  <2>1. 0 \in Nat /\ 0 <= Len(sizes) /\ 1 \in Nat /\ 1 <= Len(sizes)
    BY <1>1
  <2> QED BY <1>1, <1>3, <1>7, <2>1, Walked DEF size
<1>8. ASSUME dtype.ok PROVE Binds(c, dtype.slots, {"dtype"})
  <2>1. 0 \in Nat /\ 0 <= Len(dtypes) /\ 1 \in Nat /\ 1 <= Len(dtypes)
    BY <1>2
  <2> QED BY <1>2, <1>3, <1>8, <2>1, Walked DEF dtype
<1>9. ASSUME b = many, DOMAIN c.keywords = {} PROVE Binds(c, b.slots, {"size"}) /\ Open(b, {})
  BY <1>3, <1>9, VariadicFacts DEF many
<1>10. ASSUME ShapeAlone(given), DOMAIN c.keywords = {}
       PROVE  Passes(d) /\ Binds(d, alone.slots, {"size"}) /\ Open(alone, {})
  <2>1. Argument(first) /\ IsList(first)
    <3>1. 1 \in DOMAIN c.positional
      BY <1>3, <1>4, <1>10 DEF Passes
    <3> QED BY <1>3, <1>4, <1>10, <3>1 DEF Passes, validate_view_shape_first, FirstIsDimension
  <2>2. d.positional = <<first>> /\ DOMAIN d.keywords = {}
    BY <1>5, <1>10
  <2> HIDE DEF first
  <2> QED BY <2>1, <2>2, AloneFacts
<1> HIDE DEF alone
<1>11. ASSUME b.ok PROVE Passes(d) /\ Binds(d, b.slots, all) /\ Open(b, {})
  <2>1. CASE ShapeAlone(given)
    BY <1>6, <1>10, <1>11, <2>1 DEF Binds
  <2>2. CASE ~ShapeAlone(given)
    <3>1. Binds(c, b.slots, all) /\ Open(b, {})
      BY <1>6, <1>7, <1>8, <1>9, <1>11, <2>2
         DEF Open, Binds, Fits, validate_view_shape_first, FirstIsDimension, IsList, probe_torch_function_override
    <3> QED BY <1>3, <1>5, <2>2, <3>1
  <2> QED BY <2>1, <2>2
<1>12. tensor_view(c) = Function(b, <<>>, "value")
  BY DEF tensor_view, dispatch_tensorbase_method_mode, b
<1>13. CASE b.ok
  BY <1>11, <1>12, <1>13, EmptyNames, FunctionEntry DEF c, d
<1>14. CASE ~b.ok
  BY <1>12, <1>14 DEF EntryOK, AllForms, Function, Call, c
<1> QED BY <1>13, <1>14

LEMMA PermuteMethod ==
  ASSUME NEW c, Passes(c)
  PROVE  EntryOK(c, tensor_permute(c))
<1> DEFINE params == <<<<"dims">>>>
           dims == ByWalk(c, params, 0, 1)
           many == Bound(With(Rejected.slots, "dims", AllPositional(c)))
           b == bind_permute_dimensions(c)
<1>1. Parameters(params) /\ Len(params) = 1 /\ Heads(params) = {"dims"}
  BY Families, ParamsOne DEF Alias
<1>2. ASSUME b.ok PROVE (dims.ok /\ b = dims) \/ (b = many /\ DOMAIN c.keywords = {})
  <2>1. CASE c.positional = <<>>
    BY <1>2, <2>1 DEF bind_permute_dimensions, Checked, Rejected
  <2>2. CASE c.positional # <<>>
    BY <1>2, <2>2 DEF bind_permute_dimensions, Variadic, Rejected
  <2> QED BY <2>1, <2>2
<1> HIDE DEF params, dims, many, b
<1>3. ASSUME dims.ok PROVE Binds(c, dims.slots, {"dims"})
  <2>1. 0 \in Nat /\ 0 <= Len(params) /\ 1 \in Nat /\ 1 <= Len(params)
    BY <1>1
  <2> QED BY <1>1, <1>3, <2>1, Walked DEF dims
<1>4. ASSUME b = many, DOMAIN c.keywords = {} PROVE Binds(c, b.slots, {"dims"})
  BY <1>4, VariadicFacts DEF many
<1> QED BY <1>2, <1>3, <1>4, NativeEntry DEF tensor_permute, b

LEMMA SqueezeMethod ==
  ASSUME NEW c, Passes(c)
  PROVE  EntryOK(c, tensor_squeeze(c))
<1> DEFINE params == <<<<"dim", "axis">>>>
           keyword == ByWalk(c, params, 0, 0)
           many == Bound(With(Rejected.slots, "dim", AllPositional(c)))
           b == bind_method_squeeze_arguments(c)
<1>1. Parameters(params) /\ Len(params) = 1 /\ Heads(params) = {"dim"}
  BY Families, ParamsOne
<1>2. ASSUME b.ok PROVE (keyword.ok /\ b = keyword) \/ (b = many /\ DOMAIN c.keywords = {})
  <2>1. CASE DOMAIN c.keywords # {}
    <3>1. b = Checked(keyword, Fits(keyword, "dim", LAMBDA v : parse_squeeze_argument(v, FALSE)))
      BY <2>1 DEF bind_method_squeeze_arguments
    <3> QED BY <1>2, <3>1 DEF Checked, Rejected
  <2>2. CASE DOMAIN c.keywords = {}
    BY <1>2, <2>2 DEF bind_method_squeeze_arguments, Variadic, Rejected
  <2> QED BY <2>1, <2>2
<1> HIDE DEF params, keyword, many, b
<1>3. ASSUME keyword.ok PROVE Binds(c, keyword.slots, {"dim"})
  <2>1. 0 \in Nat /\ 0 <= Len(params)
    BY <1>1
  <2> QED BY <1>1, <1>3, <2>1, Walked DEF keyword
<1>4. ASSUME b = many, DOMAIN c.keywords = {} PROVE Binds(c, b.slots, {"dim"})
  BY <1>4, VariadicFacts DEF many
<1> QED BY <1>2, <1>3, <1>4, NativeEntry DEF tensor_squeeze, b

\* One operand, under its own name.
LEMMA OtherBinds ==
  ASSUME NEW c, Passes(c), NEW b, b = bind_tensor_arguments(c, <<"other">>), b.ok
  PROVE  Binds(c, b.slots, {"other"})
<1> DEFINE names == <<"other">>
           params == [i \in DOMAIN names |-> <<names[i]>>]
<1>1. Distinct(names) /\ ToSet(names) = {"other"} /\ Len(names) = 1
  BY NamesOne DEF Alias
<1>2. b = ByWalk(c, params, Len(names), Len(names))
  BY DEF bind_tensor_arguments, Required
<1>3. params = Options(names)
  BY DEF Options
<1> HIDE DEF names, params
<1>4. Parameters(params) /\ Len(params) = 1 /\ Heads(params) = {"other"}
  BY <1>1, <1>3, OptionParams
<1>5. Len(names) \in Nat /\ Len(names) <= Len(params)
  BY <1>1, <1>4
<1> QED BY <1>2, <1>4, <1>5, Walked

LEMMA ReshapeAsMethod ==
  ASSUME NEW c, Passes(c)
  PROVE  EntryOK(c, tensor_reshape_as(c))
<1> DEFINE w == bind_tensor_arguments(c, <<"other">>)
           b == Checked(w, Fits(w, "other", IsTensor))
<1>1. b.ok => w.ok /\ b = w
  BY DEF Checked, Rejected
<1>2. tensor_reshape_as(c) = Native(b)
  BY DEF tensor_reshape_as
<1> HIDE DEF w, b
<1>3. w.ok => Binds(c, w.slots, {"other"})
  BY OtherBinds DEF w
<1> QED BY <1>1, <1>2, <1>3, NativeEntry

LEMMA ViewAsMethod ==
  ASSUME NEW c, Passes(c)
  PROVE  EntryOK(c, tensor_view_as(c))
<1> DEFINE w == bind_tensor_arguments(c, <<"other">>)
           b == Checked(w, Fits(w, "other", parse_tensor_or_torch_function_argument))
           names == <<"other">>
<1>1. ASSUME b.ok PROVE w.ok /\ b = w /\ Fits(b, "other", parse_tensor_or_torch_function_argument)
  BY <1>1 DEF Checked, Rejected
<1>2. tensor_view_as(c) = dispatch_view_as(b)
  BY DEF tensor_view_as
<1>3. names \in Seq(ToSet(names)) /\ ToSet(names) = {"other"}
  BY NamesOne DEF Alias, Distinct
<1> HIDE DEF w, b, names
<1>4. ASSUME b.ok PROVE Binds(c, b.slots, {"other"}) /\ Open(b, {"other"})
  <2>1. Binds(c, b.slots, {"other"})
    BY <1>1, <1>4, OtherBinds DEF w
  <2> QED BY <2>1 DEF Open, Binds
<1>5. ASSUME b.ok, NoOverride(b, {"other"}) PROVE TensorsOnly(b, {"other"})
  <2>1. {"other"} \cap {"tensors", "shape"} = {}
    OBVIOUS
  <2> QED BY <1>1, <1>5, <2>1, SoleOperands DEF Fits, Has, parse_tensor_or_torch_function_argument
<1> QED BY <1>2, <1>3, <1>4, <1>5, FunctionEntry DEF dispatch_view_as, Expects, names

LEMMA FallbackBinds ==
  ASSUME NEW c, Passes(c), NEW b, b = bind_other_argument_with_x2_fallback(c), b.ok
  PROVE  Binds(c, b.slots, {"other"})
<1> DEFINE both == <<Other>>
           sole == <<<<"other">>>>
<1>1. Parameters(both) /\ Len(both) = 1 /\ Heads(both) = {"other"}
  BY Families, ParamsOne
<1>2. Parameters(sole) /\ Len(sole) = 1 /\ Heads(sole) = {"other"}
  BY Families, ParamsOne DEF Alias
<1>3. b = ByWalk(c, both, 0, 1) \/ b = ByWalk(c, sole, 1, 1)
  BY DEF bind_other_argument_with_x2_fallback
<1> HIDE DEF both, sole
<1>4. 0 \in Nat /\ 0 <= Len(both) /\ 1 \in Nat /\ 1 <= Len(both) /\ 1 <= Len(sole)
  BY <1>1, <1>2
<1> QED BY <1>1, <1>2, <1>3, <1>4, Walked

LEMMA MatmulMethod ==
  ASSUME NEW c, Passes(c)
  PROVE  EntryOK(c, tensor_matmul(c))
<1> DEFINE w == bind_other_argument_with_x2_fallback(c)
           b == bind_matmul_argument(c)
           names == <<"other">>
<1>1. ASSUME b.ok PROVE w.ok /\ b = w /\ Fits(b, "other", parse_tensor_or_torch_function_argument)
  BY <1>1 DEF bind_matmul_argument, Checked, Rejected
<1>2. names \in Seq(ToSet(names)) /\ ToSet(names) = {"other"}
  BY NamesOne DEF Alias, Distinct
<1> HIDE DEF w, b, names
<1>3. ASSUME b.ok PROVE Binds(c, b.slots, {"other"}) /\ Open(b, {"other"})
  <2>1. Binds(c, b.slots, {"other"})
    BY <1>1, <1>3, FallbackBinds DEF w
  <2> QED BY <2>1 DEF Open, Binds
<1>4. ASSUME b.ok, NoOverride(b, {"other"}) PROVE TensorsOnly(b, {"other"})
  <2>1. {"other"} \cap {"tensors", "shape"} = {}
    OBVIOUS
  <2> QED BY <1>1, <1>4, <2>1, SoleOperands DEF Fits, Has, parse_tensor_or_torch_function_argument
<1> QED BY <1>2, <1>3, <1>4, FunctionEntry DEF tensor_matmul, dispatch_matmul, Expects, b, names

LEMMA MulMethod ==
  ASSUME NEW c, Passes(c)
  PROVE  EntryOK(c, multiplication_method(c))
<1> DEFINE w == bind_other_argument_with_x2_fallback(c)
           b == bind_multiplication_argument(c)
<1>1. b.ok => w.ok /\ b = w
  <2>1. b = Checked(w, Fits(w, "other", LAMBDA v : IsTensor(v) \/ is_real_arithmetic_scalar(v)))
    BY DEF bind_multiplication_argument
  <2> QED BY <2>1 DEF Checked, Rejected
<1> HIDE DEF w, b
<1>2. w.ok => Binds(c, w.slots, {"other"})
  BY FallbackBinds DEF w
<1> QED BY <1>1, <1>2, NativeEntry DEF multiplication_method, b

\* An operand and its factor, in the order in which they were given.
LEMMA AddSubEntry ==
  ASSUME NEW c, Passes(c), NEW b, b.ok => Binds(c, b.slots, {"other", "alpha"})
  PROVE  EntryOK(c, dispatch_tensor_add_sub_method(c, b))
<1> DEFINE names == IF b.ok /\ tensor_add_sub_method_alpha_precedes_other(c, b)
                    THEN <<"alpha", "other">> ELSE <<"other", "alpha">>
           all == {"other", "alpha"}
<1>1. names \in Seq(ToSet(names)) /\ ToSet(names) = all
  <2>1. <<"alpha", "other">> \in Seq(ToSet(<<"alpha", "other">>)) /\ ToSet(<<"alpha", "other">>) = all
    BY NamesTwo DEF Alias, Distinct
  <2>2. <<"other", "alpha">> \in Seq(ToSet(<<"other", "alpha">>)) /\ ToSet(<<"other", "alpha">>) = all
    BY NamesTwo DEF Alias, Distinct
  <2> QED BY <2>1, <2>2
<1>2. dispatch_tensor_add_sub_method(c, b) = Function(b, names, Alpha(b, Arithmetic(b)))
  BY DEF dispatch_tensor_add_sub_method
<1> HIDE DEF names
<1>3. ASSUME b.ok PROVE Open(b, all)
  BY <1>3 DEF Open, Binds
<1>4. NoOverride(b, all) => NoOverride(b, {"alpha"})
  BY FewerOverrides
<1>5. ASSUME b.ok, NoOverride(b, all) PROVE NoOverride(b, {"input", "other"})
  BY <1>5, AbsentOverrides DEF Binds, Has
<1> QED BY <1>1, <1>2, <1>3, <1>4, <1>5, FunctionEntry DEF Alpha, Arithmetic

LEMMA AddSubBinds ==
  ASSUME NEW c, Passes(c), NEW limit \in {1, 2}, NEW required \in {1, 2}, NEW b, b.ok,
         b = ByWalk(c, OtherFirst, limit, required) \/ b = ByWalk(c, AlphaFirst, limit, required)
  PROVE  Binds(c, b.slots, {"other", "alpha"})
<1>1. Parameters(OtherFirst) /\ Len(OtherFirst) = 2 /\ Heads(OtherFirst) = {"other", "alpha"}
  BY Families, ParamsTwo DEF Alias, OtherFirst
<1>2. Parameters(AlphaFirst) /\ Len(AlphaFirst) = 2 /\ Heads(AlphaFirst) = {"other", "alpha"}
  BY Families, ParamsTwo DEF Alias, AlphaFirst
<1>3. /\ limit \in Nat /\ limit <= Len(OtherFirst) /\ limit <= Len(AlphaFirst)
      /\ required \in Nat /\ required <= Len(OtherFirst) /\ required <= Len(AlphaFirst)
  BY <1>1, <1>2
<1> QED BY <1>1, <1>2, <1>3, Walked

LEMMA AddMethod ==
  ASSUME NEW c, Passes(c)
  PROVE  EntryOK(c, tensor_add_sub_method(c, "add"))
<1> DEFINE w == IF Len(c.positional) = 2 \/ tensor_add_method_positional_other_can_be_alpha(c)
                THEN ByWalk(c, AlphaFirst, 2, 2) ELSE ByWalk(c, OtherFirst, 1, 1)
           b == bind_tensor_add_method_arguments(c)
<1>1. b.ok => w.ok /\ b = w
  BY DEF bind_tensor_add_method_arguments, MethodOperands, Checked, Rejected
<1>2. w = ByWalk(c, AlphaFirst, 2, 2) \/ w = ByWalk(c, OtherFirst, 1, 1)
  OBVIOUS
<1> HIDE DEF w, b
<1>3. w.ok => Binds(c, w.slots, {"other", "alpha"})
  BY <1>2, AddSubBinds
<1> QED BY <1>1, <1>3, AddSubEntry DEF tensor_add_sub_method, b

LEMMA SubMethod ==
  ASSUME NEW c, Passes(c)
  PROVE  EntryOK(c, tensor_add_sub_method(c, "sub"))
<1> DEFINE w == bind_tensor_sub_method_positional_arguments(c)
           b == bind_tensor_sub_method_arguments(c)
<1>1. b.ok => w.ok /\ b = w
  BY DEF bind_tensor_sub_method_arguments, MethodOperands, Checked, Rejected
<1>2. w.ok => \/ w = ByWalk(c, OtherFirst, 1, 1) \/ w = ByWalk(c, AlphaFirst, 2, 2)
              \/ w = ByWalk(c, OtherFirst, 2, 2)
  BY DEF bind_tensor_sub_method_positional_arguments, Checked, Rejected
<1> HIDE DEF w, b
<1>3. w.ok => Binds(c, w.slots, {"other", "alpha"})
  BY <1>2, AddSubBinds
<1> QED BY <1>1, <1>3, AddSubEntry DEF tensor_add_sub_method, b

LEMMA SubtractMethod ==
  ASSUME NEW c, Passes(c)
  PROVE  EntryOK(c, tensor_add_sub_method(c, "subtract"))
<1> DEFINE w == ByWalk(c, OtherFirst, 2, 1)
           b == bind_tensor_subtract_method_arguments(c)
<1>1. b.ok => w.ok /\ b = w
  BY DEF bind_tensor_subtract_method_arguments, MethodOperands, Checked, Rejected
<1>2. w.ok => Binds(c, w.slots, {"other", "alpha"})
  BY AddSubBinds
<1> HIDE DEF w, b
<1> QED BY <1>1, <1>2, AddSubEntry DEF tensor_add_sub_method, b

LEMMA ToMethod ==
  ASSUME NEW c, Passes(c)
  PROVE  EntryOK(c, dispatch_tensor_to_method(c))
<1> DEFINE given == classify_to_first_argument(c)
           format == <<"memory_format">>
           params == Options(given \o format)
           w == ByWalk(c, params, Len(given), 0)
           b == bind_to_arguments(c)
           names == <<"other", "device", "dtype", "non_blocking", "copy", "memory_format">>
           all == {"other", "device", "dtype", "non_blocking", "copy", "memory_format"}
           some == {"other", "device", "dtype", "non_blocking", "copy"}
           others == <<"non_blocking", "copy">>
<1>1. Distinct(given) /\ ToSet(given) \subseteq some
  <2>1. Distinct(others) /\ ToSet(others) = {"non_blocking", "copy"}
    BY NamesTwo DEF Alias
  <2>2. Distinct(<<"device", "dtype">>) /\ ToSet(<<"device", "dtype">>) = {"device", "dtype"}
    BY NamesTwo DEF Alias
  <2>3. \A n \in {"other", "dtype"} : Distinct(<<n>>) /\ ToSet(<<n>>) = {n}
    BY NamesOne DEF Alias
  <2>4. Distinct(<<>>) /\ ToSet(<<>>) = {}
    BY EmptyNames DEF Distinct
  <2>5. given \in {<<"device", "dtype">> \o others, <<"other">> \o others, <<"dtype">> \o others, <<>>}
    BY DEF classify_to_first_argument
  <2> HIDE DEF others, given
  <2>6. \A s \in {<<"device", "dtype">>, <<"other">>, <<"dtype">>} :
          Distinct(s \o others) /\ ToSet(s \o others) \subseteq some
    BY <2>1, <2>2, <2>3, NamesJoin
  <2> QED BY <2>4, <2>5, <2>6
<1>2. b.ok => w.ok /\ b = w
  BY DEF bind_to_arguments, Checked, Rejected
<1>3. names \in Seq(ToSet(names)) /\ ToSet(names) = all
  BY NamesSix DEF Alias, Distinct
<1> HIDE DEF given, b, names
<1>4. /\ Parameters(params) /\ Heads(params) \subseteq all
      /\ Len(given) \in Nat /\ Len(given) <= Len(params) /\ 0 \in Nat /\ 0 <= Len(params)
  <2>1. Distinct(format) /\ ToSet(format) = {"memory_format"} /\ Len(format) = 1
    BY NamesOne DEF Alias
  <2> HIDE DEF format
  <2>2. /\ Distinct(given \o format) /\ ToSet(given \o format) = ToSet(given) \cup {"memory_format"}
        /\ Len(given \o format) = Len(given) + 1
    BY <1>1, <2>1, NamesJoin
  <2>3. Parameters(params) /\ Len(params) = Len(given) + 1 /\ Heads(params) = ToSet(given) \cup {"memory_format"}
    BY <2>2, OptionParams
  <2>4. Len(given) \in Nat
    BY <1>1 DEF Distinct
  <2> QED BY <1>1, <2>3, <2>4
<1> HIDE DEF params, w
<1>5. w.ok => Binds(c, w.slots, Heads(params))
  BY <1>4, Walked DEF w
<1>6. ASSUME b.ok PROVE Binds(c, b.slots, all) /\ Open(b, all)
  BY <1>2, <1>4, <1>5, <1>6 DEF Open, Binds
<1> QED BY <1>3, <1>6, FunctionEntry DEF dispatch_tensor_to_method, ToNative, Supports, b, names

LEMMA TopSqueezeEntry ==
  ASSUME NEW c, Passes(c)
  PROVE  EntryOK(c, squeeze(c))
<1> DEFINE params == <<<<"input">>, <<"dim", "axis">>>>
           w == ByWalk(c, params, 2, 1)
           b == bind_top_level_squeeze_arguments(c)
<1>1. Parameters(params) /\ Len(params) = 2 /\ Heads(params) = {"input", "dim"}
  BY Families, ParamsTwo DEF Alias
<1>2. b.ok => w.ok /\ b = w
  BY DEF bind_top_level_squeeze_arguments, Checked, Rejected
<1> HIDE DEF params, w, b
<1>3. 2 \in Nat /\ 2 <= Len(params) /\ 1 \in Nat /\ 1 <= Len(params)
  BY <1>1
<1>4. w.ok => Binds(c, w.slots, Heads(params))
  BY <1>1, <1>3, Walked DEF w
<1> QED BY <1>2, <1>4, NativeEntry DEF squeeze, b

LEMMA TopFlattenEntry ==
  ASSUME NEW c, Passes(c)
  PROVE  EntryOK(c, flatten(c))
<1> DEFINE params == <<<<"input">>, <<"start_dim">>, <<"end_dim">>>>
           w == ByWalk(c, params, 3, 1)
           b == bind_top_level_flatten_arguments(c)
<1>1. Parameters(params) /\ Len(params) = 3 /\ Heads(params) = {"input", "start_dim", "end_dim"}
  BY Families, ParamsThree DEF Alias
<1>2. b.ok => w.ok /\ b = w
  BY DEF bind_top_level_flatten_arguments, Checked, Rejected
<1> HIDE DEF params, w, b
<1>3. 3 \in Nat /\ 3 <= Len(params) /\ 1 \in Nat /\ 1 <= Len(params)
  BY <1>1
<1>4. w.ok => Binds(c, w.slots, Heads(params))
  BY <1>1, <1>3, Walked DEF w
<1> QED BY <1>2, <1>4, NativeEntry DEF flatten, b

LEMMA FlattenMethod ==
  ASSUME NEW c, Passes(c)
  PROVE  EntryOK(c, tensor_flatten(c))
<1> DEFINE params == <<<<"start_dim">>, <<"end_dim">>>>
           w == ByWalk(c, params, 2, 0)
           b == bind_method_flatten_arguments(c)
<1>1. Parameters(params) /\ Len(params) = 2 /\ Heads(params) = {"start_dim", "end_dim"}
  BY Families, ParamsTwo DEF Alias
<1>2. b.ok => w.ok /\ b = w
  BY DEF bind_method_flatten_arguments, Checked, Rejected
<1> HIDE DEF params, w, b
<1>3. 2 \in Nat /\ 2 <= Len(params) /\ 0 \in Nat /\ 0 <= Len(params)
  BY <1>1
<1>4. w.ok => Binds(c, w.slots, Heads(params))
  BY <1>1, <1>3, Walked DEF w
<1> QED BY <1>2, <1>4, NativeEntry DEF tensor_flatten, b

LEMMA SumMethod ==
  ASSUME NEW c, Passes(c)
  PROVE  EntryOK(c, tensor_sum(c))
<1> DEFINE params == <<<<"dim">>, <<"keepdim">>, <<"dtype">>>>
           w == ByWalk(c, params, 2, 0)
           b == bind_method_sum_arguments(c)
<1>1. Parameters(params) /\ Len(params) = 3 /\ Heads(params) = {"dim", "keepdim", "dtype"}
  BY Families, ParamsThree DEF Alias
<1>2. b.ok => w.ok /\ b = w
  BY DEF bind_method_sum_arguments, MethodReduction, Checked, Rejected
<1> HIDE DEF params, w, b
<1>3. 2 \in Nat /\ 2 <= Len(params) /\ 0 \in Nat /\ 0 <= Len(params)
  BY <1>1
<1>4. w.ok => Binds(c, w.slots, Heads(params))
  BY <1>1, <1>3, Walked DEF w
<1> QED BY <1>2, <1>4, NativeEntry DEF tensor_sum, b

LEMMA MeanMethod ==
  ASSUME NEW c, Passes(c)
  PROVE  EntryOK(c, tensor_mean(c))
<1> DEFINE params == <<<<"dim">>, <<"keepdim">>, <<"dtype">>>>
           w == ByWalk(c, params, 2, 0)
           b == bind_method_mean_arguments(c)
<1>1. Parameters(params) /\ Len(params) = 3 /\ Heads(params) = {"dim", "keepdim", "dtype"}
  BY Families, ParamsThree DEF Alias
<1>2. b.ok => w.ok /\ b = w
  BY DEF bind_method_mean_arguments, MethodReduction, Checked, Rejected
<1> HIDE DEF params, w, b
<1>3. 2 \in Nat /\ 2 <= Len(params) /\ 0 \in Nat /\ 0 <= Len(params)
  BY <1>1
<1>4. w.ok => Binds(c, w.slots, Heads(params))
  BY <1>1, <1>3, Walked DEF w
<1> QED BY <1>2, <1>4, NativeEntry DEF tensor_mean, b

LEMMA ReluEntry ==
  ASSUME NEW c, Passes(c)
  PROVE  EntryOK(c, relu(c))
<1> DEFINE w == LegacySingle(c)
           b == bind_legacy_single_tensor_argument(c)
<1>1. b.ok => w.ok /\ b = w
  BY DEF bind_legacy_single_tensor_argument, Checked, Rejected
<1> HIDE DEF w, b
<1>2. w.ok => Binds(c, w.slots, {"input"})
  BY SinglePlain DEF w
<1> QED BY <1>1, <1>2, NativeEntry DEF relu, b

\* Several parameters of one name each, all of them required.
LEMMA RequiredBinds ==
  ASSUME NEW c, Passes(c), NEW names, Distinct(names), NEW b, b = Required(c, names), b.ok
  PROVE  Binds(c, b.slots, ToSet(names))
<1> DEFINE params == [i \in DOMAIN names |-> <<names[i]>>]
<1>1. b = ByWalk(c, params, Len(names), Len(names))
  BY DEF Required
<1>2. params = Options(names)
  BY DEF Options
<1> HIDE DEF params
<1>3. Parameters(params) /\ Len(params) = Len(names) /\ Heads(params) = ToSet(names)
  BY <1>2, OptionParams
<1>4. Len(names) \in Nat /\ Len(names) <= Len(params)
  BY <1>3 DEF Distinct
<1> QED BY <1>1, <1>3, <1>4, Walked

LEMMA SameSizeEntry ==
  ASSUME NEW c, Passes(c)
  PROVE  EntryOK(c, is_same_size(c))
<1> DEFINE params == <<Input, Other>>
           w == bind_legacy_binary_arguments(c)
           b == Checked(w, \A name \in DOMAIN w.slots : IsTensor(w.slots[name]))
<1>1. Parameters(params) /\ Len(params) = 2 /\ Heads(params) = {"input", "other"}
  BY Families, ParamsTwo
<1>2. b.ok => w.ok /\ b = w
  BY DEF Checked, Rejected
<1>3. w = ByCount(c, params, 2, 2)
  BY DEF bind_legacy_binary_arguments
<1>4. is_same_size(c) = Native(b)
  BY DEF is_same_size
<1> HIDE DEF params, w, b
<1>5. 2 \in Nat /\ 2 <= Len(params)
  BY <1>1
<1>6. w.ok => Binds(c, w.slots, {"input", "other"})
  BY <1>1, <1>3, <1>5, CountBinds
<1> QED BY <1>2, <1>4, <1>6, NativeEntry

LEMMA EqualEntry ==
  ASSUME NEW c, Passes(c)
  PROVE  EntryOK(c, equal(c))
<1> DEFINE w == Required(c, <<"input", "other">>)
           b == Checked(w, \A name \in DOMAIN w.slots : IsTensor(w.slots[name]))
<1>1. b.ok => w.ok /\ b = w
  BY DEF Checked, Rejected
<1>2. equal(c) = Native(b)
  BY DEF equal, bind_tensor_arguments
<1>3. Distinct(<<"input", "other">>)
  BY NamesTwo DEF Alias
<1> HIDE DEF b
<1>4. w.ok => Binds(c, w.slots, ToSet(<<"input", "other">>))
  BY <1>3, RequiredBinds
<1> HIDE DEF w
<1> QED BY <1>1, <1>2, <1>4, NativeEntry

\* The function and the method that swap dimensions.
LEMMA SwapEntry ==
  ASSUME NEW c, Passes(c)
  PROVE  EntryOK(c, apply_top_level_dimension_swap(c)) /\ EntryOK(c, tensor_transpose(c))
<1> DEFINE top == <<"input", "dim0", "dim1">>
           method == <<"dim0", "dim1">>
           w == bind_dimension_swap_arguments(c, top)
           b == Checked(w, Fits(w, "input", IsTensor))
           m == bind_dimension_swap_arguments(c, method)
<1>1. \A names : bind_dimension_swap_arguments(c, names).ok =>
        /\ Required(c, names).ok
        /\ bind_dimension_swap_arguments(c, names) = Required(c, names)
  BY DEF bind_dimension_swap_arguments, Checked, Rejected
<1>2. b.ok => w.ok /\ b = w
  BY DEF Checked, Rejected
<1>3. apply_top_level_dimension_swap(c) = Native(b) /\ tensor_transpose(c) = Native(m)
  BY DEF apply_top_level_dimension_swap, tensor_transpose
<1>4. Distinct(top) /\ Distinct(method)
  BY NamesTwo, NamesThree DEF Alias
<1> HIDE DEF top, method, b
<1>5. w.ok => Binds(c, w.slots, ToSet(top))
  BY <1>1, <1>4, RequiredBinds
<1>6. m.ok => Binds(c, m.slots, ToSet(method))
  BY <1>1, <1>4, RequiredBinds
<1> HIDE DEF w, m
<1>7. EntryOK(c, Native(b))
  BY <1>2, <1>5, NativeEntry
<1>8. EntryOK(c, Native(m))
  BY <1>6, NativeEntry
<1> QED BY <1>3, <1>7, <1>8

\* The function and the method that compare within tolerances.
LEMMA AllcloseEntry ==
  ASSUME NEW c, Passes(c)
  PROVE  EntryOK(c, allclose(c)) /\ EntryOK(c, tensor_allclose(c))
<1> DEFINE top == <<Input, Other, <<"rtol">>, <<"atol">>, <<"equal_nan">>>>
           method == <<Other, <<"rtol">>, <<"atol">>, <<"equal_nan">>>>
           v == ByWalk(c, top, 5, 2)
           w == ByWalk(c, method, 4, 1)
           b == bind_allclose_top_level_arguments(c)
           m == bind_allclose_method_arguments(c)
<1>1. Parameters(top) /\ Len(top) = 5
  BY Families, ParamsFive DEF Alias
<1>2. Parameters(method) /\ Len(method) = 4
  BY Families, ParamsFour DEF Alias
<1>3. b.ok => v.ok /\ b = v
  BY DEF bind_allclose_top_level_arguments, Checked, Rejected
<1>4. m.ok => w.ok /\ m = w
  BY DEF bind_allclose_method_arguments, Checked, Rejected
<1> HIDE DEF top, method, v, w, b, m
<1>5. /\ 5 \in Nat /\ 5 <= Len(top) /\ 2 \in Nat /\ 2 <= Len(top)
      /\ 4 \in Nat /\ 4 <= Len(method) /\ 1 \in Nat /\ 1 <= Len(method)
  BY <1>1, <1>2
<1>6. v.ok => Binds(c, v.slots, Heads(top))
  BY <1>1, <1>5, Walked DEF v
<1>7. w.ok => Binds(c, w.slots, Heads(method))
  BY <1>2, <1>5, Walked DEF w
<1>8. EntryOK(c, apply_allclose(b))
  BY <1>3, <1>6, CallEntry DEF apply_allclose
<1>9. EntryOK(c, apply_allclose(m))
  BY <1>4, <1>7, CallEntry DEF apply_allclose
<1> QED BY <1>8, <1>9 DEF allclose, tensor_allclose, b, m

LEMMA UnsqueezeEntry ==
  ASSUME NEW c, Passes(c)
  PROVE  EntryOK(c, unsqueeze_function(c))
<1> DEFINE params == <<Input, <<"dim">>>>
           w == ByCount(c, params, 2, 2)
           b == bind_top_level_unsqueeze_arguments(c)
<1>1. Parameters(params) /\ Len(params) = 2
  BY Families, ParamsTwo DEF Alias
<1>2. b.ok => w.ok /\ b = w /\ Fits(b, "input", IsTensor)
  BY DEF bind_top_level_unsqueeze_arguments, Checked, Rejected
<1> HIDE DEF params, w, b
<1>3. 2 \in Nat /\ 2 <= Len(params)
  BY <1>1
<1>4. w.ok => Binds(c, w.slots, Heads(params))
  BY <1>1, <1>3, CountBinds DEF w
<1>5. b.ok => TensorsOnly(b, {"input"})
  <2>1. {"input"} \cap {"tensors", "shape"} = {}
    OBVIOUS
  <2> QED BY <1>2, <2>1, SoleOperands DEF Fits, Has
<1> QED BY <1>2, <1>4, <1>5, CallEntry DEF unsqueeze_function, unsqueeze_variable_function, Expects, b

LEMMA UnsqueezeMethod ==
  ASSUME NEW c, Passes(c)
  PROVE  EntryOK(c, tensor_unsqueeze(c))
<1> DEFINE w == Required(c, <<"dim">>)
           b == Checked(w, Fits(w, "dim", is_dimension_swap_integer))
<1>1. b.ok => w.ok /\ b = w
  BY DEF Checked, Rejected
<1>2. tensor_unsqueeze(c) = Call(b, "guarded", <<>>, "value")
  BY DEF tensor_unsqueeze, bind_tensor_arguments
<1>3. Distinct(<<"dim">>)
  BY NamesOne DEF Alias
<1> HIDE DEF b
<1>4. w.ok => Binds(c, w.slots, ToSet(<<"dim">>))
  BY <1>3, RequiredBinds
<1> HIDE DEF w
<1> QED BY <1>1, <1>2, <1>4, CallEntry

LEMMA SplitMethod ==
  ASSUME NEW c, Passes(c)
  PROVE  EntryOK(c, tensor_split(c))
<1> DEFINE params == <<<<"split_size">>, <<"dim">>>>
           b == bind_split_arguments(c)
<1>1. Parameters(params) /\ Len(params) = 2
  BY Families, ParamsTwo DEF Alias
<1>2. b.ok => /\ Fills(c, params, 2, 1) /\ ~chunk_keyword_error(c, params, 0)
              /\ b.slots = Slots(c, params)
  BY DEF bind_split_arguments, Checked, Rejected, Bound
<1> HIDE DEF params, b
<1>3. b.ok => Binds(c, b.slots, Heads(params))
  BY <1>1, <1>2, SplitPlain
<1> QED BY <1>3, NativeEntry DEF tensor_split, b

LEMMA DunderAsked ==
  ASSUME NEW c, Passes(c)
  PROVE  LET asked == IF c.positional = <<>>
                      THEN IF "exponent" \in DOMAIN c.keywords THEN <<c.keywords["exponent"]>> ELSE <<>>
                      ELSE SubSeq(c.positional, 1, Min({2, Len(c.positional)}))
         IN  /\ asked \in Seq(ToSet(asked))
             /\ \A v \in ToSet(asked) : probe_torch_function_override(v) => v.name # "type"
             /\ c.positional = <<>> /\ "exponent" \in DOMAIN c.keywords
                => 1 \in DOMAIN asked /\ asked[1] = c.keywords["exponent"]
             /\ c.positional # <<>> => 1 \in DOMAIN asked /\ asked[1] = c.positional[1]
<1> DEFINE m == Min({2, Len(c.positional)})
<1>1. CASE c.positional = <<>> /\ "exponent" \notin DOMAIN c.keywords
  <2>1. <<>> \in Seq(ToSet(<<>>)) /\ ToSet(<<>>) = {}
    BY EmptyNames
  <2> QED BY <1>1, <2>1
<1>2. CASE c.positional = <<>> /\ "exponent" \in DOMAIN c.keywords
  <2> DEFINE v == c.keywords["exponent"]
  <2>1. probe_torch_function_override(v) => v.name # "type"
    BY <1>2 DEF Passes, Argument, Passable
  <2> HIDE DEF v
  <2>2. ToSet(<<v>>) = {v} /\ <<v>> \in Seq({v}) /\ 1 \in DOMAIN <<v>> /\ <<v>>[1] = v
    BY DEF ToSet
  <2> QED BY <1>2, <2>1, <2>2 DEF v
<1>3. CASE c.positional # <<>>
  <2> DEFINE V == ToSet(c.positional)
             asked == SubSeq(c.positional, 1, m)
  <2>1. c.positional \in Seq(V) /\ Len(c.positional) \in Nat /\ Len(c.positional) # 0
    BY <1>3 DEF Passes
  <2>2. {2, Len(c.positional)} \in SUBSET Nat /\ {2, Len(c.positional)} # {}
    BY <2>1
  <2>3. m \in {2, Len(c.positional)} /\ m <= Len(c.positional)
    BY <2>2, LeastOf
  <2>4. m \in 1..Len(c.positional)
    BY <2>1, <2>3
  <2> HIDE DEF V, m
  <2>5. asked \in Seq(V) /\ DOMAIN asked = 1..m /\ \A i \in 1..m : asked[i] = c.positional[i]
    BY <2>1, <2>4
  <2>6. \A i \in DOMAIN c.positional : Argument(c.positional[i])
    BY DEF Passes
  <2>7. 1 \in 1..m /\ 1..m \subseteq DOMAIN c.positional
    BY <2>1, <2>4
  <2>8. asked \in Seq(ToSet(asked))
    <3>1. asked = [i \in 1..m |-> asked[i]] /\ m \in Nat
      BY <2>1, <2>4, <2>5
    <3> HIDE DEF asked
    <3>2. \A i \in 1..m : asked[i] \in ToSet(asked)
      BY <2>5 DEF ToSet
    <3> QED BY <3>1, <3>2
  <2>9. \A v \in ToSet(asked) : probe_torch_function_override(v) => v.name # "type"
    BY <2>5, <2>6, <2>7 DEF ToSet, Argument, Passable
  <2> HIDE DEF asked
  <2> QED BY <1>3, <2>5, <2>7, <2>8, <2>9 DEF m, asked
<1> QED BY <1>1, <1>2, <1>3

LEMMA DunderMethod ==
  ASSUME NEW c, Passes(c)
  PROVE  EntryOK(c, apply_tensor_pow_dunder(c))
<1> DEFINE params == <<<<"exponent">>>>
           b == bind_tensor_pow_dunder_exponent(c)
           asked == IF c.positional = <<>>
                    THEN IF "exponent" \in DOMAIN c.keywords THEN <<c.keywords["exponent"]>> ELSE <<>>
                    ELSE SubSeq(c.positional, 1, Min({2, Len(c.positional)}))
           V == ToSet(asked)
           all == Ordered(asked)
           r == apply_tensor_pow_dunder(c)
<1> SUFFICES EntryOK(c, r)
  OBVIOUS
<1>1. /\ Parameters(params) /\ Len(params) = 1 /\ Heads(params) = {"exponent"}
      /\ params[1] = <<"exponent">> /\ <<"exponent">>[1] = "exponent"
  BY Families, ParamsOne DEF Alias
<1>2. b = ByWalk(c, params, 1, 1)
  BY DEF bind_tensor_pow_dunder_exponent
<1>3. /\ asked \in Seq(V) /\ \A v \in V : probe_torch_function_override(v) => v.name # "type"
      /\ c.positional = <<>> /\ "exponent" \in DOMAIN c.keywords
         => 1 \in DOMAIN asked /\ asked[1] = c.keywords["exponent"]
      /\ c.positional # <<>> => 1 \in DOMAIN asked /\ asked[1] = c.positional[1]
  BY DunderAsked
<1>4. /\ r.form = "dunder" /\ r.slots = b.slots /\ r.overrides = all
      /\ r.native \in {"declined", "value", "unsupported"}
      /\ r.native # "declined" => b.ok
  BY DEF apply_tensor_pow_dunder, dispatch_tensor_pow_dunder, Power
<1> HIDE DEF r, b, asked, V
<1>5. /\ Orderly(all)
      /\ \A i \in DOMAIN asked : probe_torch_function_override(asked[i]) => Lists(all, asked[i])
  BY <1>3, OrderedFacts
<1>6. ASSUME b.ok
      PROVE  /\ Binds(c, b.slots, {"exponent"})
             /\ "exponent" \in DOMAIN b.slots => 1 \in DOMAIN asked /\ b.slots["exponent"] = asked[1]
  <2> HIDE DEF params
  <2>1. 1 \in Nat /\ 1 <= Len(params)
    BY <1>1
  <2>2. /\ ByWalk(c, params, 1, 1) = Bound(Slots(c, params))
        /\ Binds(c, ByWalk(c, params, 1, 1).slots, Heads(params))
    BY <1>1, <1>2, <1>6, <2>1, WalkPlain
  <2>3. b.slots = Slots(c, params) /\ Binds(c, b.slots, {"exponent"})
    BY <1>1, <1>2, <2>2 DEF Bound
  <2>4. ASSUME "exponent" \in DOMAIN b.slots
        PROVE  1 \in DOMAIN asked /\ b.slots["exponent"] = asked[1]
    <3> DEFINE slots == Slots(c, params)
    <3>1. /\ DOMAIN slots = {params[i][1] : i \in {j \in DOMAIN params : Given(c, params, j)}}
          /\ \A i \in DOMAIN params : Given(c, params, i) => slots[params[i][1]] = ArgumentFor(c, params, i)
      BY <1>1, SlotFacts
    <3>2. PICK i \in DOMAIN params : Given(c, params, i) /\ params[i][1] = "exponent"
      BY <2>3, <2>4, <3>1
    <3>3. i = 1
      BY <1>1, <3>2 DEF Parameters
    <3>4. b.slots["exponent"] = ArgumentFor(c, params, 1)
      BY <1>1, <2>3, <3>1, <3>2, <3>3
    <3>5. c.positional \in Seq(ToSet(c.positional)) /\ Len(c.positional) \in Nat
      BY DEF Passes
    <3>6. CASE c.positional # <<>>
      <4>1. 1 <= Len(c.positional)
        BY <3>5, <3>6
      <4> QED BY <1>3, <3>4, <3>6, <4>1 DEF ArgumentFor
    <3>7. CASE c.positional = <<>>
      <4>1. ~(1 <= Len(c.positional))
        BY <3>7
      <4>2. Spelled(c, params[1]) # {}
        BY <3>2, <3>3, <4>1 DEF Given
      <4>3. "exponent" \in DOMAIN c.keywords /\ FirstSpelled(c, params[1]) \in DOMAIN c.keywords
            /\ FirstSpelled(c, params[1]) = "exponent"
        <5>1. ToSet(params[1]) = {"exponent"}
          BY <1>1 DEF ToSet
        <5>2. "exponent" \in DOMAIN c.keywords
          BY <4>2, <5>1 DEF Spelled
        <5>3. {k \in DOMAIN params[1] : params[1][k] \in DOMAIN c.keywords} = {1}
          BY <1>1, <5>2
        <5>4. {1} \in SUBSET Nat /\ {1} # {}
          OBVIOUS
        <5>5. Min({1}) = 1
          BY <5>4, LeastOf
        <5> QED BY <1>1, <5>2, <5>3, <5>5 DEF FirstSpelled
      <4> QED BY <1>3, <3>4, <3>7, <4>1, <4>3 DEF ArgumentFor
    <3> QED BY <3>6, <3>7
  <2> QED BY <2>3, <2>4
<1>7. ASSUME ~b.ok PROVE DOMAIN b.slots = {}
  BY <1>2, <1>7 DEF ByWalk, Bound, Rejected
<1>8. ASSUME NEW v \in Handlers(r) PROVE Lists(all, v)
  <2>1. /\ probe_torch_function_override(v)
        /\ v \in Values(b.slots) \cup UNION {ToSet(Operands(r, name)) : name \in DOMAIN b.slots}
    BY <1>4, <1>8 DEF Handlers
  <2>2. b.ok
    BY <1>7, <2>1 DEF Values
  <2>3. DOMAIN b.slots \subseteq {"exponent"}
    BY <1>6, <2>2 DEF Binds
  <2>4. "exponent" \in DOMAIN b.slots => Operands(r, "exponent") = <<b.slots["exponent"]>>
    BY <1>4 DEF Operands, Has
  <2>5. \A u : ToSet(<<u>>) = {u}
    BY DEF ToSet
  <2>6. "exponent" \in DOMAIN b.slots /\ v = b.slots["exponent"]
    BY <2>1, <2>3, <2>4, <2>5 DEF Values
  <2> QED BY <1>5, <1>6, <2>1, <2>2, <2>6
<1>9. b.ok => Accounted(c, b.slots)
  BY <1>6 DEF Binds, Accounted
<1> QED BY <1>4, <1>5, <1>8, <1>9 DEF EntryOK, AllForms, AskingForms

LEMMA CreationNames ==
  /\ Distinct(CreationOptions)
  /\ ToSet(CreationOptions) = {"out", "dtype", "layout", "device", "pin_memory", "requires_grad"}
  /\ Len(CreationOptions) = 6
BY NamesSix DEF Alias, CreationOptions

\* A parameter list made of names.
LEMMA OptionsWalked ==
  ASSUME NEW c, Passes(c), NEW names, Distinct(names), NEW limit \in Nat, limit <= Len(names),
         NEW required \in Nat, required <= Len(names),
         NEW b, b = ByWalk(c, Options(names), limit, required), b.ok
  PROVE  Binds(c, b.slots, ToSet(names))
<1>1. /\ Parameters(Options(names)) /\ Len(Options(names)) = Len(names)
      /\ Heads(Options(names)) = ToSet(names)
  BY OptionParams
<1> QED BY <1>1, Walked

LEMMA CreationBinds ==
  ASSUME NEW c, Passes(c), bind_creation_arguments(c).ok
  PROVE  LET b == bind_creation_arguments(c) IN \E names : Binds(c, b.slots, names)
<1> DEFINE shape == <<"shape">>
           others == Options(shape \o CreationOptions)
           keywords == [c EXCEPT !.positional = <<>>]
           rest == ByWalk(keywords, others, 0, 0)
           params == <<<<"size">>>> \o others
           w == ByWalk(c, params, 1, 0)
           b == bind_creation_arguments(c)
<1> SUFFICES \E names : Binds(c, b.slots, names)
  OBVIOUS
<1>1. Distinct(shape) /\ ToSet(shape) = {"shape"} /\ Len(shape) = 1
  BY NamesOne DEF Alias
<1>2. /\ keywords.positional = <<>> /\ keywords.keywords = c.keywords
  BY DEF Passes
<1>3. c.positional \in Seq(ToSet(c.positional)) /\ Len(c.positional) \in Nat
  BY DEF Passes
<1> HIDE DEF shape, keywords
<1>4. /\ Distinct(shape \o CreationOptions)
      /\ ToSet(shape \o CreationOptions) = {"shape"} \cup ToSet(CreationOptions)
      /\ Len(shape \o CreationOptions) = 7
  <2>1. ToSet(shape) \cap ToSet(CreationOptions) = {}
    BY <1>1, CreationNames
  <2>2. /\ Distinct(shape \o CreationOptions)
        /\ ToSet(shape \o CreationOptions) = ToSet(shape) \cup ToSet(CreationOptions)
        /\ Len(shape \o CreationOptions) = Len(shape) + Len(CreationOptions)
    BY <1>1, <2>1, CreationNames, NamesJoin
  <2>3. Len(shape) + Len(CreationOptions) = 7
    BY <1>1, CreationNames
  <2> QED BY <1>1, <2>2, <2>3
<1>5. /\ others \in Seq(ToSet(others)) /\ Parameters(others) /\ Len(others) = 7
      /\ Heads(others) = {"shape"} \cup ToSet(CreationOptions)
  BY <1>4, OptionParams
<1> HIDE DEF others
<1>6. Parameters(params) /\ Len(params) = 8 /\ Heads(params) = {"size", "shape"} \cup ToSet(CreationOptions)
  <2>1. Family(<<"size">>) /\ <<"size">>[1] = "size"
    BY Families DEF Alias
  <2>2. "size" \notin Heads(others)
    BY <1>5, CreationNames
  <2> DEFINE size == <<"size">>
  <2>3. Family(size) /\ size[1] \notin Heads(others)
    BY <2>1, <2>2
  <2> HIDE DEF size
  <2>4. /\ Parameters(<<size>> \o others) /\ Len(<<size>> \o others) = Len(others) + 1
        /\ Heads(<<size>> \o others) = Heads(others) \cup {size[1]}
    BY <1>5, <2>3, ParamsBefore
  <2>5. Heads(others) \cup {size[1]} = {"size", "shape"} \cup ToSet(CreationOptions)
    BY <1>5, <2>1 DEF size
  <2> QED BY <1>5, <2>4, <2>5 DEF size
<1> HIDE DEF params
<1>7. CASE Len(c.positional) <= 1
  <2>1. b = w
    BY <1>7 DEF bind_creation_arguments, shape, others, params
  <2>2. 1 \in Nat /\ 1 <= Len(params) /\ 0 \in Nat /\ 0 <= Len(params)
    BY <1>6
  <2> HIDE DEF b
  <2>3. Binds(c, w.slots, Heads(params))
    BY <1>6, <2>1, <2>2, Walked DEF b
  <2>4. Binds(c, b.slots, Heads(params))
    BY <2>1, <2>3
  <2> QED BY <2>4
<1>8. CASE ~(Len(c.positional) <= 1)
  <2>1. rest.ok /\ b.slots = With(rest.slots, "size", AllPositional(c))
    <3> DEFINE with == [rest EXCEPT !.slots = With(@, "size", AllPositional(c))]
    <3>1. b = Checked(with, creation_variadic_size_start(c.positional[1]))
      BY <1>3, <1>8 DEF bind_creation_arguments, shape, others, keywords
    <3>2. rest.ok \in BOOLEAN /\ rest = [ok |-> rest.ok, slots |-> rest.slots]
      BY DEF ByWalk, Bound, Rejected
    <3> HIDE DEF rest, b
    <3>3. with.ok = rest.ok /\ with.slots = With(rest.slots, "size", AllPositional(c))
      BY <3>2
    <3> HIDE DEF with
    <3>4. b.ok
      BY DEF b
    <3> QED BY <3>1, <3>3, <3>4 DEF Checked, Rejected
  <2>2. Passes(keywords)
    <3>1. <<>> \in Seq(ToSet(<<>>)) /\ DOMAIN <<>> = {}
      BY EmptyNames
    <3> QED BY <1>2, <3>1 DEF Passes
  <2>3. Plain(keywords, rest.slots, Heads(others))
    <3>1. 0 \in Nat /\ 0 <= Len(others)
      BY <1>5
    <3> QED BY <1>5, <2>1, <2>2, <3>1, WalkPlain
  <2>4. ASSUME NEW v PROVE Cardinality(Places(rest.slots, v)) = Cardinality(Keywords(c, v))
    <3>1. Positions(keywords, v) = {} /\ Keywords(keywords, v) = Keywords(c, v)
      BY <1>2 DEF Positions, Keywords
    <3>2. Cardinality(Keywords(c, v)) \in Nat
      <4>1. Keywords(c, v) \subseteq DOMAIN c.keywords
        BY DEF Keywords
      <4>2. IsFiniteSet(Keywords(c, v))
        BY <4>1, FS_Subset DEF Passes
      <4> QED BY <4>2, FS_CardinalityType
    <3>3. Cardinality({}) = 0
      BY FS_EmptySet
    <3> HIDE DEF rest
    <3> QED BY <2>3, <3>1, <3>2, <3>3 DEF Plain
  <2> HIDE DEF rest, b
  <2> DEFINE names == Heads(others) \cup {"size"}
  <2>5. /\ "size" # "slot" /\ "size" \notin DOMAIN rest.slots /\ "size" \in names
        /\ DOMAIN rest.slots \subseteq names
    BY <1>5, <2>3, CreationNames DEF Plain
  <2>6. IsFiniteSet(DOMAIN rest.slots) /\ \A n \in DOMAIN rest.slots : Argument(rest.slots[n])
    BY <2>3 DEF Plain
  <2> HIDE DEF names
  <2>7. Binds(c, With(rest.slots, "size", AllPositional(c)), names)
    BY <2>4, <2>5, <2>6, GatheredHeld
  <2>8. Binds(c, b.slots, names)
    BY <2>1, <2>7
  <2> QED BY <2>8
<1> QED BY <1>7, <1>8

LEMMA CreatesEntry ==
  ASSUME NEW c, Passes(c), NEW b, NEW names, b.ok => Binds(c, b.slots, names),
         NEW native, native \in {"value", "unsupported"}
  PROVE  EntryOK(c, Creates(b, native)) /\ EntryOK(c, AsksMode(b, native))
BY CallEntry DEF Creates, AsksMode

LEMMA EmptyEntry ==
  ASSUME NEW c, Passes(c)
  PROVE  EntryOK(c, empty(c)) /\ EntryOK(c, zeros(c))
<1> DEFINE w == bind_creation_arguments(c)
           b == parse_creation_arguments(c)
<1>1. b.ok => w.ok /\ b = w
  BY DEF parse_creation_arguments, Checked, Rejected
<1> HIDE DEF b
<1>2. PICK names : b.ok => Binds(c, b.slots, names)
  <2>1. CASE b.ok
    <3>1. PICK names : Binds(c, w.slots, names)
      BY <1>1, <2>1, CreationBinds
    <3> HIDE DEF w
    <3> QED BY <1>1, <3>1
  <2>2. CASE ~b.ok
    BY <2>2
  <2> QED BY <2>1, <2>2
<1> HIDE DEF w
<1>3. EntryOK(c, Creates(b, Created(b)))
  BY <1>2, CreatesEntry DEF Created, Supports
<1>4. EntryOK(c, Creates(b, IF CudaZeros(b) THEN "value" ELSE Created(b)))
  BY <1>2, CreatesEntry DEF Created, Supports
<1> QED BY <1>3, <1>4 DEF empty, zeros, b

LEMMA FullEntry ==
  ASSUME NEW c, Passes(c)
  PROVE  EntryOK(c, full(c))
<1> DEFINE names == <<"size", "fill_value">> \o CreationOptions
           w == bind_full_arguments(c)
           b == parse_full_arguments(c)
<1>1. Distinct(names) /\ Len(names) = 8
  <2> DEFINE first == <<"size", "fill_value">>
  <2>1. Distinct(first) /\ ToSet(first) = {"size", "fill_value"} /\ Len(first) = 2
    BY NamesTwo DEF Alias
  <2> HIDE DEF first
  <2>2. ToSet(first) \cap ToSet(CreationOptions) = {}
    BY <2>1, CreationNames
  <2>3. Distinct(first \o CreationOptions) /\ Len(first \o CreationOptions) = Len(first) + Len(CreationOptions)
    BY <2>1, <2>2, CreationNames, NamesJoin
  <2>4. Len(first) + Len(CreationOptions) = 8
    BY <2>1, CreationNames
  <2> QED BY <2>3, <2>4 DEF first
<1>2. w = ByWalk(c, Options(names), 2, 2)
  BY DEF bind_full_arguments
<1>3. b.ok => w.ok /\ b = w
  BY DEF parse_full_arguments, Checked, Rejected
<1> HIDE DEF names, w, b
<1>4. 2 \in Nat /\ 2 <= Len(names)
  BY <1>1
<1>5. b.ok => Binds(c, b.slots, ToSet(names))
  BY <1>1, <1>2, <1>3, <1>4, OptionsWalked
<1> QED BY <1>5, CreatesEntry DEF full, Created, Supports, b

LEMMA EyeEntry ==
  ASSUME NEW c, Passes(c)
  PROVE  EntryOK(c, eye(c))
<1> DEFINE names == <<"n", "m", "dtype", "device", "requires_grad">>
           w == bind_eye_arguments(c)
           b == parse_eye_arguments(c)
<1>1. Distinct(names) /\ Len(names) = 5
  BY NamesFive DEF Alias
<1>2. w = ByWalk(c, Options(names), 2, 1)
  BY DEF bind_eye_arguments
<1>3. b.ok => w.ok /\ b = w
  BY DEF parse_eye_arguments, Checked, Rejected
<1> HIDE DEF names, w, b
<1>4. 2 \in Nat /\ 2 <= Len(names) /\ 1 \in Nat /\ 1 <= Len(names)
  BY <1>1
<1>5. b.ok => Binds(c, b.slots, ToSet(names))
  BY <1>1, <1>2, <1>3, <1>4, OptionsWalked
<1> QED BY <1>5, CreatesEntry DEF eye, Created, Supports, b

LEMMA ScalarTensorEntry ==
  ASSUME NEW c, Passes(c)
  PROVE  EntryOK(c, scalar_tensor_variable_function(c))
<1> DEFINE names == <<"s", "dtype", "layout", "device", "pin_memory", "requires_grad">>
           w == bind_scalar_tensor_arguments(c)
           b == parse_scalar_tensor_arguments(c)
<1>1. Distinct(names) /\ Len(names) = 6
  BY NamesSix DEF Alias
<1>2. w = ByWalk(c, Options(names), 1, 1)
  BY DEF bind_scalar_tensor_arguments
<1>3. b.ok => w.ok /\ b = w
  BY DEF parse_scalar_tensor_arguments, Checked, Rejected
<1> HIDE DEF names, w, b
<1>4. 1 \in Nat /\ 1 <= Len(names)
  BY <1>1
<1>5. b.ok => Binds(c, b.slots, ToSet(names))
  BY <1>1, <1>2, <1>3, <1>4, OptionsWalked
<1> QED BY <1>5, CreatesEntry DEF scalar_tensor_variable_function, Created, Supports, b

\* The functions that make a tensor like another.
LEMMA LikeBinds ==
  ASSUME NEW c, Passes(c), NEW names, Distinct(names), "input" \notin ToSet(names),
         NEW required \in {1, 2}, required <= Len(names) + 1,
         NEW b, b = ByWalk(c, <<Input>> \o Options(names), required, required), b.ok
  PROVE  Binds(c, b.slots, ToSet(names) \cup {"input"})
<1> DEFINE others == Options(names)
           params == <<Input>> \o others
<1>1. /\ others \in Seq(ToSet(others)) /\ Parameters(others) /\ Len(others) = Len(names)
      /\ Heads(others) = ToSet(names)
  BY OptionParams
<1>2. Family(Input) /\ Input[1] = "input"
  BY Families
<1> HIDE DEF others
<1>3. Parameters(params) /\ Len(params) = Len(others) + 1 /\ Heads(params) = Heads(others) \cup {Input[1]}
  BY <1>1, <1>2, ParamsBefore
<1>4. b = ByWalk(c, params, required, required)
  BY DEF others
<1> HIDE DEF params
<1>5. required \in Nat /\ required <= Len(params)
  BY <1>1, <1>3
<1>6. Binds(c, b.slots, Heads(params))
  BY <1>3, <1>4, <1>5, Walked
<1>7. Heads(params) = ToSet(names) \cup {"input"}
  BY <1>1, <1>2, <1>3
<1> QED BY <1>6, <1>7

LEMMA LikedEntry ==
  ASSUME NEW c, Passes(c), NEW b, NEW names, b.ok => Binds(c, b.slots, names)
  PROVE  EntryOK(c, Likened(b))
<1> DEFINE native == IF b.ok THEN Supports(parse_as_tensor_device(b) /\ LikeFormat(b)) ELSE "value"
<1>1. native \in {"value", "unsupported"}
  BY DEF Supports
<1>2. Likened(b) = Call(b, "guarded", <<>>, native)
  BY DEF Likened
<1> HIDE DEF native
<1> QED BY <1>1, <1>2, CallEntry

LEMMA LikeEntry ==
  ASSUME NEW c, Passes(c)
  PROVE  EntryOK(c, zeros_like_variable_function(c)) /\ EntryOK(c, full_like_variable_function(c))
<1> DEFINE value == <<"fill_value">>
           names == value \o LikeOptions
           v == bind_like_factory_arguments(c)
           w == bind_full_like_arguments(c)
           b == parse_like_factory_arguments(c)
           f == parse_full_like_arguments(c)
<1>1. /\ Distinct(LikeOptions) /\ Len(LikeOptions) = 5
      /\ ToSet(LikeOptions) = {"dtype", "layout", "device", "requires_grad", "memory_format"}
  BY NamesFive DEF Alias, LikeOptions
<1>2. Distinct(value) /\ ToSet(value) = {"fill_value"} /\ Len(value) = 1
  BY NamesOne DEF Alias
<1>3. v = ByWalk(c, <<Input>> \o Options(LikeOptions), 1, 1)
  BY DEF bind_like_factory_arguments
<1>4. w = ByWalk(c, <<Input>> \o Options(names), 2, 2)
  BY DEF bind_full_like_arguments
<1>5. b.ok => v.ok /\ b = v
  BY DEF parse_like_factory_arguments, Checked, Rejected
<1>6. f.ok => w.ok /\ f = w
  BY DEF parse_full_like_arguments, Checked, Rejected
<1> HIDE DEF value, v, w, b, f
<1>7. /\ Distinct(names) /\ Len(names) = Len(value) + Len(LikeOptions)
      /\ ToSet(names) = ToSet(value) \cup ToSet(LikeOptions)
  <2>1. ToSet(value) \cap ToSet(LikeOptions) = {}
    BY <1>1, <1>2
  <2> QED BY <1>1, <1>2, <2>1, NamesJoin
<1> HIDE DEF names
<1>8. "input" \notin ToSet(LikeOptions) /\ "input" \notin ToSet(names)
  BY <1>1, <1>2, <1>7
<1>9. 1 \in {1, 2} /\ 1 <= Len(LikeOptions) + 1 /\ 2 \in {1, 2} /\ 2 <= Len(names) + 1
  BY <1>1, <1>2, <1>7
<1>10. b.ok => Binds(c, b.slots, ToSet(LikeOptions) \cup {"input"})
  BY <1>1, <1>3, <1>5, <1>8, <1>9, LikeBinds
<1>11. f.ok => Binds(c, f.slots, ToSet(names) \cup {"input"})
  BY <1>4, <1>6, <1>7, <1>8, <1>9, LikeBinds
<1>12. EntryOK(c, Likened(b)) /\ EntryOK(c, Likened(f))
  BY <1>10, <1>11, LikedEntry
<1> QED BY <1>12 DEF zeros_like_variable_function, full_like_variable_function, b, f

LEMMA ConversionEntry ==
  ASSUME NEW c, Passes(c)
  PROVE  EntryOK(c, as_tensor_variable_function(c)) /\ EntryOK(c, asarray_variable_function(c))
<1> DEFINE some == <<"data", "dtype", "device">>
           many == <<"obj", "dtype", "device", "copy", "requires_grad">>
           v == bind_as_tensor_arguments(c)
           w == bind_asarray_arguments(c)
           b == Checked(v, OptionsFit(v))
           a == Checked(w, OptionsFit(w) /\ Fits(w, "copy", parse_factory_bool))
<1>1. Distinct(some) /\ Len(some) = 3 /\ Distinct(many) /\ Len(many) = 5
  BY NamesThree, NamesFive DEF Alias
<1>2. v = ByWalk(c, Options(some), 1, 1) /\ w = ByWalk(c, Options(many), 1, 1)
  BY DEF bind_as_tensor_arguments, bind_asarray_arguments
<1>3. b.ok => v.ok /\ b = v
  BY DEF Checked, Rejected
<1>4. a.ok => w.ok /\ a = w
  BY DEF Checked, Rejected
<1>5. \E native \in {"value", "unsupported"} : as_tensor_variable_function(c) = AsksMode(b, native)
  BY DEF as_tensor_variable_function, AsTensor, Supports
<1>6. \E native \in {"value", "unsupported"} : asarray_variable_function(c) = AsksMode(a, native)
  BY DEF asarray_variable_function, Supports
<1> HIDE DEF some, many, v, w, b, a
<1>7. 1 \in Nat /\ 1 <= Len(some) /\ 1 <= Len(many)
  BY <1>1
<1>8. b.ok => Binds(c, b.slots, ToSet(some))
  BY <1>1, <1>2, <1>3, <1>7, OptionsWalked
<1>9. a.ok => Binds(c, a.slots, ToSet(many))
  BY <1>1, <1>2, <1>4, <1>7, OptionsWalked
<1> QED BY <1>5, <1>6, <1>8, <1>9, CreatesEntry

LEMMA NobodyOrderly == Orderly(<<>>)
BY EmptyNames DEF Orderly

LEMMA ArangeEntry ==
  ASSUME NEW c, Passes(c)
  PROVE  EntryOK(c, arange_variable_function(c))
<1> DEFINE bounds == IF Len(c.positional) = 2 \/ (Len(c.positional) = 1 /\ "end" \in DOMAIN c.keywords)
                     THEN <<"start", "end">> ELSE <<"end", "start">>
           names == bounds \o CreationOptions
           w == ByWalk(c, Options(names), 2, 1)
           b == parse_arange_arguments(c)
           r == arange_variable_function(c)
<1> SUFFICES EntryOK(c, r)
  OBVIOUS
<1>1. Distinct(bounds) /\ ToSet(bounds) = {"start", "end"} /\ Len(bounds) = 2
  <2>1. Distinct(<<"start", "end">>) /\ ToSet(<<"start", "end">>) = {"start", "end"} /\ Len(<<"start", "end">>) = 2
    BY NamesTwo DEF Alias
  <2>2. Distinct(<<"end", "start">>) /\ ToSet(<<"end", "start">>) = {"start", "end"} /\ Len(<<"end", "start">>) = 2
    BY NamesTwo DEF Alias
  <2> QED BY <2>1, <2>2
<1>2. b.ok => w.ok /\ b = w
  BY DEF parse_arange_arguments, bind_arange_arguments, Checked, Rejected
<1>3. /\ r.form = "unbound" /\ r.slots = b.slots /\ r.overrides = <<>>
      /\ r.native \in {"value", "unsupported", "rejected"} /\ (r.native # "rejected" => b.ok)
  BY DEF arange_variable_function, Created, Supports
<1> HIDE DEF bounds, w, b, r
<1>4. Distinct(names) /\ Len(names) = 8
  <2>1. ToSet(bounds) \cap ToSet(CreationOptions) = {}
    BY <1>1, CreationNames
  <2>2. Distinct(names) /\ Len(names) = Len(bounds) + Len(CreationOptions)
    BY <1>1, <2>1, CreationNames, NamesJoin
  <2> QED BY <1>1, <2>2, CreationNames
<1> HIDE DEF names
<1>5. 2 \in Nat /\ 2 <= Len(names) /\ 1 \in Nat /\ 1 <= Len(names)
  BY <1>4
<1>6. b.ok => Binds(c, b.slots, ToSet(names))
  BY <1>2, <1>4, <1>5, OptionsWalked DEF w
<1>7. b.ok => Accounted(c, b.slots)
  BY <1>6 DEF Binds, Accounted
<1> QED BY <1>3, <1>7, NobodyOrderly DEF EntryOK, AllForms, AskingForms

LEMMA OneBinds ==
  ASSUME NEW c, Passes(c), OneInput(c), NEW slots, NEW name, DOMAIN slots = {name},
         slots[name] = c.positional[1]
  PROVE  Binds(c, slots, {name})
<1>1. /\ DOMAIN c.positional = {1} /\ DOMAIN c.keywords = {} /\ Argument(c.positional[1])
  BY DEF OneInput, Passes
<1>2. ASSUME NEW v
      PROVE  Cardinality(Places(slots, v)) = Cardinality(Positions(c, v)) + Cardinality(Keywords(c, v))
  <2>1. Keywords(c, v) = {}
    BY <1>1 DEF Keywords
  <2>2. Cardinality({}) = 0 /\ Cardinality({1}) = 1 /\ Cardinality({name}) = 1
    BY FS_EmptySet, FS_Singleton
  <2>3. CASE c.positional[1] = v
    <3>1. Places(slots, v) = {name} /\ Positions(c, v) = {1}
      BY <1>1, <2>3 DEF Places, PlacesIn, Positions
    <3> QED BY <2>1, <2>2, <3>1
  <2>4. CASE c.positional[1] # v
    <3>1. Places(slots, v) = {} /\ Positions(c, v) = {}
      BY <1>1, <2>4 DEF Places, PlacesIn, Positions
    <3> QED BY <2>1, <2>2, <3>1
  <2> QED BY <2>3, <2>4
<1>3. IsFiniteSet({name})
  BY FS_Singleton
<1>4. Plain(c, slots, {name})
  BY <1>1, <1>2, <1>3 DEF Plain
<1> QED BY <1>4, PlainHeld

\* Functions of tensors that may be given as one tuple.
LEMMA TupleEntry ==
  ASSUME NEW c, Passes(c)
  PROVE  EntryOK(c, atleast_1d_variable_function(c)) /\ EntryOK(c, broadcast_tensors_variable_function(c))
<1> DEFINE v == c.positional[1]
           one == Bound([input |-> v])
           many == Bound([inputs |-> v])
           b == IF OneInput(c) /\ IsTensor(c.positional[1]) THEN one ELSE Rejected
           d == IF OneInput(c) /\ v.kind = "tuple" /\ \A i \in DOMAIN v.items : IsTensor(v.items[i])
                THEN many ELSE Rejected
<1>1. OneInput(c) => Binds(c, one.slots, {"input"}) /\ Binds(c, many.slots, {"inputs"})
  BY OneBinds DEF Bound
<1>2. (b.ok => OneInput(c) /\ b = one) /\ (d.ok => OneInput(c) /\ d = many)
  BY DEF Rejected
<1>3. atleast_1d_variable_function(c) \in {Call(one, "mode", <<>>, "value"), Native(b)}
  BY DEF atleast_1d_variable_function, dispatch_empty_variadic_tensor_input
<1>4. atleast_1d_variable_function(c) = Call(one, "mode", <<>>, "value") => OneInput(c) \/ atleast_1d_variable_function(c) = Native(b)
  BY DEF atleast_1d_variable_function, dispatch_empty_variadic_tensor_input, IsEmptyTuple
<1>5. broadcast_tensors_variable_function(c) \in {Call(one, "mode", <<>>, "value"), Native(d)}
  BY DEF broadcast_tensors_variable_function, dispatch_empty_variadic_tensor_input
<1>6. broadcast_tensors_variable_function(c) = Call(one, "mode", <<>>, "value") => OneInput(c) \/ broadcast_tensors_variable_function(c) = Native(d)
  BY DEF broadcast_tensors_variable_function, dispatch_empty_variadic_tensor_input, IsEmptyTuple
<1> HIDE DEF one, many, b, d
<1>7. OneInput(c) => EntryOK(c, Call(one, "mode", <<>>, "value"))
  BY <1>1, CallEntry
<1>8. EntryOK(c, Native(b)) /\ EntryOK(c, Native(d))
  BY <1>1, <1>2, NativeEntry
<1> QED BY <1>3, <1>4, <1>5, <1>6, <1>7, <1>8

LEMMA DescriptorMethod ==
  ASSUME NEW c, Passes(c)
  PROVE  EntryOK(c, tensor_descriptor(c))
<1> DEFINE none == Rejected.slots
           b == IF c.positional = <<>> /\ DOMAIN c.keywords = {} THEN Bound(none) ELSE Rejected
<1>1. tensor_descriptor(c) = Call(b, "descriptor", <<>>, "value")
  BY DEF tensor_descriptor, dispatch_tensorbase_mode
<1>2. DOMAIN none = {}
  BY DEF Rejected
<1>3. b.ok => c.positional = <<>> /\ DOMAIN c.keywords = {} /\ b.slots = none
  BY DEF Bound, Rejected
<1> HIDE DEF none, b
<1>4. ASSUME c.positional = <<>>, DOMAIN c.keywords = {} PROVE Binds(c, none, {})
  <2>1. ASSUME NEW v
        PROVE  Cardinality(Places(none, v)) = Cardinality(Positions(c, v)) + Cardinality(Keywords(c, v))
    <3>1. DOMAIN <<>> = {}
      OBVIOUS
    <3>2. Places(none, v) = {} /\ Positions(c, v) = {} /\ Keywords(c, v) = {}
      BY <1>2, <1>4, <3>1 DEF Places, PlacesIn, Positions, Keywords
    <3>3. Cardinality({}) = 0
      BY FS_EmptySet
    <3> QED BY <3>2, <3>3
  <2>2. IsFiniteSet({})
    BY FS_EmptySet
  <2>3. Plain(c, none, {})
    BY <1>2, <2>1, <2>2 DEF Plain
  <2> QED BY <2>3, PlainHeld
<1> QED BY <1>1, <1>3, <1>4, CallEntry

LEMMA UnaryEntry ==
  ASSUME NEW c, Passes(c), c.positional # <<>>
  PROVE  EntryOK(c, Unary(c))
<1> DEFINE v == c.positional[1]
           all == _overloaded_unary_arguments(v)
           r == Unary(c)
<1> SUFFICES EntryOK(c, r)
  OBVIOUS
<1>1. Argument(v)
  <2>1. 1 \in DOMAIN c.positional
    BY DEF Passes
  <2> QED BY <2>1 DEF Passes
<1>2. /\ r.form = "unary" /\ r.slots = [input |-> v] /\ r.overrides = all
      /\ r.native \in {"value", "unsupported"}
  BY DEF Unary
<1>3. all = IF v.kind = "override" THEN <<v>> ELSE <<>>
  BY DEF _overloaded_unary_arguments
<1> HIDE DEF v, r, all
<1>4. Orderly(all)
  <2>1. CASE v.kind = "override"
    <3>1. Handled(v)
      BY <1>1, <2>1 DEF Argument, Passable, Handled, probe_torch_function_override
    <3>2. <<v>> \in Seq({v}) /\ ToSet(<<v>>) = {v} /\ DOMAIN <<v>> = {1} /\ <<v>>[1] = v
      BY DEF ToSet
    <3> QED BY <1>3, <2>1, <3>1, <3>2 DEF Orderly
  <2>2. CASE v.kind # "override"
    BY <1>3, <2>2, NobodyOrderly
  <2> QED BY <2>1, <2>2
<1>5. ASSUME NEW u \in Handlers(r) PROVE Lists(all, u)
  <2>1. u.kind = "override" /\ u \in Values(r.slots) \cup UNION {ToSet(Operands(r, name)) : name \in DOMAIN r.slots}
    BY <1>2 DEF Handlers
  <2>2. DOMAIN r.slots = {"input"} /\ r.slots["input"] = v
    BY <1>2
  <2>3. Operands(r, "input") = <<v>>
    BY <2>2 DEF Operands, Has
  <2>4. ToSet(<<v>>) = {v}
    BY DEF ToSet
  <2>5. u = v
    BY <2>1, <2>2, <2>3, <2>4 DEF Values
  <2>6. all = <<v>> /\ 1 \in DOMAIN <<v>> /\ <<v>>[1] = v
    BY <1>3, <2>1, <2>5
  <2> QED BY <2>5, <2>6 DEF Lists
<1> QED BY <1>2, <1>4, <1>5 DEF EntryOK, AllForms, AskingForms

LEMMA VariadicEntry ==
  ASSUME NEW c, Passes(c), "inputs" \notin DOMAIN c.keywords
  PROVE  EntryOK(c, ExactVariadic(c))
<1> DEFINE all == AllPositional(c)
           slots == With(c.keywords, "inputs", all)
           names == DOMAIN c.keywords \cup {"inputs"}
           r == ExactVariadic(c)
<1> SUFFICES EntryOK(c, r)
  OBVIOUS
<1>1. r.form = "variadic" /\ r.overrides = <<>> /\ r.native = "value" /\ r.slots = slots
  BY DEF ExactVariadic
<1> HIDE DEF r
<1>2. Binds(c, slots, names)
  <2>1. /\ IsFiniteSet(DOMAIN c.keywords) /\ \A n \in DOMAIN c.keywords : Argument(c.keywords[n])
    BY DEF Passes
  <2>2. \A v : Cardinality(Places(c.keywords, v)) = Cardinality(Keywords(c, v))
    BY DEF Places, PlacesIn, Keywords
  <2>3. "inputs" # "slot" /\ "inputs" \in names /\ DOMAIN c.keywords \subseteq names
    OBVIOUS
  <2> HIDE DEF names
  <2> QED BY <2>1, <2>2, <2>3, GatheredHeld
<1>3. ASSUME DOMAIN c.keywords = {} PROVE Handlers(r) = {}
  <2>1. DOMAIN r.slots = {"inputs"} /\ r.slots["inputs"] = all
    BY <1>1, <1>3 DEF With
  <2>2. ~probe_torch_function_override(all)
    BY DEF AllPositional, probe_torch_function_override
  <2> HIDE DEF all, slots
  <2>3. Operands(r, "inputs") = <<all>>
    BY <2>1 DEF Operands, Has
  <2>4. ToSet(<<all>>) = {all}
    BY DEF ToSet
  <2> QED BY <1>1, <2>1, <2>2, <2>3, <2>4 DEF Handlers, Values
<1> QED BY <1>1, <1>2, <1>3, NobodyOrderly DEF EntryOK, AllForms, AskingForms, Binds, Accounted

\* Every function does what a call has to.
LEMMA FunctionsOK ==
  ASSUME NEW c, Passes(c)
  PROVE  \A name \in variable_functions : EntryOK(c, variable_function(name, c))
<1>1. EntryOK(c, variable_function("cat", c))
  BY CatEntry DEF variable_function
<1>2. EntryOK(c, variable_function("stack", c))
  BY StackEntry DEF variable_function
<1>3. EntryOK(c, variable_function("vstack", c))
  BY VstackEntry DEF variable_function
<1>4. EntryOK(c, variable_function("adjoint", c))
  BY SingleEntry DEF variable_function, adjoint_variable_function, dispatch_adjoint
<1>5. EntryOK(c, variable_function("positive", c))
  BY SingleEntry DEF variable_function, positive_variable_function, dispatch_single_tensor_override
<1>6. EntryOK(c, variable_function("conj", c))
  BY SingleEntry DEF variable_function, conj_variable_function, dispatch_single_tensor_override
<1>7. EntryOK(c, variable_function("is_conj", c))
  BY SingleEntry DEF variable_function, is_conj_variable_function, dispatch_is_conj
<1>8. EntryOK(c, variable_function("is_inference", c))
  BY SingleEntry DEF variable_function, is_inference_variable_function, dispatch_is_inference
<1>9. EntryOK(c, variable_function("reshape", c))
  BY ReshapeEntry DEF variable_function
<1>10. EntryOK(c, variable_function("sin", c))
  BY UnaryOutEntry DEF variable_function
<1>11. EntryOK(c, variable_function("pow", c))
  BY PowEntry DEF variable_function
<1>12. EntryOK(c, variable_function("sum", c))
  BY SumEntry DEF variable_function
<1>13. EntryOK(c, variable_function("mean", c))
  BY MeanEntry DEF variable_function
<1>14. EntryOK(c, variable_function("unbind", c))
  BY UnbindEntry DEF variable_function
<1>15. EntryOK(c, variable_function("select", c))
  BY SelectEntry DEF variable_function
<1>16. EntryOK(c, variable_function("narrow", c))
  BY NarrowEntry DEF variable_function
<1>17. EntryOK(c, variable_function("chunk", c))
  BY ChunkEntry DEF variable_function
<1>18. EntryOK(c, variable_function("permute", c))
  BY PermuteEntry DEF variable_function
<1>19. EntryOK(c, variable_function("movedim", c))
  BY MovedimEntry DEF variable_function
<1>20. EntryOK(c, variable_function("matmul", c))
  BY MatmulEntry DEF variable_function
<1>21. EntryOK(c, variable_function("mm", c))
  BY MmEntry DEF variable_function
<1>22. EntryOK(c, variable_function("mul", c))
  BY MatmulEntry DEF variable_function
<1>23. EntryOK(c, variable_function("add", c))
  BY AddEntry DEF variable_function
<1>24. EntryOK(c, variable_function("sub", c))
  BY SubEntry DEF variable_function
<1>25. EntryOK(c, variable_function("subtract", c))
  BY SubEntry DEF variable_function
<1>26. EntryOK(c, variable_function("div", c))
  BY DivEntry DEF variable_function
<1>27. EntryOK(c, variable_function("can_cast", c))
  BY CanCastEntry, NamesTwo DEF variable_function, Alias
<1>28. EntryOK(c, variable_function("unsqueeze", c))
  BY UnsqueezeEntry DEF variable_function
<1>29. EntryOK(c, variable_function("zeros_like", c))
  BY LikeEntry DEF variable_function
<1>30. EntryOK(c, variable_function("full_like", c))
  BY LikeEntry DEF variable_function
<1>31. EntryOK(c, variable_function("arange", c))
  BY ArangeEntry DEF variable_function
<1>32. EntryOK(c, variable_function("as_tensor", c))
  BY ConversionEntry DEF variable_function
<1>33. EntryOK(c, variable_function("asarray", c))
  BY ConversionEntry DEF variable_function
<1>34. EntryOK(c, variable_function("scalar_tensor", c))
  BY ScalarTensorEntry DEF variable_function
<1>35. EntryOK(c, variable_function("atleast_1d", c))
  BY TupleEntry DEF variable_function
<1>36. EntryOK(c, variable_function("broadcast_tensors", c))
  BY TupleEntry DEF variable_function
<1> QED BY <1>1, <1>2, <1>3, <1>4, <1>5, <1>6, <1>7, <1>8, <1>9, <1>10, <1>11, <1>12, <1>13,
           <1>14, <1>15, <1>16, <1>17, <1>18, <1>19, <1>20, <1>21, <1>22, <1>23, <1>24,
           <1>25, <1>26, <1>27, <1>28, <1>29, <1>30, <1>31, <1>32, <1>33, <1>34, <1>35,
           <1>36 DEF variable_functions

\* So does every function that takes tensors alone or makes them,
LEMMA ModuleOK ==
  ASSUME NEW c, Passes(c)
  PROVE  \A name \in module_functions : EntryOK(c, module_function(name, c))
<1>1. EntryOK(c, module_function("relu", c))
  BY ReluEntry DEF module_function
<1>2. EntryOK(c, module_function("is_same_size", c))
  BY SameSizeEntry DEF module_function
<1>3. EntryOK(c, module_function("equal", c))
  BY EqualEntry DEF module_function
<1>4. EntryOK(c, module_function("allclose", c))
  BY AllcloseEntry DEF module_function
<1>5. EntryOK(c, module_function("transpose", c))
  BY SwapEntry DEF module_function
<1>6. EntryOK(c, module_function("squeeze", c))
  BY TopSqueezeEntry DEF module_function
<1>7. EntryOK(c, module_function("flatten", c))
  BY TopFlattenEntry DEF module_function
<1>8. EntryOK(c, module_function("empty", c))
  BY EmptyEntry DEF module_function
<1>9. EntryOK(c, module_function("zeros", c))
  BY EmptyEntry DEF module_function
<1>10. EntryOK(c, module_function("full", c))
  BY FullEntry DEF module_function
<1>11. EntryOK(c, module_function("eye", c))
  BY EyeEntry DEF module_function
<1> QED BY <1>1, <1>2, <1>3, <1>4, <1>5, <1>6, <1>7, <1>8, <1>9, <1>10, <1>11 DEF module_functions

\* and every method, but view, which may forget arguments.
LEMMA MethodsOK ==
  ASSUME NEW c, Passes(c)
  PROVE  \A name \in tensor_methods \ {"view"} : EntryOK(c, tensor_method(name, c))
<1>1. EntryOK(c, tensor_method("unsqueeze", c))
  BY UnsqueezeMethod DEF tensor_method
<1>2. EntryOK(c, tensor_method("unbind", c))
  BY UnbindMethod DEF tensor_method
<1>3. EntryOK(c, tensor_method("select", c))
  BY SelectMethod DEF tensor_method
<1>4. EntryOK(c, tensor_method("narrow", c))
  BY NarrowMethod DEF tensor_method
<1>5. EntryOK(c, tensor_method("chunk", c))
  BY ChunkMethod DEF tensor_method
<1>6. EntryOK(c, tensor_method("movedim", c))
  BY MovedimMethod DEF tensor_method
<1>8. EntryOK(c, tensor_method("permute", c))
  BY PermuteMethod DEF tensor_method
<1>9. EntryOK(c, tensor_method("reshape_as", c))
  BY ReshapeAsMethod DEF tensor_method
<1>10. EntryOK(c, tensor_method("view_as", c))
  BY ViewAsMethod DEF tensor_method
<1>11. EntryOK(c, tensor_method("matmul", c))
  BY MatmulMethod DEF tensor_method
<1>12. EntryOK(c, tensor_method("pow", c))
  BY PowMethod DEF tensor_method
<1>13. EntryOK(c, tensor_method("__pow__", c))
  BY DunderMethod DEF tensor_method
<1>14. EntryOK(c, tensor_method("mul", c))
  BY MulMethod DEF tensor_method
<1>15. EntryOK(c, tensor_method("div", c))
  BY DivMethod DEF tensor_method
<1>16. EntryOK(c, tensor_method("add", c))
  BY AddMethod DEF tensor_method
<1>17. EntryOK(c, tensor_method("sub", c))
  BY SubMethod DEF tensor_method
<1>18. EntryOK(c, tensor_method("subtract", c))
  BY SubtractMethod DEF tensor_method
<1>19. EntryOK(c, tensor_method("split", c))
  BY SplitMethod DEF tensor_method
<1>20. EntryOK(c, tensor_method("transpose", c))
  BY SwapEntry DEF tensor_method
<1>21. EntryOK(c, tensor_method("squeeze", c))
  BY SqueezeMethod DEF tensor_method
<1>22. EntryOK(c, tensor_method("flatten", c))
  BY FlattenMethod DEF tensor_method
<1>23. EntryOK(c, tensor_method("allclose", c))
  BY AllcloseEntry DEF tensor_method
<1>24. EntryOK(c, tensor_method("sum", c))
  BY SumMethod DEF tensor_method
<1>25. EntryOK(c, tensor_method("mean", c))
  BY MeanMethod DEF tensor_method
<1>26. EntryOK(c, tensor_method("size", c))
  BY SizeMethod DEF tensor_method
<1>27. EntryOK(c, tensor_method("sin", c))
  BY DescriptorMethod DEF tensor_method
<1>28. EntryOK(c, tensor_method("to", c))
  BY ToMethod DEF tensor_method
<1> QED BY <1>1, <1>2, <1>3, <1>4, <1>5, <1>6, <1>8, <1>9, <1>10, <1>11, <1>12, <1>13,
           <1>14, <1>15, <1>16, <1>17, <1>18, <1>19, <1>20, <1>21, <1>22, <1>23, <1>24,
           <1>25, <1>26, <1>27, <1>28 DEF tensor_methods

\* What holds of an entry holds of the call made of it.
LEMMA MadeOK ==
  ASSUME NEW given, Callable(given)
  PROVE  EntryOK(Counted(given), Made(given))
<1> DEFINE c == given.arguments
           d == Counted(given)
           r == Entry(given)
           m == Made(given)
<1>1. Passes(c)
  BY DEF Callable
<1>2. EntryOK(d, r)
  <2> DEFINE view == given.of = "method" /\ given.name = "view"
  <2>1. ~view => d = c
    BY DEF Counted, ShapeAlone
  <2> HIDE DEF d
  <2>2. CASE given.of = "function"
    <3>1. r = variable_function(given.name, c) /\ given.name \in variable_functions
      BY <2>2 DEF Entry, Callable
    <3> QED BY <1>1, <2>1, <2>2, <3>1, FunctionsOK
  <2>3. CASE given.of = "module"
    <3>1. r = module_function(given.name, c) /\ given.name \in module_functions
      BY <2>3 DEF Entry, Callable
    <3> QED BY <1>1, <2>1, <2>3, <3>1, ModuleOK
  <2>4. CASE given.of = "method"
    <3>1. r = tensor_method(given.name, c) /\ given.name \in tensor_methods
      BY <2>4 DEF Entry, Callable
    <3>2. CASE given.name = "view"
      <4>1. r = tensor_view(c)
        BY <3>1, <3>2 DEF tensor_method
      <4> QED BY <1>1, <2>4, <3>2, <4>1, ViewMethod DEF d
    <3>3. CASE given.name # "view"
      BY <1>1, <2>1, <3>1, <3>3, MethodsOK
    <3> QED BY <3>2, <3>3
  <2>5. CASE given.of = "unary"
    <3>1. r = Unary(c) /\ c.positional # <<>>
      BY <2>5 DEF Entry, Callable
    <3> QED BY <1>1, <2>1, <2>5, <3>1, UnaryEntry
  <2>6. CASE given.of = "variadic"
    <3>1. r = ExactVariadic(c) /\ "inputs" \notin DOMAIN c.keywords
      BY <2>6 DEF Entry, Callable
    <3> QED BY <1>1, <2>1, <2>6, <3>1, VariadicEntry
  <2> QED BY <2>2, <2>3, <2>4, <2>5, <2>6 DEF Callable
<1>3. /\ m.ok = r.ok /\ m.slots = r.slots /\ m.form = r.form
      /\ m.overrides = r.overrides /\ m.native = r.native
  BY DEF Made
<1> SUFFICES EntryOK(d, m)
  OBVIOUS
<1> HIDE DEF c, d, r, m
<1>4. Handlers(m) = Handlers(r)
  <2>1. \A name : Operands(m, name) = Operands(r, name)
    BY <1>3 DEF Operands, Has
  <2> QED BY <1>3, <2>1 DEF Handlers
<1> QED BY <1>2, <1>3, <1>4 DEF EntryOK

\* Every keyword counts, and of what is made of a call what counts of the call.
LEMMA CountedFacts ==
  /\ \A given : Counted(given).keywords = given.arguments.keywords
  /\ \A given : Counted(Made(given)) = Counted(given)
BY DEF Counted, ShapeAlone, Made


-----------------------------------------------------------------------------
(***************************************************************************)
(* Every call that is under way, and the one that ended last, is one that  *)
(* its entry made of some arguments.  While a call is under way, those it  *)
(* asked and those it has left are together those it lists; and a call of  *)
(* many tensors whose fallback was taken has no keywords.                  *)
(***************************************************************************)
AskedFrame(f) ==
  "call" \in DOMAIN f =>
    /\ f.call.ok /\ EntryOK(Counted(f.call), f.call) /\ f.call.form \notin {"native", "guarded"}
    /\ f.asked \in Seq(ToSet(f.call.overrides)) /\ f.left \in Seq(ToSet(f.call.overrides))
    /\ f.asked \o f.left = f.call.overrides
    /\ f.call.form = "variadic" /\ ~f.tensor => DOMAIN f.call.arguments.keywords = {}

Asking(s) == \A i \in DOMAIN s : AskedFrame(s[i])

Ended(o) ==
  o # NoOutcome =>
    /\ EntryOK(Counted(o.call), o.call)
    /\ o.result # "rejected" => o.call.ok
    /\ o.result # "panic"
    /\ o.result \in {"refused", "declined"} => \A v \in Handlers(o.call) : Lists(o.asked, v)
    /\ o.call.form \in {"dunder", "unbound"} /\ o.result \in {"value", "unsupported"} =>
         o.call.native = o.result

AskInv == Asking(frames) /\ Ended(outcome)

LEMMA AskingFront ==
  ASSUME NEW s, s \in Seq(Range(s)), s # <<>>, Asking(s)
  PROVE  Asking(Front(s)) /\ AskedFrame(Last(s))
<1>1. /\ Front(s) \in Seq(Range(s)) /\ Len(Front(s)) = Len(s) - 1 /\ Len(s) \in Nat \ {0}
      /\ \A i \in 1..(Len(s) - 1) : Front(s)[i] = s[i]
      /\ Last(s) = s[Len(s)]
  BY FrontAppend
<1>2. DOMAIN s = 1..Len(s) /\ DOMAIN Front(s) = 1..(Len(s) - 1)
  BY <1>1
<1> QED BY <1>1, <1>2 DEF Asking

LEMMA AskingAppend ==
  ASSUME NEW s, s \in Seq(Range(s)), Asking(s), NEW f, AskedFrame(f)
  PROVE  Asking(Append(s, f))
<1> DEFINE a == Append(s, f)
<1>1. /\ a \in Seq(Range(s) \cup {f}) /\ Len(a) = Len(s) + 1 /\ a[Len(s) + 1] = f
      /\ \A i \in 1..Len(s) : a[i] = s[i]
      /\ Len(s) \in Nat /\ DOMAIN s = 1..Len(s)
  BY AppendBlocks
<1>2. DOMAIN a = 1..(Len(s) + 1)
  BY <1>1
<1> HIDE DEF a
<1>3. ASSUME NEW i \in DOMAIN a PROVE AskedFrame(a[i])
  <2>1. CASE i \in 1..Len(s)
    BY <1>1, <2>1 DEF Asking
  <2>2. CASE i = Len(s) + 1
    BY <1>1, <2>2
  <2> QED BY <1>1, <1>2, <2>1, <2>2
<1> QED BY <1>3 DEF Asking, a

\* What the innermost attempt is known to be.
LEMMA InnermostAsked ==
  ASSUME TorchInv, AskInv, Attempt
  PROVE  /\ Asking(Front(frames)) /\ AskedFrame(Last(frames)) /\ "call" \in DOMAIN Last(frames)
         /\ AttemptOK(Last(frames)) /\ Front(frames) \in Seq(Range(Front(frames)))
BY InnermostAttempt, AskingFront DEF TorchInv, Nested, AskInv, Attempt

LEMMA OverAsked ==
  ASSUME TorchInv, AskInv, Attempt, NEW result \in {"returned", "raised", "refused", "declined"},
         Over(result),
         result \in {"refused", "declined"} =>
           \A v \in Handlers(Last(frames).call) : Lists(Last(frames).asked, v)
  PROVE  AskInv'
<1> DEFINE f == Last(frames)
           o == Ends(f.call, result, f.asked)
<1>1. Asking(Front(frames)) /\ f.call.ok /\ EntryOK(Counted(f.call), f.call)
  BY InnermostAsked DEF AskedFrame
<1>2. frames' = Front(frames) /\ outcome' = o
  BY DEF Over
<1>3. o.call = f.call /\ o.result = result /\ o.asked = f.asked
  BY DEF Ends
<1> HIDE DEF o
<1>4. Ended(o)
  BY <1>1, <1>3 DEF Ended
<1> QED BY <1>1, <1>2, <1>4 DEF AskInv

LEMMA GoesOnAsked ==
  ASSUME TorchInv, AskInv, Attempt, NEW g, AskedFrame(g),
         frames' = Append(Front(frames), g), outcome' = NoOutcome
  PROVE  AskInv'
<1>1. Asking(Append(Front(frames), g))
  BY InnermostAsked, AskingAppend
<1> QED BY <1>1 DEF AskInv, Ended

LEMMA TriesAsked ==
  ASSUME TorchInv, AskInv, Attempt, NEW retries, NEW tensor \in BOOLEAN,
         TriesAgain(retries, tensor),
         Last(frames).call.form = "variadic" /\ ~tensor =>
           DOMAIN Last(frames).call.arguments.keywords = {}
  PROVE  AskInv'
<1> DEFINE f == Last(frames)
           g == [f EXCEPT !.retries = retries, !.tensor = tensor]
<1>1. AskedFrame(f) /\ "call" \in DOMAIN f /\ AttemptOK(f)
  BY InnermostAsked
<1>2. /\ g.call = f.call /\ g.asked = f.asked /\ g.left = f.left /\ g.tensor = tensor
      /\ "call" \in DOMAIN g
  BY <1>1 DEF AttemptOK, AttemptFields
<1>3. frames' = Append(Front(frames), g) /\ outcome' = NoOutcome
  BY DEF TriesAgain
<1> HIDE DEF g
<1>4. AskedFrame(g)
  BY <1>1, <1>2 DEF AskedFrame
<1> QED BY <1>3, <1>4, GoesOnAsked

LEMMA AsksAsked ==
  ASSUME TorchInv, AskInv, Attempt, AsksNext, Last(frames).left # <<>>
  PROVE  AskInv'
<1> DEFINE f == Last(frames)
           g == [f EXCEPT !.asking = "override", !.asked = Append(@, Head(f.left)),
                          !.left = Tail(@)]
           S == ToSet(f.call.overrides)
<1>1. AskedFrame(f) /\ "call" \in DOMAIN f /\ AttemptOK(f)
  BY InnermostAsked
<1>2. /\ g.call = f.call /\ g.asked = Append(f.asked, Head(f.left)) /\ g.left = Tail(f.left)
      /\ g.tensor = f.tensor /\ "call" \in DOMAIN g
  BY <1>1 DEF AttemptOK, AttemptFields
<1>3. frames' = Append(Front(frames), g) /\ outcome' = NoOutcome
  BY DEF AsksNext
<1>4. f.left # <<>> /\ f.left \in Seq(S) /\ f.asked \in Seq(S)
  BY <1>1 DEF AskedFrame
<1>5. /\ Append(f.asked, Head(f.left)) \in Seq(S) /\ Tail(f.left) \in Seq(S)
      /\ Append(f.asked, Head(f.left)) \o Tail(f.left) = f.asked \o f.left
  <2>1. ASSUME NEW T, NEW a \in Seq(T), NEW l \in Seq(T), l # <<>>
        PROVE  /\ Append(a, Head(l)) \in Seq(T) /\ Tail(l) \in Seq(T)
               /\ Append(a, Head(l)) \o Tail(l) = a \o l
    <3> DEFINE h == Append(a, Head(l))
               r == Tail(l)
               x == h \o r
               y == a \o l
    <3>1. /\ h \in Seq(T) /\ Len(h) = Len(a) + 1 /\ Len(a) \in Nat /\ Len(l) \in Nat \ {0}
          /\ h[Len(a) + 1] = l[1] /\ \A i \in 1..Len(a) : h[i] = a[i]
      BY <2>1
    <3>2. /\ r \in Seq(T) /\ Len(r) = Len(l) - 1
          /\ \A i \in 1..(Len(l) - 1) : r[i] = l[i + 1]
      BY <2>1
    <3> HIDE DEF h, r
    <3>3. /\ x \in Seq(T) /\ Len(x) = Len(a) + Len(l)
          /\ \A i \in 1..(Len(a) + Len(l)) :
               x[i] = IF i <= Len(a) + 1 THEN h[i] ELSE r[i - (Len(a) + 1)]
      <4>1. Len(h) \in Nat /\ Len(r) \in Nat /\ Len(h) + Len(r) = Len(a) + Len(l)
        BY <3>1, <3>2
      <4>2. /\ x \in Seq(T) /\ Len(x) = Len(h) + Len(r)
            /\ \A i \in 1..(Len(h) + Len(r)) : x[i] = IF i <= Len(h) THEN h[i] ELSE r[i - Len(h)]
        <5>1. h \in Seq(T) /\ r \in Seq(T)
          BY <3>1, <3>2
        <5> QED BY <5>1
      <4> HIDE DEF x
      <4> QED BY <3>1, <4>1, <4>2
    <3>4. /\ y \in Seq(T) /\ Len(y) = Len(a) + Len(l)
          /\ \A i \in 1..(Len(a) + Len(l)) : y[i] = IF i <= Len(a) THEN a[i] ELSE l[i - Len(a)]
      OBVIOUS
    <3> HIDE DEF x, y
    <3>5. ASSUME NEW i \in 1..(Len(a) + Len(l)) PROVE x[i] = y[i]
      <4>1. CASE i <= Len(a)
        <5>1. i \in 1..Len(a) /\ i <= Len(a) + 1
          BY <3>1, <4>1
        <5> QED BY <3>1, <3>3, <3>4, <4>1, <5>1
      <4>2. CASE i = Len(a) + 1
        <5>1. i <= Len(a) + 1 /\ ~(i <= Len(a)) /\ i - Len(a) = 1
          BY <3>1, <4>2
        <5>2. x[i] = h[i] /\ y[i] = l[i - Len(a)]
          BY <3>3, <3>4, <5>1
        <5> QED BY <3>1, <4>2, <5>1, <5>2
      <4>3. CASE i > Len(a) + 1
        <5>1. /\ i - (Len(a) + 1) \in 1..(Len(l) - 1)
              /\ i - (Len(a) + 1) + 1 = i - Len(a)
          BY <3>1, <4>3
        <5>2. /\ ~(i <= Len(a) + 1) /\ ~(i <= Len(a))
          BY <3>1, <4>3
        <5>3. x[i] = r[i - (Len(a) + 1)] /\ y[i] = l[i - Len(a)]
          BY <3>3, <3>4, <5>2
        <5> QED BY <3>2, <5>1, <5>3
      <4> QED BY <3>1, <4>1, <4>2, <4>3
    <3>6. x = y
      BY <3>3, <3>4, <3>5
    <3> QED BY <3>1, <3>2, <3>6 DEF x, y, h, r
  <2> HIDE DEF f, S
  <2> QED BY <1>4, <2>1
<1> HIDE DEF g
<1>6. AskedFrame(g)
  BY <1>1, <1>2, <1>5 DEF AskedFrame
<1> QED BY <1>3, <1>6, GoesOnAsked

\* An attempt that has asked all there is to ask may be given up.
LEMMA AllAsked ==
  ASSUME NEW f, AskedFrame(f), "call" \in DOMAIN f, f.left = <<>>,
         f.call.form \in AskingForms \cup {"mode", "unbound"}
  PROVE  \A v \in Handlers(f.call) : Lists(f.asked, v)
<1> DEFINE S == ToSet(f.call.overrides)
<1>1. f.asked = f.call.overrides
  <2>1. f.asked \in Seq(S) /\ f.asked \o <<>> = f.call.overrides
    BY DEF AskedFrame
  <2>2. f.asked \o <<>> = f.asked
    BY <2>1
  <2> QED BY <2>1, <2>2
<1>2. EntryOK(Counted(f.call), f.call) /\ f.call.ok /\ f.call.form \in AllForms
  BY DEF AskedFrame, EntryOK
<1>3. CASE f.call.form \in AskingForms
  BY <1>1, <1>2, <1>3 DEF EntryOK
<1>4. CASE f.call.form \in {"mode", "unbound"}
  BY <1>4 DEF Handlers
<1> QED BY <1>3, <1>4

LEMMA DeclinedAsked ==
  ASSUME TorchInv, AskInv, Attempt, Last(frames).call.form \in AskingForms \cup {"mode", "unbound"},
         dispatch_torch_function_declined(Last(frames))
  PROVE  AskInv'
<1>1. CASE Last(frames).left # <<>>
  BY <1>1, AsksAsked DEF dispatch_torch_function_declined
<1>2. CASE Last(frames).left = <<>>
  BY <1>2, AllAsked, InnermostAsked, OverAsked DEF dispatch_torch_function_declined
<1> QED BY <1>1, <1>2

LEMMA DeclinesAsked ==
  ASSUME TorchInv, AskInv, Declines
  PROVE  AskInv'
<1> DEFINE f == Last(frames)
<1>1. Attempt
  BY DEF Declines
<1>2. AskedFrame(f) /\ "call" \in DOMAIN f /\ f.tensor \in BOOLEAN
  BY <1>1, InnermostAsked DEF AttemptOK
<1>3. /\ f.call.ok /\ EntryOK(Counted(f.call), f.call) /\ f.call.form \in AllForms
      /\ f.call.form \notin {"native", "guarded"}
      /\ f.call.form = "variadic" /\ ~f.tensor => DOMAIN f.call.arguments.keywords = {}
  BY <1>2 DEF AskedFrame, EntryOK
<1>4. ASSUME Recurses(f) PROVE AskInv'
  BY <1>1, <1>2, <1>3, <1>4, TriesAsked, OverAsked DEF Recurses
<1>5. CASE f.call.form \in {"function", "dunder", "mode", "unbound"}
  BY <1>1, <1>5, DeclinedAsked DEF Declines, AskingForms
<1>6. CASE f.call.form = "descriptor"
  BY <1>4, <1>6 DEF Declines
<1>7. CASE f.call.form = "unary"
  <2>1. _dispatch_unary_torch_function_declined(f)
    BY <1>7 DEF Declines
  <2>2. CASE TriesAgain(f.retries, FALSE)
    BY <1>1, <1>7, <2>2, TriesAsked
  <2>3. CASE dispatch_torch_function_declined(f)
    BY <1>1, <1>7, <2>3, DeclinedAsked DEF AskingForms
  <2> QED BY <2>1, <2>2, <2>3 DEF _dispatch_unary_torch_function_declined
<1>8. CASE f.call.form = "variadic"
  <2>1. _dispatch_exact_native_variadic_torch_function_declined(f)
    BY <1>8 DEF Declines
  <2>2. CASE f.tensor /\ DOMAIN f.call.arguments.keywords = {} /\ TriesAgain(f.retries, FALSE)
    BY <1>1, <2>2, TriesAsked
  <2>3. CASE ~f.tensor /\ Over("refused")
    <3>1. Handlers(f.call) = {}
      BY <1>3, <1>8, <2>3, CountedFacts DEF EntryOK
    <3> QED BY <1>1, <2>3, <3>1, OverAsked
  <2> QED BY <1>2, <1>4, <2>1, <2>2, <2>3
          DEF _dispatch_exact_native_variadic_torch_function_declined
<1> QED BY <1>3, <1>5, <1>6, <1>7, <1>8 DEF AllForms

LEMMA RunsAsked ==
  ASSUME TorchInv, AskInv, NEW c, Callable(c), Runs(Made(c))
  PROVE  AskInv'
<1> DEFINE m == Made(c)
           result == CASE ~m.ok -> "rejected"
                       [] m.ok /\ Overridable(m) -> "raised"
                       [] m.ok /\ m.form = "guarded" /\ ~is_empty -> "unsupported"
                       [] OTHER -> m.native
           o == Ends(m, result, <<>>)
<1>1. EntryOK(Counted(m), m)
  BY MadeOK, CountedFacts
<1>2. frames' = frames /\ outcome' = o
  BY DEF Runs
<1> HIDE DEF m
<1>3. /\ ~m.ok => result = "rejected"
      /\ m.ok /\ Overridable(m) => result = "raised"
      /\ m.ok /\ ~Overridable(m) /\ m.form = "guarded" => result \in {"unsupported", m.native}
      /\ m.ok /\ ~Overridable(m) /\ m.form # "guarded" => result = m.native
  <2>1. CASE ~m.ok
    <3>1. result = "rejected"
      BY <2>1
    <3> HIDE DEF result
    <3> QED BY <2>1, <3>1
  <2>2. CASE m.ok /\ Overridable(m)
    <3>1. m.form # "guarded"
      BY <2>2 DEF Overridable
    <3>2. result = "raised"
      BY <2>2, <3>1
    <3> HIDE DEF result
    <3> QED BY <2>2, <3>1, <3>2
  <2>3. CASE m.ok /\ ~Overridable(m) /\ m.form = "guarded" /\ ~is_empty
    <3>1. result = "unsupported"
      BY <2>3
    <3> QED BY <2>3, <3>1
  <2>4. CASE m.ok /\ ~Overridable(m) /\ ~(m.form = "guarded" /\ ~is_empty)
    <3>1. result = m.native
      BY <2>4
    <3> HIDE DEF result
    <3> QED BY <2>4, <3>1
  <2> QED BY <2>1, <2>2, <2>3, <2>4
<1> HIDE DEF result
<1>4. o.call = m /\ o.result = result /\ o.asked = <<>>
  BY DEF Ends
<1> SUFFICES Ended(o)
  BY <1>2 DEF AskInv
<1> HIDE DEF o
<1>5. CASE ~m.ok
  BY <1>1, <1>3, <1>4, <1>5 DEF Ended
<1>6. CASE m.ok /\ Overridable(m)
  BY <1>1, <1>3, <1>4, <1>6 DEF Ended
<1>7. CASE m.ok /\ ~Overridable(m)
  <2>1. /\ m.native \in {"value", "unsupported", "panic", "declined", "rejected"}
        /\ m.native = "panic" => m.form = "function" /\ m.overrides # <<>>
        /\ m.native = "declined" => m.form = "dunder"
        /\ m.form \in AskingForms => \A v \in Handlers(m) : Lists(m.overrides, v)
    BY <1>1, <1>7 DEF EntryOK
  <2>2. m.form \in {"function", "dunder"} => m.overrides = <<>>
    BY <1>7 DEF Overridable
  <2>3. m.native # "panic"
    BY <2>1, <2>2
  <2>4. m.native = "declined" => \A v \in Handlers(m) : Lists(<<>>, v)
    BY <2>1, <2>2 DEF AskingForms
  <2>5. /\ result \in {"value", "unsupported", "declined", "rejected"}
        /\ result = "declined" => m.native = "declined"
        /\ m.form # "guarded" => result = m.native
    BY <1>3, <1>7, <2>1, <2>3
  <2> QED BY <1>1, <1>4, <1>7, <2>4, <2>5 DEF Ended
<1> QED BY <1>5, <1>6, <1>7

LEMMA FirstAndRest ==
  ASSUME NEW S, NEW s \in Seq(S), s # <<>>
  PROVE  /\ SubSeq(s, 1, 1) \in Seq(S) /\ SubSeq(s, 2, Len(s)) \in Seq(S)
         /\ SubSeq(s, 1, 1) \o SubSeq(s, 2, Len(s)) = s
<1> DEFINE a == SubSeq(s, 1, 1)
           l == SubSeq(s, 2, Len(s))
<1>1. /\ a \in Seq(S) /\ Len(a) = 1 /\ a[1] = s[1] /\ Len(s) \in Nat \ {0}
  OBVIOUS
<1>2. /\ l \in Seq(S) /\ Len(l) = Len(s) - 1 /\ \A i \in 1..(Len(s) - 1) : l[i] = s[i + 1]
  OBVIOUS
<1> HIDE DEF a, l
<1> DEFINE x == a \o l
<1>3. /\ x \in Seq(S) /\ Len(x) = Len(s)
      /\ \A i \in 1..Len(s) : x[i] = IF i <= 1 THEN a[i] ELSE l[i - 1]
  <2>1. /\ x \in Seq(S) /\ Len(x) = Len(a) + Len(l)
        /\ \A i \in 1..(Len(a) + Len(l)) : x[i] = IF i <= Len(a) THEN a[i] ELSE l[i - Len(a)]
    <3>1. a \in Seq(S) /\ l \in Seq(S)
      BY <1>1, <1>2
    <3> QED BY <3>1
  <2>2. Len(a) = 1 /\ Len(a) + Len(l) = Len(s)
    BY <1>1, <1>2
  <2> HIDE DEF x
  <2> QED BY <2>1, <2>2
<1> HIDE DEF x
<1>4. ASSUME NEW i \in 1..Len(s) PROVE x[i] = s[i]
  <2>1. CASE i = 1
    BY <1>1, <1>3, <2>1
  <2>2. CASE i > 1
    <3>1. i - 1 \in 1..(Len(s) - 1) /\ i - 1 + 1 = i /\ ~(i <= 1)
      BY <1>1, <2>2
    <3> QED BY <1>2, <1>3, <3>1
  <2> QED BY <2>1, <2>2
<1>5. x = s
  BY <1>3, <1>4
<1> QED BY <1>1, <1>2, <1>5 DEF a, l, x

LEMMA AttemptsAsked ==
  ASSUME TorchInv, AskInv, NEW c, Callable(c), Attempts(Made(c))
  PROVE  AskInv'
<1> DEFINE m == Made(c)
           mode == IF is_empty THEN NoMode ELSE Last(modes)
           f == Tried(m, mode)
           o == Ends(m, "refused", <<>>)
<1>1. EntryOK(Counted(m), m)
  BY MadeOK, CountedFacts
<1>2. /\ m.ok /\ Overridable(m)
      /\ \/ mode = NoMode /\ m.overrides = <<>> /\ outcome' = o /\ frames' = frames
         \/ /\ mode = NoMode => m.overrides # <<>>
            /\ frames' = Append(frames, f) /\ outcome' = NoOutcome
  BY DEF Attempts
<1>3. is_empty \/ mode # NoMode
  BY FrontAppend, TorchConstants DEF TorchInv, Nested, is_empty
<1>4. f = Tried(m, mode)
  OBVIOUS
<1>5. o.call = m /\ o.result = "refused" /\ o.asked = <<>>
  BY DEF Ends
<1>6. m.overrides \in Seq(ToSet(m.overrides)) /\ m.form \in AllForms
  BY <1>1, <1>2 DEF EntryOK, Orderly
<1> HIDE DEF m, mode, f, o
<1>7. CASE mode = NoMode /\ m.overrides = <<>> /\ outcome' = o /\ frames' = frames
  <2>1. m.form \in AskingForms
    BY <1>2, <1>3, <1>6, <1>7 DEF Overridable, AllForms, AskingForms
  <2>2. \A v \in Handlers(m) : Lists(<<>>, v)
    BY <1>1, <1>2, <1>7, <2>1 DEF EntryOK
  <2>3. Ended(o)
    BY <1>1, <1>2, <1>5, <2>2 DEF Ended
  <2> QED BY <1>7, <2>3 DEF AskInv
<1>8. CASE /\ mode = NoMode => m.overrides # <<>>
           /\ frames' = Append(frames, f) /\ outcome' = NoOutcome
  <2> DEFINE s == m.overrides
  <2>1. /\ f.call = m /\ f.tensor = InPython(m.form)
        /\ f.asked = IF mode = NoMode THEN SubSeq(s, 1, 1) ELSE <<>>
        /\ f.left = IF mode = NoMode THEN SubSeq(s, 2, Len(s)) ELSE s
    BY <1>4 DEF Tried
  <2>2. s \in Seq(ToSet(s)) /\ (mode = NoMode => s # <<>>)
    BY <1>6, <1>8
  <2>3. /\ m.form \notin {"native", "guarded"}
        /\ ~(m.form = "variadic" /\ ~InPython(m.form))
    BY <1>2, <1>6 DEF Overridable, AllForms, InPython
  <2>4. m.overrides = s
    OBVIOUS
  <2> HIDE DEF s
  <2>5. f.asked \in Seq(ToSet(s)) /\ f.left \in Seq(ToSet(s)) /\ f.asked \o f.left = s
    <3>1. CASE mode = NoMode
      <4>1. f.asked = SubSeq(s, 1, 1) /\ f.left = SubSeq(s, 2, Len(s))
        BY <2>1, <2>4, <3>1
      <4>2. /\ SubSeq(s, 1, 1) \in Seq(ToSet(s)) /\ SubSeq(s, 2, Len(s)) \in Seq(ToSet(s))
            /\ SubSeq(s, 1, 1) \o SubSeq(s, 2, Len(s)) = s
        BY <2>2, <3>1, FirstAndRest
      <4> QED BY <4>1, <4>2, Zenon
    <3>2. CASE mode # NoMode
      <4>1. f.asked = <<>> /\ f.left = s
        BY <2>1, <2>4, <3>2
      <4>2. <<>> \in Seq(ToSet(s)) /\ <<>> \o s = s
        BY <2>2
      <4> QED BY <2>2, <4>1, <4>2, Zenon
    <3> QED BY <3>1, <3>2
  <2>6. AskedFrame(f)
    BY <1>1, <1>2, <2>1, <2>3, <2>4, <2>5 DEF AskedFrame
  <2>7. frames \in Seq(Range(frames)) /\ Asking(frames)
    BY DEF TorchInv, Nested, AskInv
  <2>8. Asking(Append(frames, f))
    BY <2>6, <2>7, AskingAppend
  <2> QED BY <1>8, <2>8 DEF AskInv, Ended
<1> QED BY <1>2, <1>7, <1>8

LEMMA ScopesAsked ==
  ASSUME TorchInv, AskInv, (\E m : _push_mode(m)) \/ _pop_mode
  PROVE  AskInv'
<1>1. frames \in Seq(Range(frames)) /\ Asking(frames)
  BY DEF TorchInv, Nested, AskInv
<1>2. ASSUME NEW m, _push_mode(m) PROVE AskInv'
  <2> DEFINE f == [scope |-> m, before |-> modes]
  <2>1. AskedFrame(f)
    BY DEF AskedFrame
  <2>2. frames' = Append(frames, f) /\ outcome' = NoOutcome
    BY <1>2 DEF _push_mode
  <2> HIDE DEF f
  <2>3. Asking(Append(frames, f))
    BY <1>1, <2>1, AskingAppend
  <2> QED BY <2>2, <2>3 DEF AskInv, Ended
<1>3. CASE _pop_mode
  <2>1. frames # <<>> /\ frames' = Front(frames) /\ outcome' = NoOutcome
    BY <1>3 DEF _pop_mode
  <2>2. Asking(Front(frames))
    BY <1>1, <2>1, AskingFront
  <2> QED BY <2>1, <2>2 DEF AskInv, Ended
<1> QED BY <1>2, <1>3

LEMMA NextAsked ==
  /\ TorchInv /\ AskInv
  /\ [\/ TorchStep(ArgumentCalls, 1, ArgumentModes, 2)
      \/ TorchStep(ModeCalls, MaxModeCalls, Modes, MaxFrames)]_torchVars
  => AskInv'
<1> SUFFICES ASSUME TorchInv, AskInv,
                    [\/ TorchStep(ArgumentCalls, 1, ArgumentModes, 2)
                     \/ TorchStep(ModeCalls, MaxModeCalls, Modes, MaxFrames)]_torchVars
             PROVE  AskInv'
  OBVIOUS
<1>1. CASE UNCHANGED torchVars
  BY <1>1 DEF torchVars, AskInv
<1>2. ASSUME NEW calls, \A some \in calls : \A c \in some : Callable(c),
             NEW limit, NEW entered, NEW depth, TorchStep(calls, limit, entered, depth)
      PROVE  AskInv'
  <2>1. ASSUME NEW c, Callable(c), Begins(c) PROVE AskInv'
    <3>1. Runs(Made(c)) \/ Attempts(Made(c))
      BY <2>1 DEF Begins
    <3> QED BY <2>1, <3>1, RunsAsked, AttemptsAsked
  <2>2. CASE (\E m : _push_mode(m)) \/ _pop_mode
    BY <2>2, ScopesAsked
  <2>3. CASE Returns \/ Raises
    BY <2>3, OverAsked DEF Returns, Raises
  <2>4. CASE Declines
    BY <2>4, DeclinesAsked
  <2> QED BY <1>2, <2>1, <2>2, <2>3, <2>4 DEF TorchStep
<1> QED BY <1>1, <1>2, CallsMade

TorchAskInv == TorchInv /\ AskInv

LEMMA InitAsked == Init => TorchAskInv
<1> SUFFICES ASSUME modes = <<>>, frames = <<>>, outcome = NoOutcome PROVE TorchAskInv
  BY DEF Init, TorchInit
<1>1. TorchInv
  BY EmptyBlocks DEF TorchInv, Nested, SeenAt
<1>2. AskInv
  BY DEF AskInv, Asking, Ended
<1> QED BY <1>1, <1>2 DEF TorchAskInv

LEMMA StepAsked == TorchAskInv /\ [Next]_vars => TorchAskInv'
BY NextTorch, NextAsked, OneTorch DEF TorchAskInv

(***************************************************************************)
(* The branches of dispatch that are "unreachable!", one for each          *)
(* parameter that an override may take, are: whatever arguments a call     *)
(* has, and whether within modes or not, a call whose native code could    *)
(* not take what it was given asks somebody first.                         *)
(***************************************************************************)
THEOREM NoPanics == Spec => []NativeNeverPanics
<1>1. TorchAskInv => NativeNeverPanics
  BY DEF TorchAskInv, AskInv, Ended, NativeNeverPanics
<1> QED BY <1>1, InitAsked, StepAsked, PTL DEF Spec

(***************************************************************************)
(* However many operands a call has, and whatever classes they are of, the *)
(* objects it asks are asked in an order that the classes allow, and no    *)
(* handler among its arguments, those in sequences included, is passed     *)
(* over when the call is refused.                                          *)
(***************************************************************************)
THEOREM OrderOfAsking == Spec => []AskedInOrder
<1>1. TorchAskInv => AskedInOrder
  <2> SUFFICES ASSUME TorchAskInv PROVE AskedInOrder
    OBVIOUS
  <2>1. ASSUME NEW i \in DOMAIN frames, "call" \in DOMAIN frames[i],
               NEW j \in DOMAIN frames[i].asked, NEW k \in DOMAIN frames[i].asked, j < k
        PROVE  /\ ~StrictlyBelow(frames[i].asked[k], frames[i].asked[j])
               /\ frames[i].asked[k].kind = "override" =>
                    frames[i].asked[j].name # frames[i].asked[k].name
    <3> DEFINE f == frames[i]
               all == f.call.overrides
    <3>1. /\ f.asked \in Seq(ToSet(all)) /\ f.left \in Seq(ToSet(all))
          /\ f.asked \o f.left = all /\ Orderly(all)
      BY <2>1 DEF TorchAskInv, AskInv, Asking, AskedFrame, EntryOK
    <3>2. ASSUME NEW T, NEW a \in Seq(T), NEW l \in Seq(T)
          PROVE  \A n \in DOMAIN a : n \in DOMAIN (a \o l) /\ (a \o l)[n] = a[n]
      OBVIOUS
    <3> HIDE DEF f, all
    <3>3. \A n \in DOMAIN f.asked : n \in DOMAIN all /\ all[n] = f.asked[n]
      BY <3>1, <3>2
    <3>4. j \in DOMAIN f.asked /\ k \in DOMAIN f.asked
      BY DEF f
    <3>5. /\ j \in DOMAIN all /\ all[j] = f.asked[j]
          /\ k \in DOMAIN all /\ all[k] = f.asked[k]
      BY <3>3, <3>4
    <3>6. /\ ~StrictlyBelow(all[k], all[j])
          /\ all[k].kind = "override" => all[j].name # all[k].name
      BY <2>1, <3>1, <3>5 DEF Orderly
    <3> QED BY <3>5, <3>6 DEF f
  <2>2. outcome # NoOutcome /\ outcome.result \in {"refused", "declined"} =>
          \A v \in Handlers(outcome.call) : \E i \in DOMAIN outcome.asked : outcome.asked[i].name = v.name
    BY DEF TorchAskInv, AskInv, Ended, Lists
  <2> QED BY <2>1, <2>2 DEF AskedInOrder
<1> QED BY <1>1, InitAsked, StepAsked, PTL DEF Spec

(***************************************************************************)
(* Whatever a call is given, in whatever spelling: if its entry accepts    *)
(* the arguments, every one of them is in the slot of one parameter.  The  *)
(* exception is that of EveryArgumentBound: view binds a sequence that has *)
(* an __index__, and starts with a dimension, without what follows it.     *)
(***************************************************************************)
THEOREM ArgumentsBound == Spec => []EveryArgumentBound
<1>1. TorchAskInv => EveryArgumentBound
  <2> SUFFICES ASSUME TorchAskInv, outcome # NoOutcome, outcome.result # "rejected",
                      outcome.call.form # "unary",
                      outcome.call.form \in {"dunder", "unbound"} =>
                        outcome.result \in {"value", "unsupported"}
               PROVE  \A v : Count(Passed(Counted(outcome.call)), v) = Count(Taken(outcome.call.slots), v)
    BY DEF EveryArgumentBound
  <2>1. /\ EntryOK(Counted(outcome.call), outcome.call) /\ outcome.call.ok
        /\ outcome.call.form \in {"dunder", "unbound"} => outcome.call.native \in {"value", "unsupported"}
    BY DEF TorchAskInv, AskInv, Ended
  <2>2. Accounted(Counted(outcome.call), outcome.call.slots)
    BY <2>1 DEF EntryOK
  <2> QED BY <2>2 DEF Accounted
<1> QED BY <1>1, InitAsked, StepAsked, PTL DEF Spec

=============================================================================
