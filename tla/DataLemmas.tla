----------------------------- MODULE DataLemmas -----------------------------
(***************************************************************************)
(* What the sequence operations of the models do to the set of elements of *)
(* a sequence, and to a sequence that holds no element twice; and what the *)
(* sums the models make over finite sets and sequences are.                *)
(***************************************************************************)
EXTENDS SequencesExt, Integers, FiniteSetTheorems, WellFoundedInduction, TLAPS

LEMMA AppendBlocks ==
  ASSUME NEW S, NEW s \in Seq(S), NEW e \in S
  PROVE  /\ Append(s, e) \in Seq(S)
         /\ Range(Append(s, e)) = Range(s) \cup {e}
         /\ IsInjective(s) /\ e \notin Range(s) => IsInjective(Append(s, e))
<1> DEFINE c == Append(s, e)
<1>1. /\ c \in Seq(S) /\ Len(c) = Len(s) + 1 /\ c[Len(s) + 1] = e
      /\ Len(s) \in Nat /\ \A i \in 1..Len(s) : c[i] = s[i]
  OBVIOUS
<1>2. /\ DOMAIN c = 1..(Len(s) + 1) /\ DOMAIN s = 1..Len(s)
      /\ DOMAIN c = DOMAIN s \cup {Len(s) + 1}
  BY <1>1
<1>3. Range(c) = Range(s) \cup {e}
  BY <1>1, <1>2 DEF Range
<1>4. ASSUME IsInjective(s), e \notin Range(s) PROVE IsInjective(c)
  BY <1>1, <1>2, <1>4 DEF Range, IsInjective
<1> QED BY <1>1, <1>3, <1>4

LEMMA ConsBlocks ==
  ASSUME NEW S, NEW s \in Seq(S), NEW e \in S
  PROVE  /\ <<e>> \o s \in Seq(S)
         /\ Range(<<e>> \o s) = Range(s) \cup {e}
         /\ IsInjective(s) /\ e \notin Range(s) => IsInjective(<<e>> \o s)
<1> DEFINE c == <<e>> \o s
<1>1. c \in Seq(S) /\ Len(c) = Len(s) + 1 /\ c[1] = e
      /\ \A i \in 1..Len(s) : c[i + 1] = s[i]
  OBVIOUS
<1>2. Range(c) = Range(s) \cup {e}
  <2>1. ASSUME NEW x \in Range(s) \cup {e} PROVE x \in Range(c)
    <3>1. CASE x = e
      BY <3>1, <1>1 DEF Range
    <3>2. CASE x \in Range(s)
      <4>1. PICK i \in 1..Len(s) : x = s[i]
        BY <3>2 DEF Range
      <4>2. c[i + 1] = x /\ i + 1 \in DOMAIN c
        BY <4>1, <1>1
      <4> QED BY <4>2 DEF Range
    <3> QED BY <2>1, <3>1, <3>2
  <2>2. ASSUME NEW i \in 1..Len(c) PROVE c[i] \in Range(s) \cup {e}
    <3>1. CASE i = 1
      BY <3>1, <1>1
    <3>2. CASE i # 1
      <4>1. i - 1 \in 1..Len(s)
        BY <3>2, <1>1
      <4>2. c[(i - 1) + 1] = s[i - 1]
        BY <4>1, <1>1
      <4> QED BY <4>1, <4>2 DEF Range
    <3> QED BY <3>1, <3>2
  <2> QED BY <1>1, <2>1, <2>2 DEF Range
<1>3. ASSUME IsInjective(s), e \notin Range(s) PROVE IsInjective(c)
  <2>1. ASSUME NEW i \in 1..Len(c), NEW j \in 1..Len(c), c[i] = c[j], i < j
        PROVE FALSE
    <3>1. j - 1 \in 1..Len(s) /\ c[j] = s[j - 1]
      <4>1. j - 1 \in 1..Len(s)
        BY <2>1, <1>1
      <4>2. c[(j - 1) + 1] = s[j - 1]
        BY <4>1, <1>1
      <4> QED BY <4>1, <4>2
    <3>2. CASE i = 1
      BY <3>1, <3>2, <2>1, <1>1, <1>3 DEF Range
    <3>3. CASE i # 1
      <4>1. i - 1 \in 1..Len(s)
        BY <2>1, <3>3, <1>1
      <4>2. c[(i - 1) + 1] = s[i - 1]
        BY <4>1, <1>1
      <4> QED BY <4>1, <4>2, <3>1, <2>1, <1>3 DEF IsInjective
    <3> QED BY <3>2, <3>3
  <2> QED BY <2>1, <1>1 DEF IsInjective
<1> QED BY <1>1, <1>2, <1>3

LEMMA TailBlocks ==
  ASSUME NEW S, NEW s \in Seq(S), s # <<>>
  PROVE  /\ Tail(s) \in Seq(S) /\ Head(s) \in S
         /\ Range(s) = {Head(s)} \cup Range(Tail(s))
         /\ IsInjective(s) => IsInjective(Tail(s)) /\ Head(s) \notin Range(Tail(s))
<1>1. /\ Tail(s) \in Seq(S) /\ Head(s) = s[1] /\ Len(s) \in Nat \ {0}
      /\ Len(Tail(s)) = Len(s) - 1
      /\ \A i \in 1..(Len(s) - 1) : Tail(s)[i] = s[i + 1]
  OBVIOUS
<1>2. ASSUME NEW i \in 1..Len(s) PROVE s[i] \in {Head(s)} \cup Range(Tail(s))
  <2>1. CASE i = 1
    BY <1>1, <2>1
  <2>2. CASE i # 1
    <3>1. i - 1 \in 1..(Len(s) - 1) /\ i - 1 \in DOMAIN Tail(s)
      BY <1>1, <2>2
    <3>2. Tail(s)[i - 1] = s[(i - 1) + 1] /\ (i - 1) + 1 = i
      BY <3>1, <1>1
    <3> QED BY <3>1, <3>2 DEF Range
  <2> QED BY <2>1, <2>2
<1>3. ASSUME NEW i \in 1..Len(Tail(s)) PROVE Tail(s)[i] \in Range(s)
  BY <1>1 DEF Range
<1>4. Head(s) \in S /\ Head(s) \in Range(s)
  BY <1>1 DEF Range
<1>5. Range(s) = {Head(s)} \cup Range(Tail(s))
  BY <1>1, <1>2, <1>3, <1>4 DEF Range
<1>6. ASSUME IsInjective(s)
      PROVE  IsInjective(Tail(s)) /\ Head(s) \notin Range(Tail(s))
  BY <1>1, <1>6 DEF IsInjective, Range
<1> QED BY <1>1, <1>4, <1>5, <1>6

LEMMA SplitBlocks ==
  ASSUME NEW S, NEW s \in Seq(S), NEW k \in 0..Len(s)
  PROVE  LET a == SubSeq(s, 1, k)
             b == SubSeq(s, k + 1, Len(s))
         IN  /\ a \in Seq(S) /\ b \in Seq(S)
             /\ Range(s) = Range(a) \cup Range(b)
             /\ IsInjective(s) => /\ IsInjective(a) /\ IsInjective(b)
                                  /\ Range(a) \cap Range(b) = {}
<1> DEFINE a == SubSeq(s, 1, k)
           b == SubSeq(s, k + 1, Len(s))
<1>1. /\ a \in Seq(S) /\ Len(a) = k /\ \A i \in 1..k : a[i] = s[i]
      /\ b \in Seq(S) /\ Len(b) = Len(s) - k
      /\ \A i \in 1..(Len(s) - k) : b[i] = s[k + i]
  OBVIOUS
<1>2. ASSUME NEW i \in 1..Len(s) PROVE s[i] \in Range(a) \cup Range(b)
  <2>1. CASE i <= k
    <3>1. i \in 1..k /\ i \in DOMAIN a /\ a[i] = s[i]
      BY <2>1, <1>1
    <3> QED BY <3>1 DEF Range
  <2>2. CASE i > k
    <3>1. i - k \in 1..(Len(s) - k) /\ i - k \in DOMAIN b
      BY <2>2, <1>1
    <3>2. b[i - k] = s[k + (i - k)] /\ k + (i - k) = i
      BY <3>1, <1>1
    <3> QED BY <3>1, <3>2 DEF Range
  <2> QED BY <2>1, <2>2
<1>3. Range(a) \subseteq Range(s) /\ Range(b) \subseteq Range(s)
  BY <1>1 DEF Range
<1>4. Range(s) = Range(a) \cup Range(b)
  BY <1>2, <1>3 DEF Range
<1>5. ASSUME IsInjective(s)
      PROVE  IsInjective(a) /\ IsInjective(b) /\ Range(a) \cap Range(b) = {}
  BY <1>1, <1>5 DEF IsInjective, Range
<1> HIDE DEF a, b
<1> QED BY <1>1, <1>4, <1>5 DEF a, b

LEMMA RemovedAt ==
  ASSUME NEW S, NEW s \in Seq(S), NEW i \in DOMAIN s
  PROVE  LET r == RemoveAt(s, i)
         IN  /\ r \in Seq(S) /\ Len(r) = Len(s) - 1 /\ DOMAIN r = 1..(Len(s) - 1)
             /\ \A j \in 1..(Len(s) - 1) : r[j] = IF j < i THEN s[j] ELSE s[j + 1]
<1> DEFINE r == RemoveAt(s, i)
           a == SubSeq(s, 1, i - 1)
           b == SubSeq(s, i + 1, Len(s))
<1>0. i \in 1..Len(s) /\ Len(s) \in Nat
  OBVIOUS
<1>1. /\ a \in Seq(S) /\ Len(a) = i - 1 /\ \A j \in 1..(i - 1) : a[j] = s[j]
      /\ b \in Seq(S) /\ Len(b) = Len(s) - i
      /\ \A j \in 1..(Len(s) - i) : b[j] = s[i + j]
  BY <1>0
<1>2. r = a \o b
  BY DEF RemoveAt
<1> HIDE DEF a, b, r
<1>3. /\ r \in Seq(S) /\ Len(r) = Len(s) - 1
      /\ \A j \in 1..Len(r) : r[j] = IF j <= i - 1 THEN a[j] ELSE b[j - (i - 1)]
  BY <1>0, <1>1, <1>2
<1>4. ASSUME NEW j \in 1..(Len(s) - 1)
      PROVE  r[j] = IF j < i THEN s[j] ELSE s[j + 1]
  <2>1. CASE j < i
    BY <1>0, <1>1, <1>3, <2>1
  <2>2. CASE ~(j < i)
    <3>1. j - (i - 1) \in 1..(Len(s) - i) /\ i + (j - (i - 1)) = j + 1
      BY <1>0, <2>2
    <3>2. b[j - (i - 1)] = s[j + 1]
      BY <3>1, <1>1
    <3>3. j \in 1..Len(r) /\ ~(j <= i - 1)
      BY <1>0, <1>3, <2>2
    <3> QED BY <3>2, <3>3, <1>3, <2>2
  <2> QED BY <2>1, <2>2
<1> QED BY <1>0, <1>3, <1>4 DEF r

LEMMA RemoveBlocks ==
  ASSUME NEW S, NEW s \in Seq(S), NEW i \in DOMAIN s
  PROVE  /\ RemoveAt(s, i) \in Seq(S) /\ s[i] \in S
         /\ Range(s) = {s[i]} \cup Range(RemoveAt(s, i))
         /\ IsInjective(s) => /\ IsInjective(RemoveAt(s, i))
                              /\ s[i] \notin Range(RemoveAt(s, i))
<1> DEFINE r == RemoveAt(s, i)
<1>1. i \in 1..Len(s) /\ Len(s) \in Nat
  OBVIOUS
<1>2. /\ r \in Seq(S) /\ s[i] \in S /\ Len(r) = Len(s) - 1
      /\ \A j \in 1..(Len(s) - 1) : r[j] = IF j < i THEN s[j] ELSE s[j + 1]
  BY <1>1, RemovedAt
<1> HIDE DEF r
<1>3. DOMAIN r = 1..(Len(s) - 1) /\ DOMAIN s = 1..Len(s)
  BY <1>2, <1>1
<1>4. ASSUME NEW j \in 1..Len(s), j # i PROVE s[j] \in Range(r)
  <2>1. CASE j < i
    <3>1. j \in 1..(Len(s) - 1) /\ r[j] = s[j]
      BY <1>1, <1>2, <2>1
    <3> QED BY <3>1, <1>3 DEF Range
  <2>2. CASE j > i
    <3>1. j - 1 \in 1..(Len(s) - 1) /\ ~(j - 1 < i)
      BY <1>1, <2>2
    <3>2. r[j - 1] = s[(j - 1) + 1] /\ (j - 1) + 1 = j
      BY <3>1, <1>1, <1>2
    <3> QED BY <3>1, <3>2, <1>3 DEF Range
  <2> QED BY <2>1, <2>2, <1>4, <1>1
<1>5. ASSUME NEW j \in 1..(Len(s) - 1)
      PROVE  \E n \in 1..Len(s) : n # i /\ r[j] = s[n]
                                  /\ n = IF j < i THEN j ELSE j + 1
  BY <1>1, <1>2
<1>6. Range(s) = {s[i]} \cup Range(r)
  <2>1. Range(s) \subseteq {s[i]} \cup Range(r)
    BY <1>3, <1>4 DEF Range
  <2>2. Range(r) \subseteq Range(s) /\ s[i] \in Range(s)
    BY <1>3, <1>5 DEF Range
  <2> QED BY <2>1, <2>2
<1>7. ASSUME IsInjective(s) PROVE IsInjective(r) /\ s[i] \notin Range(r)
  <2>1. s[i] \notin Range(r)
    BY <1>1, <1>3, <1>5, <1>7 DEF Range, IsInjective
  <2>2. ASSUME NEW j \in 1..(Len(s) - 1), NEW m \in 1..(Len(s) - 1), r[j] = r[m]
        PROVE  j = m
    <3>1. PICK n \in 1..Len(s) : r[j] = s[n] /\ n = IF j < i THEN j ELSE j + 1
      BY <1>5
    <3>2. PICK o \in 1..Len(s) : r[m] = s[o] /\ o = IF m < i THEN m ELSE m + 1
      BY <1>5
    <3>3. n = o
      BY <3>1, <3>2, <2>2, <1>3, <1>7 DEF IsInjective
    <3> QED BY <3>1, <3>2, <3>3, <1>1
  <2> QED BY <2>1, <2>2, <1>3 DEF IsInjective
<1> QED BY <1>2, <1>6, <1>7 DEF r

LEMMA FrontBlocks ==
  ASSUME NEW S, NEW s \in Seq(S), s # <<>>
  PROVE  /\ Front(s) \in Seq(S) /\ Last(s) \in S
         /\ Range(s) = {Last(s)} \cup Range(Front(s))
         /\ IsInjective(s) => /\ IsInjective(Front(s))
                              /\ Last(s) \notin Range(Front(s))
<1> DEFINE n == Len(s)
<1>1. n \in Nat \ {0} /\ n \in DOMAIN s /\ n - 1 \in 0..Len(s)
  OBVIOUS
<1>2. Front(s) = RemoveAt(s, n) /\ Last(s) = s[n]
  BY <1>1 DEF Front, Last, RemoveAt
<1> QED BY <1>1, <1>2, RemoveBlocks

LEMMA SingletonBlocks ==
  ASSUME NEW S, NEW e \in S
  PROVE  /\ <<e>> \in Seq(S) /\ Range(<<e>>) = {e} /\ IsInjective(<<e>>)
         /\ <<e>> # <<>> /\ Head(<<e>>) = e /\ Tail(<<e>>) = <<>>
BY DEF Range, IsInjective

LEMMA EmptyBlocks ==
  Range(<<>>) = {} /\ IsInjective(<<>>) /\ \A S : <<>> \in Seq(S)
BY DEF Range, IsInjective

-----------------------------------------------------------------------------
(***************************************************************************)
(* Induction over the natural numbers, for the members of a set: the       *)
(* library states it for an operator, which the provers cannot             *)
(* instantiate.                                                            *)
(***************************************************************************)
LEMMA NatSetInduction ==
  ASSUME NEW G, 0 \in G, \A n \in Nat : n \in G => n + 1 \in G
  PROVE  Nat \subseteq G
<1> SUFFICES ASSUME Nat \ G # {} PROVE FALSE
  OBVIOUS
<1>1. PICK n \in Nat \ G : \A m \in Nat \ G : <<m, n>> \notin OpToRel(<, Nat)
  BY NatLessThanWellFounded, WFMin
<1>2. \A m \in Nat \ G : ~(m < n)
  BY <1>1 DEF OpToRel
<1>3. n # 0
  OBVIOUS
<1>4. n - 1 \in Nat /\ n - 1 < n
  BY <1>3
<1>5. n - 1 \in G
  BY <1>2, <1>4
<1>6. (n - 1) + 1 \in G /\ (n - 1) + 1 = n
  BY <1>4, <1>5
<1> QED BY <1>6

LEMMA SetStrongInduction ==
  ASSUME NEW N \in Nat, NEW G,
         \A n \in 1..N : (\A m \in 1..(n - 1) : m \in G) => n \in G
  PROVE  1..N \subseteq G
<1> DEFINE H == {n \in Nat : \A m \in 1..n : m \in 1..N => m \in G}
<1>1. 0 \in H
  OBVIOUS
<1>2. ASSUME NEW n \in Nat, n \in H PROVE n + 1 \in H
  <2>1. n + 1 \in 1..N => n + 1 \in G
    <3>1. \A m \in 1..((n + 1) - 1) : n + 1 \in 1..N => m \in G
      BY <1>2
    <3> QED BY <3>1
  <2>2. \A m \in 1..(n + 1) : m \in 1..n \/ m = n + 1
    OBVIOUS
  <2> QED BY <1>2, <2>1, <2>2
<1> HIDE DEF H
<1>3. N \in H
  BY <1>1, <1>2, NatSetInduction
<1> QED BY <1>3 DEF H

(***************************************************************************)
(* A recursion over the first natural numbers defines a function.          *)
(***************************************************************************)
Steps(N, A) == [1..N -> [A -> A]]

Recursion(f, N, A, first, step) ==
  /\ f \in [0..N -> A] /\ f[0] = first
  /\ \A n \in 1..N : f[n] = step[n][f[n - 1]]

LEMMA RecursionDefines ==
  ASSUME NEW N \in Nat, NEW A, NEW first \in A, NEW step \in Steps(N, A)
  PROVE  \E f : Recursion(f, N, A, first, step)
<1> DEFINE Upto(f, n) == f[0] = first /\ \A k \in 1..n : f[k] = step[k][f[k - 1]]
           G == {n \in Nat : n <= N => \E f \in [0..N -> A] : Upto(f, n)}
<1>1. 0 \in G
  <2> DEFINE f == [k \in 0..N |-> first]
  <2>1. f \in [0..N -> A] /\ Upto(f, 0)
    OBVIOUS
  <2> HIDE DEF f, Upto
  <2> QED BY <2>1
<1>2. ASSUME NEW n \in Nat, n \in G PROVE n + 1 \in G
  <2> SUFFICES ASSUME n + 1 <= N PROVE \E f \in [0..N -> A] : Upto(f, n + 1)
    OBVIOUS
  <2>1. PICK f \in [0..N -> A] : Upto(f, n)
    BY <1>2
  <2>2. n \in 0..N /\ n + 1 \in 1..N /\ n + 1 \in 0..N /\ 0 \in 0..N /\ n + 1 # 0
    OBVIOUS
  <2> DEFINE v == step[n + 1][f[n]]
             g == [k \in 0..N |-> IF k = n + 1 THEN v ELSE f[k]]
  <2>3. v \in A
    BY <2>2 DEF Steps
  <2>4. g \in [0..N -> A] /\ g[0] = f[0] /\ g[n + 1] = v
    BY <2>2, <2>3
  <2>5. ASSUME NEW k \in 1..(n + 1) PROVE g[k] = step[k][g[k - 1]]
    <3>1. k - 1 \in 0..N /\ k - 1 # n + 1 /\ k \in 0..N /\ g[k - 1] = f[k - 1]
      BY <2>2
    <3>2. CASE k = n + 1
      <4>1. k - 1 = n
        BY <3>2
      <4> QED BY <2>4, <3>1, <3>2, <4>1
    <3>3. CASE k \in 1..n
      <4>1. g[k] = f[k] /\ f[k] = step[k][f[k - 1]]
        BY <2>1, <3>1, <3>3
      <4> QED BY <3>1, <4>1
    <3> QED BY <3>2, <3>3
  <2>6. Upto(g, n + 1)
    BY <2>1, <2>4, <2>5
  <2> HIDE DEF g, Upto
  <2> QED BY <2>4, <2>6
<1> HIDE DEF G
<1>3. N \in G
  BY <1>1, <1>2, NatSetInduction
<1> QED BY <1>3 DEF G, Recursion

(***************************************************************************)
(* A recursion whose steps look back at any earlier values does too.       *)
(***************************************************************************)
Courses(N, A) == [1..N -> [[1..N -> A] -> A]]

LooksBack(step, N, A) ==
  \A n \in 1..N, f, h \in [1..N -> A] :
    (\A m \in 1..(n - 1) : f[m] = h[m]) => step[n][f] = step[n][h]

CourseOf(f, step, N, A) == f \in [1..N -> A] /\ \A n \in 1..N : f[n] = step[n][f]

LEMMA CourseDefines ==
  ASSUME NEW N \in Nat, NEW A, A # {}, NEW step \in Courses(N, A), LooksBack(step, N, A)
  PROVE  \E f : CourseOf(f, step, N, A)
<1> DEFINE F == [1..N -> A]
           Upto(f, n) == \A k \in 1..n : f[k] = step[k][f]
           G == {n \in Nat : n <= N => \E f \in F : Upto(f, n)}
<1>1. 0 \in G
  <2>1. PICK a \in A : TRUE
    OBVIOUS
  <2>2. [k \in 1..N |-> a] \in F
    OBVIOUS
  <2>3. \A f \in F : Upto(f, 0)
    OBVIOUS
  <2> HIDE DEF F, Upto
  <2> QED BY <2>2, <2>3
<1>2. ASSUME NEW n \in Nat, n \in G PROVE n + 1 \in G
  <2> SUFFICES ASSUME n + 1 <= N PROVE \E f \in F : Upto(f, n + 1)
    OBVIOUS
  <2>1. PICK f \in F : Upto(f, n)
    BY <1>2
  <2> DEFINE v == step[n + 1][f]
             g == [k \in 1..N |-> IF k = n + 1 THEN v ELSE f[k]]
  <2>2. n + 1 \in 1..N /\ v \in A
    BY DEF Courses
  <2>3. g \in F /\ g[n + 1] = v /\ \A k \in 1..n : k \in 1..N /\ g[k] = f[k]
    BY <2>2
  <2> HIDE DEF g
  <2>4. ASSUME NEW k \in 1..(n + 1) PROVE step[k][g] = step[k][f]
    <3>1. k \in 1..N /\ \A m \in 1..(k - 1) : g[m] = f[m]
      BY <2>2, <2>3
    <3> QED BY <2>3, <3>1 DEF LooksBack
  <2>5. ASSUME NEW k \in 1..(n + 1) PROVE g[k] = step[k][g]
    <3>1. CASE k = n + 1
      BY <2>3, <2>4, <3>1
    <3>2. CASE k \in 1..n
      BY <2>1, <2>3, <2>4, <3>2
    <3> QED BY <3>1, <3>2
  <2>6. Upto(g, n + 1)
    BY <2>5
  <2> HIDE DEF F, Upto
  <2> QED BY <2>3, <2>6
<1> HIDE DEF G
<1>3. N \in G
  BY <1>1, <1>2, NatSetInduction
<1> QED BY <1>3 DEF G, CourseOf

-----------------------------------------------------------------------------
(***************************************************************************)
(* Sums of integer weights.  The folds of the community modules take the   *)
(* elements in the order CHOOSE gives; SumRecursion is their recursion.    *)
(***************************************************************************)
Picked(s) == CHOOSE x \in s : TRUE

\* One unfolding of a sum of weights, in the order Picked takes the elements.
Unfolded(f, w, s) == IF s = {} THEN 0 ELSE w[Picked(s)] + f[s \ {Picked(s)}]

SumRecursion(f, w, S) == f = [s \in SUBSET S |-> Unfolded(f, w, s)]

SumOf(w, S) == (CHOOSE f : SumRecursion(f, w, S))[S]

(***************************************************************************)
(* A finite set loses one element when the chosen one is removed.          *)
(***************************************************************************)
LEMMA PickedRemoved ==
  ASSUME NEW S, IsFiniteSet(S), NEW s \in SUBSET S, s # {}
  PROVE  /\ Picked(s) \in s /\ s \ {Picked(s)} \in SUBSET S
         /\ Cardinality(s) \in Nat
         /\ Cardinality(s \ {Picked(s)}) = Cardinality(s) - 1
         /\ Cardinality(s \ {Picked(s)}) \in Nat
<1>1. Picked(s) \in s
  BY DEF Picked
<1>2. IsFiniteSet(s) /\ IsFiniteSet(s \ {Picked(s)})
  BY FS_Subset
<1>3. Cardinality(s) \in Nat /\ Cardinality(s \ {Picked(s)}) \in Nat
  BY <1>2, FS_CardinalityType
<1>4. Cardinality(s \ {Picked(s)}) = Cardinality(s) - 1
  BY <1>1, <1>2, FS_RemoveElement
<1> QED BY <1>1, <1>3, <1>4

LEMMA OnlyEmpty ==
  ASSUME NEW S, IsFiniteSet(S), NEW s \in SUBSET S, Cardinality(s) <= 0
  PROVE  s = {}
<1> SUFFICES ASSUME s # {} PROVE FALSE
  OBVIOUS
<1>1. Cardinality(s) \in Nat /\ Cardinality(s) - 1 \in Nat
  BY PickedRemoved
<1> QED BY <1>1

(***************************************************************************)
(* The recursive definition of a sum over a finite set defines a function. *)
(***************************************************************************)
LEMMA SumRecursionIn ==
  ASSUME NEW S, IsFiniteSet(S), NEW A, A \in {Nat, Int}, NEW w, \A x \in S : w[x] \in A
  PROVE  \E f \in [SUBSET S -> A] : SumRecursion(f, w, S)
<1> DEFINE Right(f, n) == \A s \in SUBSET S : Cardinality(s) <= n => f[s] = Unfolded(f, w, s)
           G == {n \in Nat : \E f \in [SUBSET S -> A] : Right(f, n)}
           z == [s \in SUBSET S |-> 0]
<1>a. 0 \in A /\ \A x, y \in A : x + y \in A
  OBVIOUS
<1>0. \A f \in [SUBSET S -> A], s \in SUBSET S : Unfolded(f, w, s) \in A
  <2> SUFFICES ASSUME NEW f \in [SUBSET S -> A], NEW s \in SUBSET S, s # {}
               PROVE  w[Picked(s)] + f[s \ {Picked(s)}] \in A
    BY <1>a DEF Unfolded
  <2>1. w[Picked(s)] \in A /\ f[s \ {Picked(s)}] \in A
    BY PickedRemoved
  <2> QED BY <1>a, <2>1
<1>1. 0 \in G
  <2>1. z \in [SUBSET S -> A]
    BY <1>a
  <2>2. ASSUME NEW s \in SUBSET S, Cardinality(s) <= 0 PROVE s = {}
    BY <2>2, OnlyEmpty
  <2>3. Right(z, 0)
    BY <2>2 DEF Unfolded
  <2> QED BY <2>1, <2>3
<1>2. ASSUME NEW n \in Nat, n \in G PROVE n + 1 \in G
  <2>1. PICK f \in [SUBSET S -> A] : Right(f, n)
    BY <1>2
  <2> DEFINE g == [s \in SUBSET S |-> Unfolded(f, w, s)]
  <2>2. g \in [SUBSET S -> A]
    BY <1>0
  <2>3. ASSUME NEW s \in SUBSET S, Cardinality(s) <= n + 1
        PROVE  g[s] = Unfolded(g, w, s)
    <3>1. CASE s = {}
      BY <3>1 DEF Unfolded
    <3>2. CASE s # {}
      <4>1. s \ {Picked(s)} \in SUBSET S /\ Cardinality(s \ {Picked(s)}) <= n
        BY <2>3, <3>2, PickedRemoved
      <4>2. g[s \ {Picked(s)}] = f[s \ {Picked(s)}]
        BY <2>1, <4>1
      <4>3. g[s] = w[Picked(s)] + f[s \ {Picked(s)}]
        BY <3>2 DEF Unfolded
      <4> QED BY <3>2, <4>2, <4>3 DEF Unfolded
    <3> QED BY <3>1, <3>2
  <2>4. Right(g, n + 1)
    BY <2>3
  <2> HIDE DEF Right, g
  <2> QED BY <2>2, <2>4
<1> HIDE DEF G
<1>3. Nat \subseteq G
  BY <1>1, <1>2, NatSetInduction
<1>4. Cardinality(S) \in G
  BY <1>3, FS_CardinalityType
<1>5. PICK f \in [SUBSET S -> A] : Right(f, Cardinality(S))
  BY <1>4 DEF G
<1>6. \A s \in SUBSET S : f[s] = Unfolded(f, w, s)
  BY <1>5, FS_Subset
<1>7. f = [s \in SUBSET S |-> Unfolded(f, w, s)]
  BY <1>6
<1> QED BY <1>7 DEF SumRecursion

LEMMA SumRecursionExists ==
  ASSUME NEW S, IsFiniteSet(S), NEW w, \A x \in S : w[x] \in Int
  PROVE  \E f \in [SUBSET S -> Int] : SumRecursion(f, w, S)
<1>1. Int \in {Nat, Int}
  OBVIOUS
<1> QED BY <1>1, SumRecursionIn

(***************************************************************************)
(* Two sums agree on the sets both of them know, if their weights do       *)
(* there.                                                                  *)
(***************************************************************************)
LEMMA SumRecursionsAgree ==
  ASSUME NEW S, IsFiniteSet(S), NEW w, NEW f, SumRecursion(f, w, S),
         NEW T, IsFiniteSet(T), NEW v, NEW g, SumRecursion(g, v, T),
         \A x \in S \cap T : w[x] = v[x]
  PROVE  \A s \in SUBSET (S \cap T) : f[s] = g[s]
<1> DEFINE G == {n \in Nat : \A s \in SUBSET (S \cap T) : Cardinality(s) <= n => f[s] = g[s]}
<1>0. \A s \in SUBSET (S \cap T) : f[s] = Unfolded(f, w, s) /\ g[s] = Unfolded(g, v, s)
  BY DEF SumRecursion
<1>1. 0 \in G
  <2>1. ASSUME NEW s \in SUBSET (S \cap T), Cardinality(s) <= 0 PROVE s = {}
    BY <2>1, OnlyEmpty
  <2> QED BY <1>0, <2>1 DEF Unfolded
<1>2. ASSUME NEW n \in Nat, n \in G PROVE n + 1 \in G
  <2> SUFFICES ASSUME NEW s \in SUBSET (S \cap T), Cardinality(s) <= n + 1, s # {}
               PROVE  f[s] = g[s]
    BY <1>0 DEF Unfolded
  <2>1. /\ Picked(s) \in S \cap T /\ s \ {Picked(s)} \in SUBSET (S \cap T)
        /\ Cardinality(s \ {Picked(s)}) <= n
    BY PickedRemoved
  <2>2. f[s \ {Picked(s)}] = g[s \ {Picked(s)}]
    BY <1>2, <2>1
  <2> QED BY <1>0, <2>1, <2>2 DEF Unfolded
<1> HIDE DEF G
<1>3. Nat \subseteq G
  BY <1>1, <1>2, NatSetInduction
<1>4. ASSUME NEW s \in SUBSET (S \cap T) PROVE f[s] = g[s]
  <2>1. Cardinality(s) \in G
    BY <1>3, FS_Subset, FS_CardinalityType
  <2> QED BY <2>1 DEF G
<1> QED BY <1>4

LEMMA SumOfRecursion ==
  ASSUME NEW S, IsFiniteSet(S), NEW w, NEW f, SumRecursion(f, w, S)
  PROVE  SumOf(w, S) = f[S]
<1>1. SumRecursion(CHOOSE g : SumRecursion(g, w, S), w, S)
  OBVIOUS
<1>2. \A s \in SUBSET (S \cap S) : (CHOOSE g : SumRecursion(g, w, S))[s] = f[s]
  BY <1>1, SumRecursionsAgree
<1> QED BY <1>2 DEF SumOf

(***************************************************************************)
(* A part of a sum is the sum of the part.                                 *)
(***************************************************************************)
LEMMA SumWithin ==
  ASSUME NEW S, IsFiniteSet(S), NEW w, NEW f, SumRecursion(f, w, S), NEW T \in SUBSET S
  PROVE  SumOf(w, T) = f[T]
<1> DEFINE g == [s \in SUBSET T |-> f[s]]
<1>1. IsFiniteSet(T)
  BY FS_Subset
<1>2. ASSUME NEW s \in SUBSET T PROVE g[s] = Unfolded(g, w, s)
  <2>1. f[s] = Unfolded(f, w, s)
    BY DEF SumRecursion
  <2>2. CASE s = {}
    BY <2>1, <2>2 DEF Unfolded
  <2>3. CASE s # {}
    BY <2>1, <2>3 DEF Unfolded
  <2> QED BY <2>2, <2>3
<1>3. g = [s \in SUBSET T |-> Unfolded(g, w, s)]
  BY <1>2
<1>4. SumRecursion(g, w, T)
  BY <1>3 DEF SumRecursion
<1>5. g[T] = f[T]
  OBVIOUS
<1> HIDE DEF g
<1> QED BY <1>1, <1>4, <1>5, SumOfRecursion

LEMMA SumEmpty == ASSUME NEW w PROVE SumOf(w, {}) = 0
<1>1. IsFiniteSet({})
  BY FS_EmptySet
<1>2. PICK f : SumRecursion(f, w, {})
  BY <1>1, SumRecursionExists
<1>3. f[{}] = Unfolded(f, w, {})
  BY <1>2 DEF SumRecursion
<1> QED BY <1>1, <1>2, <1>3, SumOfRecursion DEF Unfolded

LEMMA SumInt ==
  ASSUME NEW S, IsFiniteSet(S), NEW w, \A x \in S : w[x] \in Int
  PROVE  SumOf(w, S) \in Int
<1>1. PICK f \in [SUBSET S -> Int] : SumRecursion(f, w, S)
  BY SumRecursionExists
<1> QED BY <1>1, SumOfRecursion

LEMMA SumType ==
  ASSUME NEW S, IsFiniteSet(S), NEW w, \A x \in S : w[x] \in Nat
  PROVE  SumOf(w, S) \in Nat
<1>1. Nat \in {Nat, Int}
  OBVIOUS
<1>2. PICK f \in [SUBSET S -> Nat] : SumRecursion(f, w, S)
  BY <1>1, SumRecursionIn
<1> QED BY <1>2, SumOfRecursion

LEMMA SumSame ==
  ASSUME NEW S, IsFiniteSet(S), NEW w, NEW v, \A x \in S : w[x] \in Int,
         \A x \in S : v[x] = w[x]
  PROVE  SumOf(v, S) = SumOf(w, S)
<1>1. PICK f : SumRecursion(f, w, S)
  BY SumRecursionExists
<1>2. PICK g : SumRecursion(g, v, S)
  BY SumRecursionExists
<1>3. f[S] = g[S]
  <2>1. \A s \in SUBSET (S \cap S) : g[s] = f[s]
    BY <1>1, <1>2, SumRecursionsAgree
  <2> QED BY <2>1
<1> QED BY <1>1, <1>2, <1>3, SumOfRecursion

(***************************************************************************)
(* The element a sum takes first, and the rest.                            *)
(***************************************************************************)
LEMMA SumPicked ==
  ASSUME NEW S, IsFiniteSet(S), NEW w, \A x \in S : w[x] \in Int,
         NEW s \in SUBSET S, s # {}
  PROVE  SumOf(w, s) = w[Picked(s)] + SumOf(w, s \ {Picked(s)})
<1>1. PICK f : SumRecursion(f, w, S)
  BY SumRecursionExists
<1>2. f[s] = w[Picked(s)] + f[s \ {Picked(s)}]
  BY <1>1 DEF SumRecursion, Unfolded
<1>3. s \ {Picked(s)} \in SUBSET S
  OBVIOUS
<1>4. SumOf(w, s) = f[s] /\ SumOf(w, s \ {Picked(s)}) = f[s \ {Picked(s)}]
  BY <1>1, <1>3, SumWithin
<1> QED BY <1>2, <1>4

(***************************************************************************)
(* A sum does not depend on the order its elements are taken in.           *)
(***************************************************************************)
LEMMA SumRemove ==
  ASSUME NEW S, IsFiniteSet(S), NEW w, \A x \in S : w[x] \in Int, NEW y \in S
  PROVE  SumOf(w, S) = w[y] + SumOf(w, S \ {y})
<1> DEFINE Split(s) == \A x \in s : SumOf(w, s) = w[x] + SumOf(w, s \ {x})
           G == {n \in Nat : \A s \in SUBSET S : Cardinality(s) <= n => Split(s)}
<1>1. 0 \in G
  <2>1. ASSUME NEW s \in SUBSET S, Cardinality(s) <= 0 PROVE s = {}
    BY <2>1, OnlyEmpty
  <2> QED BY <2>1
<1>2. ASSUME NEW n \in Nat, n \in G PROVE n + 1 \in G
  <2> SUFFICES ASSUME NEW s \in SUBSET S, Cardinality(s) <= n + 1, NEW x \in s
               PROVE  SumOf(w, s) = w[x] + SumOf(w, s \ {x})
    OBVIOUS
  <2> DEFINE p == Picked(s)
  <2>1. /\ p \in s /\ s \ {p} \in SUBSET S /\ Cardinality(s \ {p}) <= n
        /\ SumOf(w, s) = w[p] + SumOf(w, s \ {p})
    BY PickedRemoved, SumPicked
  <2> HIDE DEF p
  <2>2. CASE x = p
    BY <2>1, <2>2
  <2>3. CASE x # p
    <3>1. /\ s \ {x} \in SUBSET S /\ p \in s \ {x} /\ x \in s \ {p}
          /\ (s \ {x}) \ {p} = (s \ {p}) \ {x}
      BY <2>1, <2>3
    <3>2. Cardinality(s \ {x}) <= n
      BY FS_Subset, FS_RemoveElement, FS_CardinalityType
    <3>3. SumOf(w, s \ {p}) = w[x] + SumOf(w, (s \ {p}) \ {x})
      BY <1>2, <2>1, <3>1
    <3>4. SumOf(w, s \ {x}) = w[p] + SumOf(w, (s \ {x}) \ {p})
      BY <1>2, <3>1, <3>2
    <3>5. SumOf(w, (s \ {p}) \ {x}) \in Int /\ w[x] \in Int /\ w[p] \in Int
      <4>1. (s \ {p}) \ {x} \in SUBSET S
        OBVIOUS
      <4>2. IsFiniteSet((s \ {p}) \ {x})
        BY <4>1, FS_Subset
      <4> QED BY <2>1, <4>1, <4>2, SumInt
    <3> DEFINE r == SumOf(w, (s \ {p}) \ {x})
    <3>6. SumOf(w, s \ {p}) = w[x] + r /\ SumOf(w, s \ {x}) = w[p] + r /\ r \in Int
      BY <3>1, <3>3, <3>4, <3>5
    <3> HIDE DEF r
    <3>7. w[p] + (w[x] + r) = w[x] + (w[p] + r)
      BY <3>5, <3>6
    <3> QED BY <2>1, <3>6, <3>7
  <2> QED BY <2>2, <2>3
<1> HIDE DEF G
<1>3. Cardinality(S) \in G
  BY <1>1, <1>2, NatSetInduction, FS_CardinalityType
<1>4. Split(S)
  BY <1>3, FS_CardinalityType DEF G
<1> QED BY <1>4

LEMMA SumAdd ==
  ASSUME NEW S, IsFiniteSet(S), NEW w, NEW y, y \notin S,
         \A x \in S \cup {y} : w[x] \in Int
  PROVE  SumOf(w, S \cup {y}) = w[y] + SumOf(w, S)
<1>1. IsFiniteSet(S \cup {y}) /\ (S \cup {y}) \ {y} = S
  BY FS_AddElement
<1> QED BY <1>1, SumRemove

(***************************************************************************)
(* The sum MapThenSumSet makes of the byte counts of a set of records.     *)
(***************************************************************************)
LEMMA MappedSum ==
  ASSUME NEW S, IsFiniteSet(S), \A b \in S : b.bytes \in Nat
  PROVE  MapThenSumSet(LAMBDA b : b.bytes, S) = SumOf([b \in S |-> b.bytes], S)
<1> DEFINE w == [b \in S |-> b.bytes]
           Right(f) == f = [s \in SUBSET S |->
                              IF s = {} THEN 0
                              ELSE LET x == CHOOSE x \in s : TRUE
                                   IN  x.bytes + f[s \ {x}]]
<1>1. ASSUME NEW f PROVE Right(f) <=> SumRecursion(f, w, S)
  <2>1. \A s \in SUBSET S :
          Unfolded(f, w, s) = IF s = {} THEN 0
                           ELSE LET x == CHOOSE x \in s : TRUE
                                IN  x.bytes + f[s \ {x}]
    BY DEF Unfolded, Picked
  <2>2. [s \in SUBSET S |-> Unfolded(f, w, s)] =
        [s \in SUBSET S |-> IF s = {} THEN 0
                           ELSE LET x == CHOOSE x \in s : TRUE
                                IN  x.bytes + f[s \ {x}]]
    BY <2>1
  <2> HIDE DEF w
  <2> QED BY <2>2 DEF SumRecursion
<1>2. \E f : Right(f)
  <2>0. \A b \in S : w[b] \in Int
    OBVIOUS
  <2>1. PICK f : SumRecursion(f, w, S)
    BY <2>0, SumRecursionExists
  <2>2. Right(f)
    BY <1>1, <2>1
  <2> HIDE DEF Right
  <2> QED BY <2>2
<1>3. Right(CHOOSE f : Right(f))
  BY <1>2
<1>4. MapThenSumSet(LAMBDA b : b.bytes, S) = (CHOOSE f : Right(f))[S]
  BY DEF MapThenSumSet, MapThenFoldSet
<1>5. SumRecursion(CHOOSE f : Right(f), w, S)
  BY <1>1, <1>3
<1> HIDE DEF w, Right
<1>6. SumOf(w, S) = (CHOOSE f : Right(f))[S]
  BY <1>5, SumOfRecursion
<1> QED BY <1>4, <1>6 DEF w

(***************************************************************************)
(* The sum FoldSeq makes of the byte counts of a sequence of records.      *)
(***************************************************************************)
LEMMA FoldedSum ==
  ASSUME NEW s, IsFiniteSet(DOMAIN s), \A i \in DOMAIN s : s[i].bytes \in Nat
  PROVE  FoldSeq(LAMBDA b, sum : b.bytes + sum, 0, s)
           = SumOf([i \in DOMAIN s |-> s[i].bytes], DOMAIN s)
<1> DEFINE D == DOMAIN s
           w == [i \in D |-> s[i].bytes]
           Right(f) == f = [e \in SUBSET D |->
                              IF e = {} THEN 0
                              ELSE LET x == CHOOSE x \in e : TRUE
                                   IN  s[x].bytes + f[e \ {x}]]
<1>1. ASSUME NEW f PROVE Right(f) <=> SumRecursion(f, w, D)
  <2>1. \A e \in SUBSET D :
          Unfolded(f, w, e) = IF e = {} THEN 0
                           ELSE LET x == CHOOSE x \in e : TRUE
                                IN  s[x].bytes + f[e \ {x}]
    BY DEF Unfolded, Picked
  <2>2. [e \in SUBSET D |-> Unfolded(f, w, e)] =
        [e \in SUBSET D |-> IF e = {} THEN 0
                           ELSE LET x == CHOOSE x \in e : TRUE
                                IN  s[x].bytes + f[e \ {x}]]
    BY <2>1
  <2> HIDE DEF w
  <2> QED BY <2>2 DEF SumRecursion
<1>2. \E f : Right(f)
  <2>0. \A i \in D : w[i] \in Int
    OBVIOUS
  <2>1. PICK f : SumRecursion(f, w, D)
    BY <2>0, SumRecursionExists
  <2> HIDE DEF Right, w, D
  <2>2. Right(f)
    BY <1>1, <2>1
  <2> QED BY <2>2
<1>3. Right(CHOOSE f : Right(f))
  BY <1>2
<1>4. FoldSeq(LAMBDA b, sum : b.bytes + sum, 0, s) = (CHOOSE f : Right(f))[D]
  BY DEF FoldSeq, FoldFunction, FoldFunctionOnSet, MapThenFoldSet
<1>5. SumRecursion(CHOOSE f : Right(f), w, D)
  BY <1>1, <1>3
<1> HIDE DEF w, Right, D
<1>6. IsFiniteSet(D)
  BY DEF D
<1>7. SumOf(w, D) = (CHOOSE f : Right(f))[D]
  BY <1>5, <1>6, SumOfRecursion
<1> QED BY <1>4, <1>7 DEF w, D

(***************************************************************************)
(* The sum over a sequence without repetition is the one over its          *)
(* elements.                                                               *)
(***************************************************************************)
LEMMA SumImage ==
  ASSUME NEW D, IsFiniteSet(D), NEW s, NEW w, \A i \in D : w[s[i]] \in Int,
         \A i, j \in D : s[i] = s[j] => i = j
  PROVE  /\ SumOf([i \in D |-> w[s[i]]], D) = SumOf(w, {s[i] : i \in D})
         /\ IsFiniteSet({s[i] : i \in D})
<1> DEFINE v == [i \in D |-> w[s[i]]]
           Image(e) == {s[i] : i \in e}
           G == {n \in Nat : \A e \in SUBSET D : Cardinality(e) <= n =>
                   IsFiniteSet(Image(e)) /\ SumOf(v, e) = SumOf(w, Image(e))}
<1>1. 0 \in G
  <2>1. ASSUME NEW e \in SUBSET D, Cardinality(e) <= 0 PROVE e = {}
    BY <2>1, OnlyEmpty
  <2>2. Image({}) = {}
    OBVIOUS
  <2>3. SumOf(v, {}) = 0 /\ SumOf(w, {}) = 0 /\ IsFiniteSet({})
    BY SumEmpty, FS_EmptySet
  <2> HIDE DEF v, Image
  <2> QED BY <2>1, <2>2, <2>3
<1>2. ASSUME NEW n \in Nat, n \in G PROVE n + 1 \in G
  <2> SUFFICES ASSUME NEW e \in SUBSET D, Cardinality(e) <= n + 1
               PROVE  IsFiniteSet(Image(e)) /\ SumOf(v, e) = SumOf(w, Image(e))
    OBVIOUS
  <2>1. CASE e = {}
    <3>1. Cardinality(e) <= n
      BY <2>1, FS_EmptySet
    <3> QED BY <1>2, <3>1
  <2>2. CASE e # {}
    <3> DEFINE p == Picked(e)
               r == e \ {p}
    <3>1. p \in e /\ r \in SUBSET D /\ Cardinality(r) <= n
      BY <2>2, PickedRemoved
    <3>2. IsFiniteSet(Image(r)) /\ SumOf(v, r) = SumOf(w, Image(r))
      BY <1>2, <3>1
    <3>3. SumOf(v, e) = v[p] + SumOf(v, r)
      <4>1. IsFiniteSet(e)
        BY FS_Subset
      <4>2. \A x \in e : v[x] \in Int
        OBVIOUS
      <4> HIDE DEF v
      <4> QED BY <3>1, <4>1, <4>2, SumRemove
    <3>4. Image(e) = Image(r) \cup {s[p]} /\ s[p] \notin Image(r)
      BY <3>1
    <3>5. \A x \in Image(r) \cup {s[p]} : w[x] \in Int
      BY <3>1
    <3>6. v[p] = w[s[p]]
      BY <3>1
    <3> HIDE DEF p, r, v, Image
    <3>7. SumOf(w, Image(r) \cup {s[p]}) = w[s[p]] + SumOf(w, Image(r))
      BY <3>2, <3>4, <3>5, SumAdd
    <3>8. IsFiniteSet(Image(r) \cup {s[p]})
      BY <3>2, FS_AddElement
    <3> QED BY <3>2, <3>3, <3>4, <3>6, <3>7, <3>8
  <2> QED BY <2>1, <2>2
<1> HIDE DEF G
<1>3. Cardinality(D) \in G
  BY <1>1, <1>2, NatSetInduction, FS_CardinalityType
<1>4. SumOf(v, D) = SumOf(w, Image(D)) /\ IsFiniteSet(Image(D))
  <2> HIDE DEF v, Image
  <2> QED BY <1>3, FS_CardinalityType DEF G
<1> QED BY <1>4


(***************************************************************************)
(* A sum changes by what one of its weights changes by.                    *)
(***************************************************************************)
Bumped(w, S, y, d) == [x \in S |-> IF x = y THEN w[x] + d ELSE w[x]]

LEMMA SumBumped ==
  ASSUME NEW S, IsFiniteSet(S), NEW w, \A x \in S : w[x] \in Int, NEW y \in S, NEW d \in Int
  PROVE  /\ SumOf(Bumped(w, S, y, d), S) = SumOf(w, S) + d
         /\ \A x \in S : Bumped(w, S, y, d)[x] \in Int
<1> DEFINE v == Bumped(w, S, y, d)
           r == S \ {y}
<1>1. \A x \in S : v[x] \in Int /\ v[x] = IF x = y THEN w[x] + d ELSE w[x]
  BY DEF Bumped
<1>2. IsFiniteSet(r)
  BY FS_Subset
<1>3. \A x \in r : v[x] \in Int /\ w[x] \in Int /\ v[x] = w[x]
  BY <1>1
<1> HIDE DEF v
<1>4. SumOf(v, S) = v[y] + SumOf(v, r) /\ SumOf(w, S) = w[y] + SumOf(w, r)
  BY <1>1, SumRemove
<1>5. SumOf(v, r) = SumOf(w, r) /\ SumOf(w, r) \in Int
  <2> HIDE DEF r
  <2> QED BY <1>2, <1>3, SumSame, SumInt
<1>6. v[y] = w[y] + d /\ w[y] \in Int
  BY <1>1
<1> HIDE DEF r
<1>7. SumOf(v, S) = SumOf(w, S) + d
  BY <1>4, <1>5, <1>6
<1> QED BY <1>1, <1>7 DEF v

(***************************************************************************)
(* A sum of zeros.                                                         *)
(***************************************************************************)
LEMMA SumZero ==
  ASSUME NEW S, IsFiniteSet(S), NEW w, \A x \in S : w[x] = 0
  PROVE  SumOf(w, S) = 0
<1> DEFINE z == [s \in SUBSET S |-> 0]
<1>1. ASSUME NEW s \in SUBSET S PROVE z[s] = Unfolded(z, w, s)
  <2>1. CASE s = {}
    BY <2>1 DEF Unfolded
  <2>2. CASE s # {}
    BY <2>2 DEF Unfolded, Picked
  <2> QED BY <2>1, <2>2
<1>2. z = [s \in SUBSET S |-> Unfolded(z, w, s)]
  BY <1>1
<1>3. SumRecursion(z, w, S) /\ z[S] = 0
  BY <1>2 DEF SumRecursion
<1> HIDE DEF z
<1> QED BY <1>3, SumOfRecursion

(***************************************************************************)
(* SumFunction of the community modules is that sum, here over no, one or  *)
(* two elements.                                                           *)
(***************************************************************************)
LEMMA SummedFunction ==
  ASSUME NEW w
  PROVE  SumFunction(w) = SumOf(w, DOMAIN w)
<1>1. SumFunction(w) =
        (CHOOSE f : f = [s \in SUBSET (DOMAIN w) |->
                           IF s = {} THEN 0
                           ELSE LET x == CHOOSE x \in s : TRUE
                                IN  w[x] + f[s \ {x}]])[DOMAIN w]
  BY DEF SumFunction, SumFunctionOnSet, FoldFunctionOnSet, MapThenFoldSet
<1> QED BY <1>1 DEF SumOf, SumRecursion, Unfolded, Picked

LEMMA SummedFew ==
  ASSUME NEW w, \A x \in DOMAIN w : w[x] \in Int
  PROVE  /\ DOMAIN w = {} => SumFunction(w) = 0
         /\ \A x : DOMAIN w = {x} => SumFunction(w) = w[x]
         /\ \A x, y : x # y /\ DOMAIN w = {x, y} => SumFunction(w) = w[x] + w[y]
<1>1. SumFunction(w) = SumOf(w, DOMAIN w) /\ SumOf(w, {}) = 0
  BY SummedFunction, SumEmpty
<1>2. ASSUME NEW x, w[x] \in Int PROVE SumOf(w, {x}) = w[x]
  <2>1. IsFiniteSet({x}) /\ x \in {x} /\ {x} \ {x} = {} /\ \A z \in {x} : w[z] \in Int
    BY <1>2, FS_Singleton
  <2>2. SumOf(w, {x}) = w[x] + SumOf(w, {x} \ {x})
    BY <2>1, SumRemove
  <2> QED BY <1>1, <1>2, <2>1, <2>2
<1>3. ASSUME NEW x, NEW y, x # y, DOMAIN w = {x, y}
      PROVE  SumFunction(w) = w[x] + w[y]
  <2>1. /\ IsFiniteSet({x, y}) /\ x \in {x, y} /\ {x, y} \ {x} = {y}
        /\ \A z \in {x, y} : w[z] \in Int
    <3>1. IsFiniteSet({x}) /\ {x, y} = {x} \cup {y}
      BY FS_Singleton
    <3>2. IsFiniteSet({x} \cup {y})
      BY <3>1, FS_AddElement
    <3> QED BY <1>3, <3>1, <3>2
  <2>2. SumOf(w, {x, y}) = w[x] + SumOf(w, {x, y} \ {x})
    BY <2>1, SumRemove
  <2> QED BY <1>1, <1>2, <1>3, <2>1, <2>2
<1> QED BY <1>1, <1>2, <1>3

-----------------------------------------------------------------------------
(***************************************************************************)
(* Images and unions keep count.                                           *)
(***************************************************************************)
LEMMA SameSize ==
  ASSUME NEW S, IsFiniteSet(S), NEW f, S \subseteq DOMAIN f,
         \A x, y \in S : f[x] = f[y] => x = y
  PROVE  /\ IsFiniteSet({f[x] : x \in S})
         /\ Cardinality({f[x] : x \in S}) = Cardinality(S)
<1> DEFINE T == {f[x] : x \in S}
           g == [x \in S |-> f[x]]
<1>1. g \in Bijection(S, T)
  BY DEF Bijection, Injection, Surjection, IsInjective
<1>2. ExistsBijection(S, T)
  BY <1>1 DEF ExistsBijection
<1> QED BY <1>2, FS_Bijection

LEMMA Apart ==
  ASSUME NEW S, IsFiniteSet(S), NEW T, IsFiniteSet(T), S \cap T = {}
  PROVE  IsFiniteSet(S \cup T) /\ Cardinality(S \cup T) = Cardinality(S) + Cardinality(T)
<1>1. Cardinality(S) \in Nat /\ Cardinality(T) \in Nat
  BY FS_CardinalityType
<1>2. Cardinality(S \cap T) = 0
  BY FS_EmptySet
<1>3. IsFiniteSet(S \cup T) /\ Cardinality(S \cup T) = Cardinality(S) + Cardinality(T) - Cardinality(S \cap T)
  BY FS_Union
<1> QED BY <1>1, <1>2, <1>3

-----------------------------------------------------------------------------
(***************************************************************************)
(* Products of natural weights, as the sums of DataLemmas.                 *)
(***************************************************************************)
Factored(f, w, s) == IF s = {} THEN 1 ELSE w[Picked(s)] * f[s \ {Picked(s)}]

ProductRecursion(f, w, S) == f = [s \in SUBSET S |-> Factored(f, w, s)]

ProductOf(w, S) == (CHOOSE f : ProductRecursion(f, w, S))[S]

LEMMA ProductRecursionExists ==
  ASSUME NEW S, IsFiniteSet(S), NEW w, \A x \in S : w[x] \in Nat
  PROVE  \E f \in [SUBSET S -> Nat] : ProductRecursion(f, w, S)
<1> DEFINE Right(f, n) == \A s \in SUBSET S : Cardinality(s) <= n => f[s] = Factored(f, w, s)
           G == {n \in Nat : \E f \in [SUBSET S -> Nat] : Right(f, n)}
           z == [s \in SUBSET S |-> 1]
<1>a. 1 \in Nat /\ \A x, y \in Nat : x * y \in Nat
  OBVIOUS
<1>0. \A f \in [SUBSET S -> Nat], s \in SUBSET S : Factored(f, w, s) \in Nat
  <2> SUFFICES ASSUME NEW f \in [SUBSET S -> Nat], NEW s \in SUBSET S, s # {}
               PROVE  w[Picked(s)] * f[s \ {Picked(s)}] \in Nat
    BY <1>a DEF Factored
  <2>1. w[Picked(s)] \in Nat /\ f[s \ {Picked(s)}] \in Nat
    BY PickedRemoved
  <2> QED BY <1>a, <2>1
<1>1. 0 \in G
  <2>1. z \in [SUBSET S -> Nat]
    BY <1>a
  <2>2. ASSUME NEW s \in SUBSET S, Cardinality(s) <= 0 PROVE s = {}
    BY <2>2, OnlyEmpty
  <2>3. Right(z, 0)
    BY <2>2 DEF Factored
  <2> QED BY <2>1, <2>3
<1>2. ASSUME NEW n \in Nat, n \in G PROVE n + 1 \in G
  <2>1. PICK f \in [SUBSET S -> Nat] : Right(f, n)
    BY <1>2
  <2> DEFINE g == [s \in SUBSET S |-> Factored(f, w, s)]
  <2>2. g \in [SUBSET S -> Nat]
    BY <1>0
  <2>3. ASSUME NEW s \in SUBSET S, Cardinality(s) <= n + 1
        PROVE  g[s] = Factored(g, w, s)
    <3>1. CASE s = {}
      BY <3>1 DEF Factored
    <3>2. CASE s # {}
      <4>1. s \ {Picked(s)} \in SUBSET S /\ Cardinality(s \ {Picked(s)}) <= n
        BY <2>3, <3>2, PickedRemoved
      <4>2. g[s \ {Picked(s)}] = f[s \ {Picked(s)}]
        BY <2>1, <4>1
      <4>3. g[s] = w[Picked(s)] * f[s \ {Picked(s)}]
        BY <3>2 DEF Factored
      <4> QED BY <3>2, <4>2, <4>3 DEF Factored
    <3> QED BY <3>1, <3>2
  <2>4. Right(g, n + 1)
    BY <2>3
  <2> HIDE DEF Right, g
  <2> QED BY <2>2, <2>4
<1> HIDE DEF G
<1>3. Nat \subseteq G
  BY <1>1, <1>2, NatSetInduction
<1>4. Cardinality(S) \in G
  BY <1>3, FS_CardinalityType
<1>5. PICK f \in [SUBSET S -> Nat] : Right(f, Cardinality(S))
  BY <1>4 DEF G
<1>6. \A s \in SUBSET S : f[s] = Factored(f, w, s)
  BY <1>5, FS_Subset
<1>7. f = [s \in SUBSET S |-> Factored(f, w, s)]
  BY <1>6
<1> QED BY <1>7 DEF ProductRecursion

LEMMA ProductRecursionsAgree ==
  ASSUME NEW S, IsFiniteSet(S), NEW w, NEW f, ProductRecursion(f, w, S),
         NEW T, IsFiniteSet(T), NEW v, NEW g, ProductRecursion(g, v, T),
         \A x \in S \cap T : w[x] = v[x]
  PROVE  \A s \in SUBSET (S \cap T) : f[s] = g[s]
<1> DEFINE G == {n \in Nat : \A s \in SUBSET (S \cap T) : Cardinality(s) <= n => f[s] = g[s]}
<1>0. \A s \in SUBSET (S \cap T) : f[s] = Factored(f, w, s) /\ g[s] = Factored(g, v, s)
  BY DEF ProductRecursion
<1>e. \A s \in SUBSET (S \cap T) : s = {} => f[s] = g[s]
  BY <1>0 DEF Factored
<1>1. 0 \in G
  <2>1. ASSUME NEW s \in SUBSET (S \cap T), Cardinality(s) <= 0 PROVE s = {}
    BY <2>1, OnlyEmpty
  <2> QED BY <1>0, <2>1 DEF Factored
<1>2. ASSUME NEW n \in Nat, n \in G PROVE n + 1 \in G
  <2> SUFFICES ASSUME NEW s \in SUBSET (S \cap T), Cardinality(s) <= n + 1, s # {}
               PROVE  f[s] = g[s]
    BY <1>e
  <2>1. /\ Picked(s) \in S \cap T /\ s \ {Picked(s)} \in SUBSET (S \cap T)
        /\ Cardinality(s \ {Picked(s)}) <= n
    BY PickedRemoved
  <2>2. f[s \ {Picked(s)}] = g[s \ {Picked(s)}]
    BY <1>2, <2>1
  <2> QED BY <1>0, <2>1, <2>2 DEF Factored
<1> HIDE DEF G
<1>3. Nat \subseteq G
  BY <1>1, <1>2, NatSetInduction
<1>4. ASSUME NEW s \in SUBSET (S \cap T) PROVE f[s] = g[s]
  <2>1. Cardinality(s) \in G
    BY <1>3, FS_Subset, FS_CardinalityType
  <2> QED BY <2>1 DEF G
<1> QED BY <1>4

LEMMA ProductOfRecursion ==
  ASSUME NEW S, IsFiniteSet(S), NEW w, NEW f, ProductRecursion(f, w, S)
  PROVE  ProductOf(w, S) = f[S]
<1>1. ProductRecursion(CHOOSE g : ProductRecursion(g, w, S), w, S)
  OBVIOUS
<1>2. \A s \in SUBSET (S \cap S) : (CHOOSE g : ProductRecursion(g, w, S))[s] = f[s]
  BY <1>1, ProductRecursionsAgree
<1> QED BY <1>2 DEF ProductOf

LEMMA ProductWithin ==
  ASSUME NEW S, IsFiniteSet(S), NEW w, NEW f, ProductRecursion(f, w, S), NEW T \in SUBSET S
  PROVE  ProductOf(w, T) = f[T]
<1> DEFINE g == [s \in SUBSET T |-> f[s]]
<1>1. IsFiniteSet(T)
  BY FS_Subset
<1>2. ASSUME NEW s \in SUBSET T PROVE g[s] = Factored(g, w, s)
  <2>1. f[s] = Factored(f, w, s)
    BY DEF ProductRecursion
  <2>2. CASE s = {}
    BY <2>1, <2>2 DEF Factored
  <2>3. CASE s # {}
    BY <2>1, <2>3 DEF Factored
  <2> QED BY <2>2, <2>3
<1>3. g = [s \in SUBSET T |-> Factored(g, w, s)]
  BY <1>2
<1>4. ProductRecursion(g, w, T)
  BY <1>3 DEF ProductRecursion
<1>5. g[T] = f[T]
  OBVIOUS
<1> HIDE DEF g
<1> QED BY <1>1, <1>4, <1>5, ProductOfRecursion

LEMMA ProductEmpty == ASSUME NEW w PROVE ProductOf(w, {}) = 1
<1>1. IsFiniteSet({})
  BY FS_EmptySet
<1>2. PICK f : ProductRecursion(f, w, {})
  BY <1>1, ProductRecursionExists
<1>3. f[{}] = Factored(f, w, {})
  BY <1>2 DEF ProductRecursion
<1> QED BY <1>1, <1>2, <1>3, ProductOfRecursion DEF Factored

LEMMA ProductType ==
  ASSUME NEW S, IsFiniteSet(S), NEW w, \A x \in S : w[x] \in Nat
  PROVE  ProductOf(w, S) \in Nat
<1>1. PICK f \in [SUBSET S -> Nat] : ProductRecursion(f, w, S)
  BY ProductRecursionExists
<1> QED BY <1>1, ProductOfRecursion

LEMMA ProductSame ==
  ASSUME NEW S, IsFiniteSet(S), NEW w, NEW v, \A x \in S : w[x] \in Nat,
         \A x \in S : v[x] = w[x]
  PROVE  ProductOf(v, S) = ProductOf(w, S)
<1>1. PICK f : ProductRecursion(f, w, S)
  BY ProductRecursionExists
<1>2. PICK g : ProductRecursion(g, v, S)
  BY ProductRecursionExists
<1>3. f[S] = g[S]
  <2>1. \A s \in SUBSET (S \cap S) : g[s] = f[s]
    BY <1>1, <1>2, ProductRecursionsAgree
  <2> QED BY <2>1
<1> QED BY <1>1, <1>2, <1>3, ProductOfRecursion

LEMMA ProductPicked ==
  ASSUME NEW S, IsFiniteSet(S), NEW w, \A x \in S : w[x] \in Nat,
         NEW s \in SUBSET S, s # {}
  PROVE  ProductOf(w, s) = w[Picked(s)] * ProductOf(w, s \ {Picked(s)})
<1>1. PICK f : ProductRecursion(f, w, S)
  BY ProductRecursionExists
<1>2. f[s] = w[Picked(s)] * f[s \ {Picked(s)}]
  BY <1>1 DEF ProductRecursion, Factored
<1>3. s \ {Picked(s)} \in SUBSET S
  OBVIOUS
<1>4. ProductOf(w, s) = f[s] /\ ProductOf(w, s \ {Picked(s)}) = f[s \ {Picked(s)}]
  BY <1>1, <1>3, ProductWithin
<1> QED BY <1>2, <1>4

LEMMA ProductRemove ==
  ASSUME NEW S, IsFiniteSet(S), NEW w, \A x \in S : w[x] \in Nat, NEW y \in S
  PROVE  ProductOf(w, S) = w[y] * ProductOf(w, S \ {y})
<1> DEFINE Divides(s) == \A x \in s : ProductOf(w, s) = w[x] * ProductOf(w, s \ {x})
           G == {n \in Nat : \A s \in SUBSET S : Cardinality(s) <= n => Divides(s)}
<1>1. 0 \in G
  <2>1. ASSUME NEW s \in SUBSET S, Cardinality(s) <= 0 PROVE s = {}
    BY <2>1, OnlyEmpty
  <2> QED BY <2>1
<1>2. ASSUME NEW n \in Nat, n \in G PROVE n + 1 \in G
  <2> SUFFICES ASSUME NEW s \in SUBSET S, Cardinality(s) <= n + 1, NEW x \in s
               PROVE  ProductOf(w, s) = w[x] * ProductOf(w, s \ {x})
    OBVIOUS
  <2> DEFINE p == Picked(s)
  <2>1. /\ p \in s /\ s \ {p} \in SUBSET S /\ Cardinality(s \ {p}) <= n
        /\ ProductOf(w, s) = w[p] * ProductOf(w, s \ {p})
    BY PickedRemoved, ProductPicked
  <2> HIDE DEF p
  <2>2. CASE x = p
    BY <2>1, <2>2
  <2>3. CASE x # p
    <3>1. /\ s \ {x} \in SUBSET S /\ p \in s \ {x} /\ x \in s \ {p}
          /\ (s \ {x}) \ {p} = (s \ {p}) \ {x}
      BY <2>1, <2>3
    <3>2. Cardinality(s \ {x}) <= n
      BY FS_Subset, FS_RemoveElement, FS_CardinalityType
    <3>3. ProductOf(w, s \ {p}) = w[x] * ProductOf(w, (s \ {p}) \ {x})
      BY <1>2, <2>1, <3>1
    <3>4. ProductOf(w, s \ {x}) = w[p] * ProductOf(w, (s \ {x}) \ {p})
      BY <1>2, <3>1, <3>2
    <3>5. ProductOf(w, (s \ {p}) \ {x}) \in Nat /\ w[x] \in Nat /\ w[p] \in Nat
      <4>1. (s \ {p}) \ {x} \in SUBSET S
        OBVIOUS
      <4>2. IsFiniteSet((s \ {p}) \ {x})
        BY <4>1, FS_Subset
      <4> QED BY <2>1, <4>1, <4>2, ProductType
    <3> DEFINE r == ProductOf(w, (s \ {p}) \ {x})
    <3>6. ProductOf(w, s \ {p}) = w[x] * r /\ ProductOf(w, s \ {x}) = w[p] * r /\ r \in Nat
      BY <3>1, <3>3, <3>4, <3>5
    <3> HIDE DEF r
    <3>7. w[p] * (w[x] * r) = w[x] * (w[p] * r)
      BY <3>5, <3>6
    <3> QED BY <2>1, <3>6, <3>7
  <2> QED BY <2>2, <2>3
<1> HIDE DEF G
<1>3. Cardinality(S) \in G
  BY <1>1, <1>2, NatSetInduction, FS_CardinalityType
<1>4. Divides(S)
  BY <1>3, FS_CardinalityType DEF G
<1> QED BY <1>4

LEMMA ProductAdd ==
  ASSUME NEW S, IsFiniteSet(S), NEW w, NEW y, y \notin S,
         \A x \in S \cup {y} : w[x] \in Nat
  PROVE  ProductOf(w, S \cup {y}) = w[y] * ProductOf(w, S)
<1>1. IsFiniteSet(S \cup {y}) /\ (S \cup {y}) \ {y} = S
  BY FS_AddElement
<1> QED BY <1>1, ProductRemove

LEMMA ProductImage ==
  ASSUME NEW D, IsFiniteSet(D), NEW s, NEW w, \A i \in D : w[s[i]] \in Nat,
         \A i, j \in D : s[i] = s[j] => i = j
  PROVE  /\ ProductOf([i \in D |-> w[s[i]]], D) = ProductOf(w, {s[i] : i \in D})
         /\ IsFiniteSet({s[i] : i \in D})
<1> DEFINE v == [i \in D |-> w[s[i]]]
           Image(e) == {s[i] : i \in e}
           G == {n \in Nat : \A e \in SUBSET D : Cardinality(e) <= n =>
                   IsFiniteSet(Image(e)) /\ ProductOf(v, e) = ProductOf(w, Image(e))}
<1>1. 0 \in G
  <2>1. ASSUME NEW e \in SUBSET D, Cardinality(e) <= 0 PROVE e = {}
    BY <2>1, OnlyEmpty
  <2>2. Image({}) = {}
    OBVIOUS
  <2>3. ProductOf(v, {}) = 1 /\ ProductOf(w, {}) = 1 /\ IsFiniteSet({})
    BY ProductEmpty, FS_EmptySet
  <2> HIDE DEF v, Image
  <2> QED BY <2>1, <2>2, <2>3
<1>2. ASSUME NEW n \in Nat, n \in G PROVE n + 1 \in G
  <2> SUFFICES ASSUME NEW e \in SUBSET D, Cardinality(e) <= n + 1
               PROVE  IsFiniteSet(Image(e)) /\ ProductOf(v, e) = ProductOf(w, Image(e))
    OBVIOUS
  <2>1. CASE e = {}
    <3>1. Cardinality(e) <= n
      BY <2>1, FS_EmptySet
    <3> QED BY <1>2, <3>1
  <2>2. CASE e # {}
    <3> DEFINE p == Picked(e)
               r == e \ {p}
    <3>1. p \in e /\ r \in SUBSET D /\ Cardinality(r) <= n
      BY <2>2, PickedRemoved
    <3>2. IsFiniteSet(Image(r)) /\ ProductOf(v, r) = ProductOf(w, Image(r))
      BY <1>2, <3>1
    <3>3. ProductOf(v, e) = v[p] * ProductOf(v, r)
      <4>1. IsFiniteSet(e)
        BY FS_Subset
      <4>2. \A x \in e : v[x] \in Nat
        OBVIOUS
      <4> HIDE DEF v
      <4> QED BY <3>1, <4>1, <4>2, ProductRemove
    <3>4. Image(e) = Image(r) \cup {s[p]} /\ s[p] \notin Image(r)
      BY <3>1
    <3>5. \A x \in Image(r) \cup {s[p]} : w[x] \in Nat
      BY <3>1
    <3>6. v[p] = w[s[p]]
      BY <3>1
    <3> HIDE DEF p, r, v, Image
    <3>7. ProductOf(w, Image(r) \cup {s[p]}) = w[s[p]] * ProductOf(w, Image(r))
      BY <3>2, <3>4, <3>5, ProductAdd
    <3>8. IsFiniteSet(Image(r) \cup {s[p]})
      BY <3>2, FS_AddElement
    <3> QED BY <3>2, <3>3, <3>4, <3>6, <3>7, <3>8
  <2> QED BY <2>1, <2>2
<1> HIDE DEF G
<1>3. Cardinality(D) \in G
  BY <1>1, <1>2, NatSetInduction, FS_CardinalityType
<1>4. ProductOf(v, D) = ProductOf(w, Image(D)) /\ IsFiniteSet(Image(D))
  <2> HIDE DEF v, Image
  <2> QED BY <1>3, FS_CardinalityType DEF G
<1> QED BY <1>4

-----------------------------------------------------------------------------
(***************************************************************************)
(* A set of sets that is closed under adding elements has the whole set.   *)
(***************************************************************************)
LEMMA FiniteInduction ==
  ASSUME NEW S, IsFiniteSet(S), NEW G, {} \in G,
         \A e \in SUBSET S : \A y \in S \ e : e \in G => e \cup {y} \in G
  PROVE  S \in G
<1> DEFINE H == {n \in Nat : \A e \in SUBSET S : Cardinality(e) <= n => e \in G}
<1>1. 0 \in H
  <2>1. ASSUME NEW e \in SUBSET S, Cardinality(e) <= 0 PROVE e = {}
    BY <2>1, OnlyEmpty
  <2> QED BY <2>1
<1>2. ASSUME NEW n \in Nat, n \in H PROVE n + 1 \in H
  <2> SUFFICES ASSUME NEW e \in SUBSET S, Cardinality(e) <= n + 1 PROVE e \in G
    OBVIOUS
  <2>1. CASE e = {}
    BY <2>1
  <2>2. CASE e # {}
    <3> DEFINE p == Picked(e)
               r == e \ {p}
    <3>0. p \in e /\ r \in SUBSET S /\ Cardinality(r) = Cardinality(e) - 1 /\ Cardinality(e) \in Nat
      BY <2>2, PickedRemoved
    <3>1. p \in e /\ r \in SUBSET S /\ Cardinality(r) <= n
      <4> HIDE DEF p, r
      <4> QED BY <3>0
    <3>2. r \in G /\ p \in S \ r /\ r \cup {p} = e
      BY <1>2, <3>1
    <3> HIDE DEF r, p
    <3> QED BY <3>1, <3>2
  <2> QED BY <2>1, <2>2
<1> HIDE DEF H
<1>3. Cardinality(S) \in H
  BY <1>1, <1>2, NatSetInduction, FS_CardinalityType
<1> QED BY <1>3, FS_CardinalityType DEF H

(***************************************************************************)
(* Sums and products over two sets that have nothing in common.            *)
(***************************************************************************)
LEMMA SumApart ==
  ASSUME NEW S, IsFiniteSet(S), NEW T, IsFiniteSet(T), S \cap T = {},
         NEW w, \A x \in S \cup T : w[x] \in Int
  PROVE  SumOf(w, S \cup T) = SumOf(w, S) + SumOf(w, T)
<1> DEFINE G == {e \in SUBSET T : SumOf(w, S \cup e) = SumOf(w, S) + SumOf(w, e)}
<1>0. SumOf(w, S) \in Int
  BY SumInt
<1>1. {} \in G
  <2>1. S \cup {} = S /\ SumOf(w, {}) = 0
    BY SumEmpty
  <2> QED BY <1>0, <2>1
<1>2. ASSUME NEW e \in SUBSET T, NEW y \in T \ e, e \in G PROVE e \cup {y} \in G
  <2>1. /\ IsFiniteSet(e) /\ IsFiniteSet(S \cup e) /\ y \notin S \cup e
        /\ S \cup (e \cup {y}) = (S \cup e) \cup {y}
    BY FS_Subset, FS_Union
  <2>2. SumOf(w, e \cup {y}) = w[y] + SumOf(w, e)
    BY <2>1, SumAdd
  <2>3. SumOf(w, (S \cup e) \cup {y}) = w[y] + SumOf(w, S \cup e)
    BY <2>1, SumAdd
  <2>4. SumOf(w, e) \in Int /\ w[y] \in Int
    BY <2>1, SumInt
  <2> DEFINE a == SumOf(w, S)
             b == SumOf(w, e)
             c == w[y]
  <2>5. a \in Int /\ b \in Int /\ c \in Int
    BY <1>0, <2>4
  <2> HIDE DEF a, b, c
  <2>6. c + (a + b) = a + (c + b)
    BY <2>5
  <2> QED BY <1>2, <2>1, <2>2, <2>3, <2>6 DEF a, b, c
<1>3. T \in G
  <2> HIDE DEF G
  <2> QED BY <1>1, <1>2, FiniteInduction
<1> QED BY <1>3

LEMMA ProductApart ==
  ASSUME NEW S, IsFiniteSet(S), NEW T, IsFiniteSet(T), S \cap T = {},
         NEW w, \A x \in S \cup T : w[x] \in Nat
  PROVE  ProductOf(w, S \cup T) = ProductOf(w, S) * ProductOf(w, T)
<1> DEFINE G == {e \in SUBSET T : ProductOf(w, S \cup e) = ProductOf(w, S) * ProductOf(w, e)}
<1>0. ProductOf(w, S) \in Nat
  BY ProductType
<1>1. {} \in G
  <2>1. S \cup {} = S /\ ProductOf(w, {}) = 1
    BY ProductEmpty
  <2> QED BY <1>0, <2>1
<1>2. ASSUME NEW e \in SUBSET T, NEW y \in T \ e, e \in G PROVE e \cup {y} \in G
  <2>1. /\ IsFiniteSet(e) /\ IsFiniteSet(S \cup e) /\ y \notin S \cup e
        /\ S \cup (e \cup {y}) = (S \cup e) \cup {y}
    BY FS_Subset, FS_Union
  <2>2. ProductOf(w, e \cup {y}) = w[y] * ProductOf(w, e)
    BY <2>1, ProductAdd
  <2>3. ProductOf(w, (S \cup e) \cup {y}) = w[y] * ProductOf(w, S \cup e)
    BY <2>1, ProductAdd
  <2>4. ProductOf(w, e) \in Nat /\ w[y] \in Nat
    BY <2>1, ProductType
  <2> DEFINE a == ProductOf(w, S)
             b == ProductOf(w, e)
             c == w[y]
  <2>5. a \in Nat /\ b \in Nat /\ c \in Nat
    BY <1>0, <2>4
  <2> HIDE DEF a, b, c
  <2>6. c * (a * b) = a * (c * b)
    BY <2>5
  <2> QED BY <1>2, <2>1, <2>2, <2>3, <2>6 DEF a, b, c
<1>3. T \in G
  <2> HIDE DEF G
  <2> QED BY <1>1, <1>2, FiniteInduction
<1> QED BY <1>3

LEMMA ProductOnes ==
  ASSUME NEW S, IsFiniteSet(S), NEW w, \A x \in S : w[x] = 1
  PROVE  ProductOf(w, S) = 1
<1> DEFINE G == {e \in SUBSET S : ProductOf(w, e) = 1}
<1>1. {} \in G
  BY ProductEmpty
<1>2. ASSUME NEW e \in SUBSET S, NEW y \in S \ e, e \in G PROVE e \cup {y} \in G
  <2>1. IsFiniteSet(e) /\ y \notin e /\ w[y] = 1 /\ \A x \in e \cup {y} : w[x] \in Nat
    BY FS_Subset
  <2>2. ProductOf(w, e \cup {y}) = w[y] * ProductOf(w, e)
    BY <2>1, ProductAdd
  <2> QED BY <1>2, <2>1, <2>2
<1>3. S \in G
  <2> HIDE DEF G
  <2> QED BY <1>1, <1>2, FiniteInduction
<1> QED BY <1>3

(***************************************************************************)
(* Terms of zero and factors of one may be left out; a product is zero if  *)
(* a factor is.                                                            *)
(***************************************************************************)
LEMMA SumRest ==
  ASSUME NEW S, IsFiniteSet(S), NEW T \in SUBSET S, NEW w, \A x \in S : w[x] \in Int,
         \A x \in S \ T : w[x] = 0
  PROVE  SumOf(w, S) = SumOf(w, T)
<1>1. /\ IsFiniteSet(T) /\ IsFiniteSet(S \ T) /\ T \cap (S \ T) = {} /\ T \cup (S \ T) = S
  BY FS_Subset
<1>2. SumOf(w, S \ T) = 0
  BY <1>1, SumZero
<1>3. SumOf(w, T \cup (S \ T)) = SumOf(w, T) + SumOf(w, S \ T)
  BY <1>1, SumApart
<1>4. SumOf(w, T) \in Int
  BY <1>1, SumInt
<1>5. SumOf(w, S) = SumOf(w, T) + SumOf(w, S \ T)
  BY <1>1, <1>3
<1> QED BY <1>2, <1>4, <1>5

LEMMA ProductRest ==
  ASSUME NEW S, IsFiniteSet(S), NEW T \in SUBSET S, NEW w, \A x \in S : w[x] \in Nat,
         \A x \in S \ T : w[x] = 1
  PROVE  ProductOf(w, S) = ProductOf(w, T)
<1>1. /\ IsFiniteSet(T) /\ IsFiniteSet(S \ T) /\ T \cap (S \ T) = {} /\ T \cup (S \ T) = S
  BY FS_Subset
<1>2. ProductOf(w, S \ T) = 1
  BY <1>1, ProductOnes
<1>3. ProductOf(w, T \cup (S \ T)) = ProductOf(w, T) * ProductOf(w, S \ T)
  BY <1>1, ProductApart
<1>4. ProductOf(w, T) \in Nat
  BY <1>1, ProductType
<1>5. ProductOf(w, S) = ProductOf(w, T) * ProductOf(w, S \ T)
  BY <1>1, <1>3
<1> QED BY <1>2, <1>4, <1>5

LEMMA ProductZero ==
  ASSUME NEW S, IsFiniteSet(S), NEW w, \A x \in S : w[x] \in Nat
  PROVE  ProductOf(w, S) = 0 <=> \E x \in S : w[x] = 0
<1> DEFINE G == {e \in SUBSET S : ProductOf(w, e) = 0 <=> \E x \in e : w[x] = 0}
<1>1. {} \in G
  BY ProductEmpty
<1>2. ASSUME NEW e \in SUBSET S, NEW y \in S \ e, e \in G PROVE e \cup {y} \in G
  <2>1. IsFiniteSet(e) /\ y \notin e /\ w[y] \in Nat /\ \A x \in e \cup {y} : w[x] \in Nat
    BY FS_Subset
  <2>2. ProductOf(w, e \cup {y}) = w[y] * ProductOf(w, e)
    BY <2>1, ProductAdd
  <2>3. ProductOf(w, e) \in Nat
    BY <2>1, ProductType
  <2>4. w[y] * ProductOf(w, e) = 0 <=> w[y] = 0 \/ ProductOf(w, e) = 0
    BY <2>1, <2>3
  <2> QED BY <1>2, <2>1, <2>2, <2>4
<1>3. S \in G
  <2> HIDE DEF G
  <2> QED BY <1>1, <1>2, FiniteInduction
<1> QED BY <1>3

-----------------------------------------------------------------------------
(***************************************************************************)
(* Sequences put one after the other.                                      *)
(***************************************************************************)
LEMMA FlattenSteps ==
  ASSUME NEW V, NEW seqs \in Seq(Seq(V)), Len(seqs) # 0
  PROVE  \E whole : /\ FlattenSeq(seqs) = whole[Len(seqs)]
                    /\ \A i \in 1..Len(seqs) :
                         whole[i] = IF i = 1 THEN seqs[i] ELSE whole[i - 1] \o seqs[i]
<1> DEFINE N == Len(seqs)
           A == Seq(V)
           join == [n \in 1..N |-> [a \in A |-> a \o seqs[n]]]
           Right(f) == f = [i \in 1..Len(seqs) |-> IF i = 1 THEN seqs[i] ELSE f[i - 1] \o seqs[i]]
<1>1. N \in Nat /\ N # 0 /\ DOMAIN seqs = 1..N /\ \A n \in 1..N : seqs[n] \in A
  OBVIOUS
<1>2. join \in [1..N -> [A -> A]] /\ <<>> \in A
  BY <1>1
<1>3. PICK f \in [0..N -> A] : f[0] = <<>> /\ \A n \in 1..N : f[n] = f[n - 1] \o seqs[n]
  <2> DEFINE none == <<>>
  <2>1. N \in Nat /\ none \in A /\ join \in Steps(N, A)
    BY <1>1, <1>2 DEF Steps
  <2> HIDE DEF none, join, N, A
  <2>2. PICK f \in [0..N -> A] : f[0] = none /\ \A n \in 1..N : f[n] = join[n][f[n - 1]]
    <3>1. \E f : Recursion(f, N, A, none, join)
      BY <2>1, RecursionDefines
    <3> QED BY <3>1 DEF Recursion
  <2>3. ASSUME NEW n \in 1..N PROVE f[n] = f[n - 1] \o seqs[n]
    <3>1. n - 1 \in 0..N
      BY <2>1
    <3>2. f[n - 1] \in A
      BY <3>1
    <3> QED BY <2>2, <3>2 DEF join
  <2> QED BY <2>2, <2>3 DEF none
<1> HIDE DEF A
<1> DEFINE g == [i \in 1..N |-> f[i]]
<1>4. Right(g)
  <2>1. f[1] = seqs[1]
    <3>1. 1 \in 1..N /\ 1 - 1 = 0 /\ seqs[1] \in Seq(V)
      BY <1>1 DEF A
    <3>2. f[1] = f[0] \o seqs[1]
      BY <1>3, <3>1
    <3> QED BY <1>3, <3>1, <3>2
  <2>2. ASSUME NEW i \in 1..N PROVE g[i] = IF i = 1 THEN seqs[i] ELSE g[i - 1] \o seqs[i]
    <3>1. CASE i = 1
      BY <2>1, <3>1
    <3>2. CASE i # 1
      <4>1. i - 1 \in 1..N
        BY <1>1, <3>2
      <4> QED BY <1>3, <3>2, <4>1
    <3> QED BY <3>1, <3>2
  <2> HIDE DEF g
  <2>3. g = [i \in 1..N |-> g[i]]
    BY DEF g
  <2> QED BY <2>2, <2>3
<1> DEFINE whole == CHOOSE h : Right(h)
<1> HIDE DEF Right, g
<1>5. Right(whole)
  BY <1>4
<1>6. FlattenSeq(seqs) = whole[N]
  BY <1>1 DEF FlattenSeq, Right
<1>7. \A i \in 1..N : whole[i] = IF i = 1 THEN seqs[i] ELSE whole[i - 1] \o seqs[i]
  <2> HIDE DEF whole
  <2> QED BY <1>5 DEF Right
<1> HIDE DEF whole
<1> QED BY <1>6, <1>7
=============================================================================
