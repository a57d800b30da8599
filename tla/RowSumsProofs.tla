---------------------------- MODULE RowSumsProofs -----------------------------
(***************************************************************************)
(* What the kernels of RowSums add, and in which order.                    *)
(***************************************************************************)
EXTENDS RowSums, DataLemmas

\* An order adds n elements, those at the addresses in A.
Adds(order, n, A) ==
  order \in Seq(Int) /\ Cardinality(Reads(order)) = n /\ Addresses(order) = A

LEMMA ReadsFinite ==
  ASSUME NEW s \in Seq(Int)
  PROVE  Reads(s) \subseteq 1..Len(s) /\ IsFiniteSet(Reads(s)) /\ Cardinality(Reads(s)) \in Nat
<1>1. Len(s) \in Nat /\ Reads(s) \subseteq 1..Len(s)
  BY DEF Reads
<1>2. IsFiniteSet(1..Len(s))
  BY <1>1, FS_Interval
<1>3. IsFiniteSet(Reads(s))
  BY <1>1, <1>2, FS_Subset
<1> QED BY <1>1, <1>3, FS_CardinalityType

LEMMA AddsZero == Adds(Zero, 0, {})
<1>1. Zero \in Seq(Int) /\ DOMAIN Zero = {1} /\ Zero[1] = -2
  BY DEF Zero
<1>2. Reads(Zero) = {}
  BY <1>1 DEF Reads
<1>3. Addresses(Zero) = {}
  BY <1>2 DEF Addresses
<1> QED BY <1>1, <1>2, <1>3, FS_EmptySet DEF Adds

LEMMA AddsElement == ASSUME NEW a \in Nat PROVE Adds(Element(a), 1, {a})
<1> DEFINE s == Element(a)
<1>1. s \in Seq(Int) /\ DOMAIN s = {1} /\ s[1] = a
  BY DEF Element
<1> HIDE DEF s
<1>2. Reads(s) = {1}
  BY <1>1 DEF Reads
<1>3. Addresses(s) = {a}
  BY <1>1, <1>2 DEF Addresses
<1> QED BY <1>1, <1>2, <1>3, FS_Singleton DEF Adds, s

LEMMA AddsBoth ==
  ASSUME NEW x, NEW m, NEW A, Adds(x, m, A), NEW y, NEW n, NEW B, Adds(y, n, B)
  PROVE  Adds(Add(x, y), m + n, A \cup B)
<1> DEFINE xy == x \o y
           s == xy \o <<Plus>>
           shift == [j \in Reads(y) |-> Len(x) + j]
           T == {shift[j] : j \in Reads(y)}
<1>1. /\ x \in Seq(Int) /\ y \in Seq(Int) /\ Len(x) \in Nat /\ Len(y) \in Nat
      /\ DOMAIN x = 1..Len(x) /\ DOMAIN y = 1..Len(y)
  BY DEF Adds
<1>2. /\ xy \in Seq(Int) /\ Len(xy) = Len(x) + Len(y)
      /\ \A i \in 1..(Len(x) + Len(y)) : xy[i] = IF i <= Len(x) THEN x[i] ELSE y[i - Len(x)]
  BY <1>1
<1> HIDE DEF xy
<1>3. /\ s \in Seq(Int) /\ Len(s) = Len(x) + Len(y) + 1
      /\ \A i \in 1..(Len(x) + Len(y)) : s[i] = xy[i]
      /\ s[Len(x) + Len(y) + 1] = -1
      /\ DOMAIN s = 1..(Len(x) + Len(y) + 1)
  <2> DEFINE one == <<Plus>>
  <2>1. one \in Seq(Int) /\ Len(one) = 1 /\ one[1] = -1
    BY DEF Plus
  <2> HIDE DEF one
  <2>2. /\ s \in Seq(Int) /\ Len(s) = Len(xy) + Len(one)
        /\ \A i \in 1..(Len(xy) + Len(one)) : s[i] = IF i <= Len(xy) THEN xy[i] ELSE one[i - Len(xy)]
    <3>1. s = xy \o one
      BY DEF one
    <3> QED BY <1>2, <2>1, <3>1
  <2> HIDE DEF s
  <2>3. Len(s) = Len(x) + Len(y) + 1 /\ DOMAIN s = 1..(Len(x) + Len(y) + 1)
    BY <1>1, <1>2, <2>1, <2>2
  <2>4. ASSUME NEW i \in 1..(Len(x) + Len(y)) PROVE s[i] = xy[i]
    BY <1>1, <1>2, <2>1, <2>2
  <2>5. s[Len(x) + Len(y) + 1] = -1
    <3> DEFINE k == Len(x) + Len(y) + 1
    <3>1. k \in 1..(Len(xy) + Len(one)) /\ ~(k <= Len(xy)) /\ k - Len(xy) = 1
      BY <1>1, <1>2, <2>1
    <3> HIDE DEF k
    <3>2. s[k] = one[1]
      BY <2>2, <3>1
    <3> QED BY <2>1, <3>2 DEF k
  <2> QED BY <2>2, <2>3, <2>4, <2>5
<1>4. Add(x, y) = s
  BY DEF Add, xy
<1> HIDE DEF s
<1>5. /\ \A i \in 1..Len(x) : s[i] = x[i]
      /\ \A j \in 1..Len(y) : s[Len(x) + j] = y[j]
  <2>1. ASSUME NEW i \in 1..Len(x) PROVE s[i] = x[i]
    <3>1. i \in 1..(Len(x) + Len(y)) /\ i <= Len(x)
      BY <1>1
    <3> QED BY <1>2, <1>3, <3>1
  <2>2. ASSUME NEW j \in 1..Len(y) PROVE s[Len(x) + j] = y[j]
    <3>1. Len(x) + j \in 1..(Len(x) + Len(y)) /\ ~(Len(x) + j <= Len(x)) /\ Len(x) + j - Len(x) = j
      BY <1>1
    <3>2. s[Len(x) + j] = xy[Len(x) + j]
      BY <1>3, <3>1
    <3>3. xy[Len(x) + j] = y[Len(x) + j - Len(x)]
      BY <1>2, <3>1
    <3>4. y[Len(x) + j - Len(x)] = y[j]
      BY <3>1
    <3> QED BY <3>2, <3>3, <3>4
  <2> QED BY <2>1, <2>2
<1>6. /\ Reads(x) = {i \in 1..Len(x) : x[i] >= 0} /\ Reads(y) = {i \in 1..Len(y) : y[i] >= 0}
      /\ Reads(s) = {i \in 1..(Len(x) + Len(y) + 1) : s[i] >= 0}
  BY <1>1, <1>3 DEF Reads
<1>7. T = {Len(x) + j : j \in Reads(y)}
  OBVIOUS
<1>8. Reads(s) = Reads(x) \cup T
  <2>1. ASSUME NEW i \in Reads(s) PROVE i \in Reads(x) \cup T
    <3>1. CASE i \in 1..Len(x)
      BY <1>5, <1>6, <2>1, <3>1
    <3>2. CASE i \in (Len(x) + 1)..(Len(x) + Len(y))
      <4>1. i - Len(x) \in 1..Len(y) /\ Len(x) + (i - Len(x)) = i
        BY <1>1, <3>2
      <4>2. s[i] = y[i - Len(x)]
        BY <1>5, <4>1
      <4>3. i - Len(x) \in Reads(y)
        BY <1>6, <2>1, <4>1, <4>2
      <4> QED BY <1>7, <4>1, <4>3
    <3>3. CASE i = Len(x) + Len(y) + 1
      BY <1>3, <1>6, <2>1, <3>3
    <3>4. i \in 1..(Len(x) + Len(y) + 1)
      BY <1>6, <2>1
    <3>5. i \in 1..Len(x) \/ i \in (Len(x) + 1)..(Len(x) + Len(y)) \/ i = Len(x) + Len(y) + 1
      BY <1>1, <3>4
    <3> QED BY <3>1, <3>2, <3>3, <3>5
  <2>2. ASSUME NEW i \in Reads(x) PROVE i \in Reads(s)
    BY <1>1, <1>5, <1>6, <2>2
  <2>3. ASSUME NEW j \in Reads(y) PROVE Len(x) + j \in Reads(s)
    <3>1. j \in 1..Len(y) /\ Len(x) + j \in 1..(Len(x) + Len(y) + 1)
      BY <1>1, <1>6
    <3> QED BY <1>5, <1>6, <3>1
  <2> QED BY <1>7, <2>1, <2>2, <2>3
<1>9. Reads(x) \cap T = {}
  <2>1. Reads(x) \subseteq 1..Len(x) /\ Reads(y) \subseteq 1..Len(y)
    BY <1>6
  <2>2. \A i \in 1..Len(x), j \in 1..Len(y) : i # Len(x) + j
    BY <1>1
  <2> QED BY <1>7, <2>1, <2>2
<1>10. /\ IsFiniteSet(Reads(x)) /\ IsFiniteSet(T) /\ Cardinality(T) = Cardinality(Reads(y))
  <2>1. IsFiniteSet(Reads(x)) /\ IsFiniteSet(Reads(y)) /\ Reads(y) \subseteq 1..Len(y)
    BY <1>1, ReadsFinite
  <2>2. DOMAIN shift = Reads(y) /\ \A j, k \in Reads(y) : shift[j] = shift[k] => j = k
    BY <1>1, <2>1
  <2> HIDE DEF shift
  <2> QED BY <2>1, <2>2, SameSize
<1>11. Cardinality(Reads(s)) = m + n
  BY <1>8, <1>9, <1>10, Apart DEF Adds
<1>12. Addresses(s) = A \cup B
  <2>1. /\ Addresses(s) = {s[i] : i \in Reads(x)} \cup {s[i] : i \in T}
        /\ A = {x[i] : i \in Reads(x)} /\ B = {y[i] : i \in Reads(y)}
    BY <1>8 DEF Addresses, Adds
  <2>2. {s[i] : i \in T} = {s[Len(x) + j] : j \in Reads(y)}
    BY <1>7
  <2>3. {s[Len(x) + j] : j \in Reads(y)} = {y[j] : j \in Reads(y)}
    BY <1>5, <1>6
  <2>4. {s[i] : i \in Reads(x)} = {x[i] : i \in Reads(x)}
    BY <1>5, <1>6
  <2> QED BY <2>1, <2>2, <2>3, <2>4
<1> QED BY <1>3, <1>4, <1>11, <1>12 DEF Adds

LEMMA AddedSteps ==
  ASSUME NEW n \in Nat, NEW start \in Seq(Int), NEW term, \A k \in 0..(n - 1) : term[k] \in Seq(Int)
  PROVE  \E f : /\ f[0] = start /\ Added(start, n, term) = f[n]
                /\ \A k \in 1..n : f[k] = Add(f[k - 1], term[k - 1])
<1> DEFINE A == Seq(Int)
           step == [k \in 1..n |-> [a \in A |-> Add(a, term[k - 1])]]
           Right(f) == f = [k \in 0..n |-> IF k = 0 THEN start ELSE Add(f[k - 1], term[k - 1])]
<1>1. ASSUME NEW a \in A, NEW b \in A PROVE Add(a, b) \in A
  BY DEF Add, Plus
<1>2. ASSUME NEW k \in 1..n PROVE k - 1 \in 0..(n - 1) /\ term[k - 1] \in A
  <2>1. k - 1 \in 0..(n - 1)
    OBVIOUS
  <2> QED BY <2>1
<1>3. step \in [1..n -> [A -> A]]
  <2> HIDE DEF A
  <2> QED BY <1>1, <1>2
<1>4. \E f : Right(f)
  <2>0. n \in Nat /\ start \in A /\ step \in Steps(n, A)
    BY <1>3 DEF Steps
  <2> HIDE DEF step, A
  <2>1. PICK f \in [0..n -> A] : f[0] = start /\ \A k \in 1..n : f[k] = step[k][f[k - 1]]
    <3>1. \E f : Recursion(f, n, A, start, step)
      BY <2>0, RecursionDefines
    <3> QED BY <3>1 DEF Recursion
  <2>2. ASSUME NEW k \in 1..n PROVE f[k] = Add(f[k - 1], term[k - 1])
    <3>1. k - 1 \in 0..n
      OBVIOUS
    <3>2. f[k - 1] \in A
      BY <3>1
    <3> QED BY <2>1, <3>2 DEF step
  <2>3. ASSUME NEW k \in 0..n PROVE f[k] = IF k = 0 THEN start ELSE Add(f[k - 1], term[k - 1])
    <3>1. CASE k = 0
      BY <2>1, <3>1
    <3>2. CASE k # 0
      <4>1. k \in 1..n
        BY <3>2
      <4> QED BY <2>2, <3>2, <4>1
    <3> QED BY <3>1, <3>2
  <2>4. Right(f)
    <3> HIDE DEF A
    <3> QED BY <2>1, <2>3
  <2> HIDE DEF Right
  <2> QED BY <2>4
<1> DEFINE sum == CHOOSE f : Right(f)
<1>5. Right(sum)
  BY <1>4
<1>6. Added(start, n, term) = sum[n]
  BY DEF Added
<1>7. sum[0] = start /\ \A k \in 1..n : sum[k] = Add(sum[k - 1], term[k - 1])
  <2> HIDE DEF sum
  <2>1. 0 \in 0..n /\ \A k \in 1..n : k \in 0..n /\ k # 0
    OBVIOUS
  <2> QED BY <1>5, <2>1
<1> HIDE DEF sum, Right
<1> QED BY <1>6, <1>7

\* What the terms 0 to n - 1 add.
Upto(B, n) == UNION {B[k] : k \in 0..(n - 1)}

\* A sum of terms adds what they add.
LEMMA AddedAdds ==
  ASSUME NEW n \in Nat, NEW start, NEW m \in Nat, NEW A, Adds(start, m, A),
         NEW term, NEW c \in Nat, NEW B, \A k \in 0..(n - 1) : Adds(term[k], c, B[k])
  PROVE  Adds(Added(start, n, term), m + n * c, A \cup Upto(B, n))
<1>1. start \in Seq(Int) /\ \A k \in 0..(n - 1) : term[k] \in Seq(Int)
  BY DEF Adds
<1>2. PICK f : /\ f[0] = start /\ Added(start, n, term) = f[n]
               /\ \A k \in 1..n : f[k] = Add(f[k - 1], term[k - 1])
  BY <1>1, AddedSteps
<1> DEFINE G == {k \in Nat : k <= n => Adds(f[k], m + k * c, A \cup Upto(B, k))}
<1>3. 0 \in G
  <2>1. Upto(B, 0) = {} /\ m + 0 * c = m
    BY DEF Upto
  <2> QED BY <1>2, <2>1
<1>4. ASSUME NEW k \in Nat, k \in G PROVE k + 1 \in G
  <2> SUFFICES ASSUME k + 1 <= n PROVE Adds(f[k + 1], m + (k + 1) * c, A \cup Upto(B, k + 1))
    OBVIOUS
  <2>1. k + 1 \in 1..n /\ k \in 0..(n - 1) /\ (k + 1) - 1 = k
    OBVIOUS
  <2>2. f[k + 1] = Add(f[k], term[k])
    BY <1>2, <2>1
  <2>3. Adds(f[k], m + k * c, A \cup Upto(B, k)) /\ Adds(term[k], c, B[k])
    BY <1>4, <2>1
  <2>4. A \cup Upto(B, k + 1) = (A \cup Upto(B, k)) \cup B[k]
    <3>1. 0..((k + 1) - 1) = 0..(k - 1) \cup {k}
      OBVIOUS
    <3> QED BY <3>1 DEF Upto
  <2>5. m + (k + 1) * c = (m + k * c) + c
    OBVIOUS
  <2>6. Adds(Add(f[k], term[k]), (m + k * c) + c, (A \cup Upto(B, k)) \cup B[k])
    BY <2>3, AddsBoth
  <2> QED BY <2>2, <2>4, <2>5, <2>6
<1>5. n \in G
  <2> HIDE DEF G
  <2> QED BY <1>3, <1>4, NatSetInduction
<1> QED BY <1>2, <1>5

\* The addresses first to last - 1 of E.
Between(first, last, E) == {E[r] : r \in first..(last - 1)}

\* A run adds the elements between its bounds.
LEMMA RunAdds ==
  ASSUME NEW start, NEW m \in Nat, NEW A, Adds(start, m, A),
         NEW first \in Nat, NEW last \in Nat, first <= last,
         NEW E, \A r \in first..(last - 1) : E[r] \in Nat
  PROVE  Adds(RunOf(start, first, last, E), m + (last - first), A \cup Between(first, last, E))
<1> DEFINE n == last - first
           D == 0..(n - 1)
           term == [k \in D |-> Element(E[first + k])]
           B == [k \in D |-> {E[first + k]}]
<1>1. n \in Nat /\ n * 1 = n /\ \A k \in D : first + k \in first..(last - 1)
  OBVIOUS
<1>2. ASSUME NEW k \in D PROVE Adds(term[k], 1, B[k])
  BY <1>1, AddsElement
<1>3. RunOf(start, first, last, E) = Added(start, n, term)
  BY DEF RunOf
<1>4. Upto(B, n) = Between(first, last, E)
  <2>1. ASSUME NEW r \in first..(last - 1) PROVE r - first \in D /\ first + (r - first) = r
    OBVIOUS
  <2>2. ASSUME NEW r \in first..(last - 1) PROVE E[r] \in UNION {B[k] : k \in D}
    BY <2>1
  <2>3. ASSUME NEW k \in D PROVE B[k] \subseteq {E[r] : r \in first..(last - 1)}
    BY <1>1
  <2> QED BY <2>2, <2>3 DEF Upto, Between
<1>5. Adds(Added(start, n, term), m + n * 1, A \cup Upto(B, n))
  <2>1. 1 \in Nat /\ n \in Nat
    BY <1>1
  <2> HIDE DEF term, B, n
  <2> QED BY <1>2, <2>1, AddedAdds
<1> QED BY <1>1, <1>3, <1>4, <1>5

-----------------------------------------------------------------------------
(***************************************************************************)
(* The size of a block.                                                    *)
(***************************************************************************)
LEMMA PowersPositive == ASSUME NEW n \in Nat PROVE PowerOfTwo(n) \in Nat \ {0}
<1> DEFINE A == Nat \ {0}
           step == [k \in 1..n |-> [a \in A |-> 2 * a]]
           Right(f) == f = [k \in 0..n |-> IF k = 0 THEN 1 ELSE 2 * f[k - 1]]
<1>1. \E f : Right(f)
  <2> DEFINE one == 1
  <2>0. n \in Nat /\ one \in A /\ step \in Steps(n, A)
    BY DEF Steps
  <2> HIDE DEF step, A, one
  <2>1. PICK f \in [0..n -> A] : f[0] = one /\ \A k \in 1..n : f[k] = step[k][f[k - 1]]
    <3>1. \E f : Recursion(f, n, A, one, step)
      BY <2>0, RecursionDefines
    <3> QED BY <3>1 DEF Recursion
  <2>2. ASSUME NEW k \in 1..n PROVE f[k] = 2 * f[k - 1]
    <3>1. k - 1 \in 0..n
      OBVIOUS
    <3>2. f[k - 1] \in A
      BY <3>1
    <3> QED BY <2>1, <3>2 DEF step
  <2>3. ASSUME NEW k \in 0..n PROVE f[k] = IF k = 0 THEN 1 ELSE 2 * f[k - 1]
    <3>1. CASE k = 0
      BY <2>1, <3>1 DEF one
    <3>2. CASE k # 0
      <4>1. k \in 1..n
        BY <3>2
      <4> QED BY <2>2, <3>2, <4>1
    <3> QED BY <3>1, <3>2
  <2>4. Right(f)
    <3> HIDE DEF A
    <3> QED BY <2>1, <2>3
  <2> HIDE DEF Right
  <2> QED BY <2>4
<1> DEFINE power == CHOOSE f : Right(f)
<1>2. Right(power)
  BY <1>1
<1>3. PowerOfTwo(n) = power[n]
  BY DEF PowerOfTwo
<1>4. power[0] = 1 /\ \A k \in 1..n : power[k] = 2 * power[k - 1]
  <2> HIDE DEF power
  <2>1. 0 \in 0..n /\ \A k \in 1..n : k \in 0..n /\ k # 0
    OBVIOUS
  <2> QED BY <1>2, <2>1
<1> HIDE DEF power, Right
<1> DEFINE G == {k \in Nat : k <= n => power[k] \in A}
<1>5. 0 \in G
  BY <1>4
<1>6. ASSUME NEW k \in Nat, k \in G PROVE k + 1 \in G
  <2> SUFFICES ASSUME k + 1 <= n PROVE power[k + 1] \in A
    OBVIOUS
  <2>1. k + 1 \in 1..n /\ (k + 1) - 1 = k /\ k <= n
    OBVIOUS
  <2>2. power[k + 1] = 2 * power[k]
    BY <1>4, <2>1
  <2> QED BY <1>6, <2>1, <2>2
<1>7. n \in G
  <2> HIDE DEF G
  <2> QED BY <1>5, <1>6, NatSetInduction
<1> QED BY <1>3, <1>7

LEMMA BitsCounted == ASSUME NEW n \in Nat PROVE BitLength(n) \in Nat
<1> DEFINE half(f, m) == IF m \div 2 = 0 THEN 0 ELSE f[m \div 2]
           F == [1..n -> Nat]
           step == [m \in 1..n |-> [f \in F |-> 1 + half(f, m)]]
           Right(f) == f = [m \in 0..n |-> IF m = 0 THEN 0 ELSE 1 + f[m \div 2]]
<1>1. ASSUME NEW m \in 1..n PROVE m \div 2 \in 0..(m - 1)
  OBVIOUS
<1>2. ASSUME NEW m \in 1..n, NEW f \in F PROVE half(f, m) \in Nat
  <2>1. CASE m \div 2 = 0
    BY <2>1
  <2>2. CASE m \div 2 # 0
    <3>1. m \div 2 \in 1..n
      BY <1>1, <2>2
    <3> QED BY <2>2, <3>1
  <2> QED BY <2>1, <2>2
<1>3. \E f : Right(f)
  <2>1. step \in Courses(n, Nat)
    BY <1>2 DEF Courses
  <2>2. LooksBack(step, n, Nat)
    <3> SUFFICES ASSUME NEW m \in 1..n, NEW f \in F, NEW h \in F,
                        \A k \in 1..(m - 1) : f[k] = h[k]
                 PROVE  step[m][f] = step[m][h]
      BY DEF LooksBack
    <3>1. m \div 2 = 0 \/ m \div 2 \in 1..(m - 1)
      BY <1>1
    <3>2. half(f, m) = half(h, m)
      BY <3>1
    <3> QED BY <3>2
  <2> HIDE DEF step
  <2>3. Nat # {}
    OBVIOUS
  <2>4. PICK g : CourseOf(g, step, n, Nat)
    BY <2>1, <2>2, <2>3, CourseDefines
  <2>5. g \in F /\ \A m \in 1..n : g[m] = 1 + half(g, m)
    <3>1. g \in F /\ \A m \in 1..n : g[m] = step[m][g]
      BY <2>4 DEF CourseOf
    <3> HIDE DEF half, F
    <3> QED BY <3>1 DEF step
  <2> DEFINE f == [m \in 0..n |-> IF m = 0 THEN 0 ELSE g[m]]
  <2>6. ASSUME NEW m \in 0..n PROVE f[m] = IF m = 0 THEN 0 ELSE 1 + f[m \div 2]
    <3>1. CASE m = 0
      BY <3>1
    <3>2. CASE m # 0
      <4>1. m \in 1..n /\ m \div 2 \in 0..n
        BY <1>1, <3>2
      <4>2. half(g, m) = f[m \div 2]
        BY <4>1
      <4> HIDE DEF half
      <4>3. f[m] = g[m]
        BY <4>1
      <4> HIDE DEF f
      <4> QED BY <2>5, <3>2, <4>1, <4>2, <4>3
    <3> QED BY <3>1, <3>2
  <2>7. f = [m \in 0..n |-> IF m = 0 THEN 0 ELSE 1 + f[m \div 2]]
    <3>1. f = [m \in 0..n |-> f[m]]
      OBVIOUS
    <3> HIDE DEF f
    <3> QED BY <2>6, <3>1
  <2> HIDE DEF f
  <2> QED BY <2>7
<1> DEFINE bits == CHOOSE f : Right(f)
<1>4. Right(bits)
  BY <1>3
<1>5. BitLength(n) = bits[n]
  BY DEF BitLength
<1>6. /\ n >= 0 => bits[0] = 0
      /\ \A m \in 1..n : bits[m] = 1 + bits[m \div 2]
  <2> HIDE DEF bits
  <2>1. 0 \in 0..n /\ \A m \in 1..n : m \in 0..n /\ m # 0
    OBVIOUS
  <2> QED BY <1>4, <2>1
<1> HIDE DEF bits, Right
<1> DEFINE G == {m \in Nat : bits[m] \in Nat}
<1>7. ASSUME NEW m \in 1..n, \A k \in 1..(m - 1) : k \in G PROVE m \in G
  <2>1. m \div 2 = 0 \/ m \div 2 \in 1..(m - 1)
    BY <1>1
  <2>2. bits[m \div 2] \in Nat
    BY <1>6, <1>7, <2>1
  <2> QED BY <1>6, <2>2
<1>8. n = 0 \/ n \in G
  <2> HIDE DEF G
  <2>1. 1..n \subseteq G
    BY <1>7, SetStrongInduction
  <2> QED BY <2>1
<1> QED BY <1>5, <1>6, <1>8

\* The size of a block, which cascade_rows computes from the number of rows.
block_size(count) == PowerOfTwo(level_power(count))

LEMMA BlockSize == ASSUME NEW count \in Nat PROVE block_size(count) \in Nat \ {0}
<1> DEFINE b == BitLength(Saturated(count)) \div 4
           S == {MinPower, b}
<1>1. b \in Nat
  <2>1. Saturated(count) \in Nat
    BY DEF Saturated
  <2>2. BitLength(Saturated(count)) \in Nat
    BY <2>1, BitsCounted
  <2> QED BY <2>2
<1> HIDE DEF b
<1>2. Max(S) \in S
  <2>1. \E x \in S : \A y \in S : x >= y
    BY <1>1, MinPowerAssumption
  <2> QED BY <2>1 DEF Max
<1>3. level_power(count) \in Nat
  BY <1>1, <1>2, MinPowerAssumption DEF level_power, b
<1> QED BY <1>3, PowersPositive DEF block_size

-----------------------------------------------------------------------------
(***************************************************************************)
(* The levels of a cascade hold the rows of the blocks so far, however they *)
(* are carried.                                                            *)
(***************************************************************************)
Size(order) == Cardinality(Reads(order))

Orders == Seq(Int)

LEMMA AddsSize ==
  ASSUME NEW order, NEW n, NEW A
  PROVE  Adds(order, n, A) <=> order \in Orders /\ Size(order) = n /\ Addresses(order) = A
BY DEF Adds, Size, Orders

LEMMA SizeOfAdd ==
  ASSUME NEW x \in Orders, NEW y \in Orders
  PROVE  /\ Add(x, y) \in Orders
         /\ Size(x) \in Nat /\ Size(y) \in Nat /\ Size(Add(x, y)) = Size(x) + Size(y)
         /\ Addresses(Add(x, y)) = Addresses(x) \cup Addresses(y)
<1>1. Size(x) \in Nat /\ Size(y) \in Nat
  BY ReadsFinite DEF Size, Orders
<1>2. Adds(x, Size(x), Addresses(x)) /\ Adds(y, Size(y), Addresses(y))
  BY AddsSize
<1>3. Adds(Add(x, y), Size(x) + Size(y), Addresses(x) \cup Addresses(y))
  BY <1>2, AddsBoth
<1> QED BY <1>1, <1>3, AddsSize

LevelSet == [0..3 -> Orders]

\* These levels hold n elements, those at the addresses in A; level 0 is unused.
LevelsHold(levels, n, A) ==
  /\ levels \in LevelSet /\ levels[0] = Zero
  /\ Size(levels[1]) + Size(levels[2]) + Size(levels[3]) = n
  /\ Addresses(levels[1]) \cup Addresses(levels[2]) \cup Addresses(levels[3]) = A

LEMMA ZeroLevel == Zero \in Orders /\ Size(Zero) = 0 /\ Addresses(Zero) = {}
BY AddsZero, AddsSize

LEMMA CarryHolds ==
  ASSUME NEW levels, NEW n, NEW A, LevelsHold(levels, n, A), NEW level \in {1, 2}
  PROVE  LevelsHold(Carry(levels, level), n, A)
<1> DEFINE c == Carry(levels, level)
           sum == Add(levels[level + 1], levels[level])
<1>1. /\ levels \in LevelSet /\ \A l \in 0..3 : levels[l] \in Orders
      /\ \A l \in 0..3 : Size(levels[l]) \in Nat
  <2>1. \A l \in 0..3 : levels[l] \in Orders
    BY DEF LevelsHold, LevelSet
  <2> QED BY <2>1, SizeOfAdd DEF LevelsHold
<1>2. /\ sum \in Orders /\ Size(sum) = Size(levels[level + 1]) + Size(levels[level])
      /\ Addresses(sum) = Addresses(levels[level + 1]) \cup Addresses(levels[level])
  <2>1. level + 1 \in 0..3 /\ level \in 0..3
    OBVIOUS
  <2> QED BY <1>1, <2>1, SizeOfAdd
<1>3. c = [l \in 0..3 |-> IF l = level THEN Zero ELSE IF l = level + 1 THEN sum ELSE levels[l]]
  BY <1>1 DEF Carry, LevelSet
<1> HIDE DEF c, sum
<1>4. c \in LevelSet /\ c[0] = Zero
  BY <1>1, <1>2, <1>3, ZeroLevel DEF LevelSet, LevelsHold
<1>5. CASE level = 1
  <2>1. c[1] = Zero /\ c[2] = sum /\ c[3] = levels[3]
    BY <1>3, <1>5
  <2>2. Size(c[1]) + Size(c[2]) + Size(c[3]) = n
    BY <1>1, <1>2, <1>5, <2>1, ZeroLevel DEF LevelsHold
  <2>3. Addresses(c[1]) \cup Addresses(c[2]) \cup Addresses(c[3]) = A
    BY <1>2, <1>5, <2>1, ZeroLevel DEF LevelsHold
  <2> QED BY <1>4, <2>2, <2>3 DEF LevelsHold, c
<1>6. CASE level = 2
  <2>1. c[1] = levels[1] /\ c[2] = Zero /\ c[3] = sum
    BY <1>3, <1>6
  <2>2. Size(c[1]) + Size(c[2]) + Size(c[3]) = n
    BY <1>1, <1>2, <1>6, <2>1, ZeroLevel DEF LevelsHold
  <2>3. Addresses(c[1]) \cup Addresses(c[2]) \cup Addresses(c[3]) = A
    BY <1>2, <1>6, <2>1, ZeroLevel DEF LevelsHold
  <2> QED BY <1>4, <2>2, <2>3 DEF LevelsHold, c
<1> QED BY <1>5, <1>6

\* A block adds its rows to those the levels hold.
LEMMA BlockHolds ==
  ASSUME NEW block \in Nat \ {0}, NEW b \in Nat \ {0}, NEW E,
         \A r \in 0..(b * block - 1) : E[r] \in Nat,
         NEW levels, NEW k, NEW S, LevelsHold(levels, k, S)
  PROVE  LevelsHold(WithBlock(levels, b, block, E), k + block,
               S \cup Between((b - 1) * block, b * block, E))
<1> DEFINE m == (b - 1) * block
           n == b * block
           run == RunOf(Zero, m, n, E)
           A == Between(m, n, E)
           sum == Add(levels[1], run)
           w == [levels EXCEPT ![1] = sum]
<1>1. m \in Nat /\ n \in Nat /\ m <= n /\ n - m = block
  <2>1. n = m + block
    OBVIOUS
  <2>2. m \in Nat
    <3>1. b - 1 \in Nat
      OBVIOUS
    <3> QED BY <3>1
  <2> HIDE DEF m, n
  <2> QED BY <2>1, <2>2
<1>2. run \in Orders /\ Size(run) = block /\ Addresses(run) = A
  <2>1. \A r \in m..(n - 1) : E[r] \in Nat
    BY <1>1
  <2> HIDE DEF m, n
  <2>2. Adds(run, 0 + (n - m), {} \cup A)
    BY <1>1, <2>1, AddsZero, RunAdds
  <2> HIDE DEF run, A
  <2>3. Adds(run, block, A)
    BY <1>1, <2>2
  <2> QED BY <2>3, AddsSize
<1> HIDE DEF run, A, m, n
<1>3. /\ \A l \in 0..3 : levels[l] \in Orders /\ Size(levels[l]) \in Nat
      /\ DOMAIN levels = 0..3
  <2>1. \A l \in 0..3 : levels[l] \in Orders
    BY DEF LevelsHold, LevelSet
  <2> QED BY <2>1, SizeOfAdd DEF LevelsHold, LevelSet
<1>4. /\ sum \in Orders /\ Size(sum) = Size(levels[1]) + Size(run)
      /\ Addresses(sum) = Addresses(levels[1]) \cup Addresses(run)
  <2>1. levels[1] \in Orders
    BY <1>3
  <2> QED BY <1>2, <2>1, SizeOfAdd
<1> HIDE DEF sum
<1>5. w[0] = levels[0] /\ w[1] = sum /\ w[2] = levels[2] /\ w[3] = levels[3] /\ w \in LevelSet
  <2>1. levels \in LevelSet
    BY DEF LevelsHold
  <2> QED BY <1>4, <2>1 DEF LevelSet
<1> HIDE DEF w
<1>6. LevelsHold(w, k + block, S \cup A)
  <2>1. Size(levels[1]) + Size(levels[2]) + Size(levels[3]) = k
    BY DEF LevelsHold
  <2>2. Addresses(levels[1]) \cup Addresses(levels[2]) \cup Addresses(levels[3]) = S
    BY DEF LevelsHold
  <2>3. levels[0] = Zero
    BY DEF LevelsHold
  <2>4. Size(w[1]) + Size(w[2]) + Size(w[3]) = k + block
    BY <1>2, <1>3, <1>4, <1>5, <2>1
  <2>5. Addresses(w[1]) \cup Addresses(w[2]) \cup Addresses(w[3]) = S \cup A
    BY <1>2, <1>4, <1>5, <2>2
  <2> QED BY <1>5, <2>3, <2>4, <2>5 DEF LevelsHold
<1>7. WithBlock(levels, b, block, E) \in {w, Carry(w, 1), Carry(Carry(w, 1), 2)}
  BY DEF WithBlock, Carried, w, sum, run, m, n
<1>8. LevelsHold(Carry(w, 1), k + block, S \cup A)
  BY <1>6, CarryHolds
<1>9. LevelsHold(Carry(Carry(w, 1), 2), k + block, S \cup A)
  BY <1>8, CarryHolds
<1> QED BY <1>6, <1>7, <1>8, <1>9 DEF A, m, n

ZeroLevels == [l \in 0..3 |-> Zero]

\* The levels after each block.
LEMMA BlockSteps ==
  ASSUME NEW count \in Nat, NEW block \in Nat \ {0}, NEW E, \A r \in 0..(count - 1) : E[r] \in Nat
  PROVE  \E f : /\ f[0] = ZeroLevels /\ Blocks(count, block, E) = f[count \div block]
                /\ \A b \in 1..(count \div block) : f[b] = WithBlock(f[b - 1], b, block, E)
                /\ \A b \in 0..(count \div block) : f[b] \in LevelSet
<1> DEFINE n == count \div block
           A == {levels \in LevelSet : levels[0] = Zero}
           step == [b \in 1..n |-> [a \in A |-> WithBlock(a, b, block, E)]]
           Right(f) == f = [b \in 0..n |-> IF b = 0 THEN [l \in 0..3 |-> Zero]
                                           ELSE WithBlock(f[b - 1], b, block, E)]
<1>1. n \in Nat /\ n * block <= count
  OBVIOUS
<1> HIDE DEF n
<1>2. ASSUME NEW a \in A, NEW b \in 1..n PROVE WithBlock(a, b, block, E) \in A
  <2> DEFINE k == Size(a[1]) + Size(a[2]) + Size(a[3])
             S == Addresses(a[1]) \cup Addresses(a[2]) \cup Addresses(a[3])
  <2>1. LevelsHold(a, k, S)
    BY DEF LevelsHold
  <2>2. b * block <= count /\ b \in Nat \ {0}
    <3>1. b * block <= n * block
      BY <1>1
    <3>2. b * block \in Int /\ n * block \in Int
      BY <1>1
    <3> QED BY <1>1, <3>1, <3>2
  <2>3. \A r \in 0..(b * block - 1) : E[r] \in Nat
    BY <2>2
  <2> HIDE DEF k, S
  <2> DEFINE w == WithBlock(a, b, block, E)
  <2>4. LevelsHold(w, k + block, S \cup Between((b - 1) * block, b * block, E))
    BY <2>1, <2>2, <2>3, BlockHolds
  <2> HIDE DEF w
  <2> QED BY <2>4 DEF LevelsHold, w
<1>3. step \in [1..n -> [A -> A]]
  <2> HIDE DEF A
  <2> QED BY <1>2
<1>4. ZeroLevels \in A
  BY ZeroLevel DEF ZeroLevels, LevelSet
<1>5. \E f : Right(f)
  <2>0. n \in Nat /\ ZeroLevels \in A /\ step \in Steps(n, A)
    BY <1>1, <1>3, <1>4 DEF Steps
  <2> HIDE DEF step, A
  <2>1. PICK f \in [0..n -> A] : f[0] = ZeroLevels /\ \A b \in 1..n : f[b] = step[b][f[b - 1]]
    <3>1. \E f : Recursion(f, n, A, ZeroLevels, step)
      BY <2>0, RecursionDefines
    <3> QED BY <3>1 DEF Recursion
  <2>2. ASSUME NEW b \in 1..n PROVE f[b] = WithBlock(f[b - 1], b, block, E)
    <3>1. b - 1 \in 0..n
      BY <1>1
    <3>2. f[b - 1] \in A
      BY <3>1
    <3> QED BY <2>1, <3>2 DEF step
  <2>3. ASSUME NEW b \in 0..n
        PROVE  f[b] = IF b = 0 THEN [l \in 0..3 |-> Zero] ELSE WithBlock(f[b - 1], b, block, E)
    <3>1. CASE b = 0
      BY <2>1, <3>1 DEF ZeroLevels
    <3>2. CASE b # 0
      <4>1. b \in 1..n
        BY <1>1, <3>2
      <4> QED BY <2>2, <3>2, <4>1
    <3> QED BY <3>1, <3>2
  <2>4. Right(f)
    <3> HIDE DEF A
    <3> QED BY <2>1, <2>3
  <2> HIDE DEF Right
  <2> QED BY <2>4
<1> DEFINE levels == CHOOSE f : Right(f)
<1>6. Right(levels)
  BY <1>5
<1>7. Blocks(count, block, E) = levels[n]
  BY DEF Blocks, n
<1>8. levels[0] = ZeroLevels /\ \A b \in 1..n : levels[b] = WithBlock(levels[b - 1], b, block, E)
  <2> HIDE DEF levels
  <2>1. 0 \in 0..n /\ \A b \in 1..n : b \in 0..n /\ b # 0
    BY <1>1
  <2> QED BY <1>6, <2>1 DEF ZeroLevels
<1> HIDE DEF levels, Right
<1> DEFINE G == {b \in Nat : b <= n => levels[b] \in A}
<1>9. 0 \in G
  BY <1>4, <1>8
<1>10. ASSUME NEW b \in Nat, b \in G PROVE b + 1 \in G
  <2> SUFFICES ASSUME b + 1 <= n PROVE levels[b + 1] \in A
    OBVIOUS
  <2>1. b + 1 \in 1..n /\ (b + 1) - 1 = b /\ b <= n
    BY <1>1
  <2>2. levels[b] \in A
    BY <1>10, <2>1
  <2> DEFINE c == b + 1
  <2>3. levels[c] = WithBlock(levels[b], c, block, E)
    BY <1>8, <2>1
  <2> HIDE DEF c, A
  <2>4. levels[c] \in A
    BY <1>2, <2>1, <2>2, <2>3 DEF c
  <2> QED BY <2>4 DEF c
<1>11. ASSUME NEW b \in 0..n PROVE levels[b] \in LevelSet
  <2> HIDE DEF G
  <2>1. b \in G
    BY <1>1, <1>9, <1>10, NatSetInduction
  <2> QED BY <2>1 DEF G
<1> QED BY <1>7, <1>8, <1>11 DEF n

\* All full blocks are in the levels.
LEMMA BlocksHold ==
  ASSUME NEW count \in Nat, NEW block \in Nat \ {0}, NEW E, \A r \in 0..(count - 1) : E[r] \in Nat
  PROVE  LET n == (count \div block) * block
         IN  n \in 0..count /\ LevelsHold(Blocks(count, block, E), n, Between(0, n, E))
<1> DEFINE q == count \div block
<1>1. q \in Nat /\ q * block \in 0..count
  OBVIOUS
<1>2. PICK f : /\ f[0] = ZeroLevels /\ Blocks(count, block, E) = f[count \div block]
               /\ \A b \in 1..(count \div block) : f[b] = WithBlock(f[b - 1], b, block, E)
               /\ \A b \in 0..(count \div block) : f[b] \in LevelSet
  BY BlockSteps
<1>3. f[0] = ZeroLevels /\ Blocks(count, block, E) = f[q]
      /\ \A b \in 1..q : f[b] = WithBlock(f[b - 1], b, block, E)
  BY <1>2
<1> SUFFICES LevelsHold(f[q], q * block, Between(0, q * block, E))
  BY <1>1, <1>3
<1> HIDE DEF q
<1> DEFINE Full(b) == LevelsHold(f[b], b * block, Between(0, b * block, E))
           G == {b \in Nat : b <= q => Full(b)}
<1>4. 0 \in G
  <2>1. 0 * block = 0
    OBVIOUS
  <2>2. Between(0, 0, E) = {}
    BY DEF Between
  <2>3. ZeroLevels \in LevelSet /\ \A l \in 0..3 : ZeroLevels[l] = Zero
    BY ZeroLevel DEF ZeroLevels, LevelSet
  <2>4. LevelsHold(ZeroLevels, 0, {})
    BY <2>3, ZeroLevel DEF LevelsHold
  <2> QED BY <1>3, <2>1, <2>2, <2>4
<1>5. ASSUME NEW k \in Nat, k \in G PROVE k + 1 \in G
  <2> SUFFICES ASSUME k + 1 <= q PROVE Full(k + 1)
    OBVIOUS
  <2> DEFINE b == k + 1
             m == k * block
             n == b * block
             w == WithBlock(f[k], b, block, E)
  <2>1. /\ b \in 1..q /\ b \in Nat \ {0} /\ b - 1 = k
        /\ m \in Nat /\ n = m + block /\ n <= count
    <3>1. b \in 1..q /\ b \in Nat \ {0} /\ b - 1 = k
      BY <1>1
    <3>2. m \in Nat /\ n = m + block
      OBVIOUS
    <3>3. n <= q * block /\ n \in Int
      BY <1>1, <3>1
    <3> HIDE DEF n, m
    <3> QED BY <1>1, <3>1, <3>2, <3>3
  <2>2. f[b] = w
    BY <1>3, <2>1
  <2>3. \A r \in 0..(n - 1) : E[r] \in Nat
    <3> HIDE DEF n
    <3> QED BY <2>1
  <2>4. LevelsHold(f[k], m, Between(0, m, E))
    <3>1. k <= q
      BY <1>1
    <3> QED BY <1>5, <3>1
  <2>5. LevelsHold(w, m + block, Between(0, m, E) \cup Between((b - 1) * block, n, E))
    <3> HIDE DEF m
    <3> QED BY <2>1, <2>3, <2>4, BlockHolds
  <2>6. (b - 1) * block = m
    OBVIOUS
  <2>7. Between(0, m, E) \cup Between(m, n, E) = Between(0, n, E)
    <3> HIDE DEF m, n
    <3>1. 0..(m - 1) \cup m..(n - 1) = 0..(n - 1)
      BY <2>1
    <3> QED BY <3>1 DEF Between
  <2> HIDE DEF m, w
  <2>8. LevelsHold(f[b], n, Between(0, n, E))
    BY <2>1, <2>2, <2>5, <2>6, <2>7
  <2> QED BY <2>8
<1>6. q \in G
  <2> HIDE DEF G
  <2> QED BY <1>1, <1>4, <1>5, NatSetInduction
<1> QED BY <1>6

\* A cascade adds every row once.
LEMMA CascadeAdds ==
  ASSUME NEW count \in Nat, NEW E, \A r \in 0..(count - 1) : E[r] \in Nat
  PROVE  Adds(cascade_rows(count, E), count, Between(0, count, E))
<1> DEFINE block == block_size(count)
           n == (count \div block) * block
           levels == Blocks(count, block, E)
           run == RunOf(levels[0], n, count, E)
<1>1. n \in 0..count /\ LevelsHold(levels, n, Between(0, n, E))
  <2>1. block \in Nat \ {0}
    BY BlockSize
  <2> HIDE DEF block
  <2> QED BY <2>1, BlocksHold
<1>2. cascade_rows(count, E) = Add(Add(Add(run, levels[1]), levels[2]), levels[3])
  BY DEF cascade_rows, Cascaded, LevelsAdded, block_size
<1> HIDE DEF n, levels, block
<1>3. run \in Orders /\ Size(run) = count - n /\ Addresses(run) = Between(n, count, E)
  <2>1. levels[0] = Zero
    BY <1>1 DEF LevelsHold
  <2>2. n \in Nat /\ n <= count /\ \A r \in n..(count - 1) : E[r] \in Nat
    BY <1>1
  <2>3. Adds(RunOf(Zero, n, count, E), 0 + (count - n), {} \cup Between(n, count, E))
    BY <2>2, AddsZero, RunAdds
  <2> HIDE DEF run
  <2>4. Adds(run, count - n, Between(n, count, E))
    BY <1>1, <2>1, <2>3 DEF run
  <2> QED BY <2>4, AddsSize
<1> HIDE DEF run
<1>4. levels[1] \in Orders /\ levels[2] \in Orders /\ levels[3] \in Orders
  BY <1>1 DEF LevelsHold, LevelSet
<1> DEFINE a == Add(run, levels[1])
           b == Add(a, levels[2])
           c == Add(b, levels[3])
<1>5. /\ a \in Orders /\ Size(run) \in Nat /\ Size(levels[1]) \in Nat
      /\ Size(a) = Size(run) + Size(levels[1])
      /\ Addresses(a) = Addresses(run) \cup Addresses(levels[1])
  BY <1>3, <1>4, SizeOfAdd
<1> HIDE DEF a
<1>6. /\ b \in Orders /\ Size(levels[2]) \in Nat /\ Size(b) = Size(a) + Size(levels[2])
      /\ Addresses(b) = Addresses(a) \cup Addresses(levels[2])
  BY <1>4, <1>5, SizeOfAdd
<1> HIDE DEF b
<1>7. /\ c \in Orders /\ Size(levels[3]) \in Nat /\ Size(c) = Size(b) + Size(levels[3])
      /\ Addresses(c) = Addresses(b) \cup Addresses(levels[3])
  BY <1>4, <1>6, SizeOfAdd
<1>8. cascade_rows(count, E) = c
  BY <1>2 DEF a, b
<1> HIDE DEF c
<1>9. Size(c) = count
  BY <1>1, <1>3, <1>5, <1>6, <1>7 DEF LevelsHold
<1>10. Addresses(c) = Between(0, count, E)
  <2>1. 0..(n - 1) \cup n..(count - 1) = 0..(count - 1)
    BY <1>1
  <2>2. Between(0, n, E) \cup Between(n, count, E) = Between(0, count, E)
    BY <2>1 DEF Between
  <2> QED BY <1>1, <1>3, <1>5, <1>6, <1>7, <2>2 DEF LevelsHold
<1> QED BY <1>7, <1>8, <1>9, <1>10, AddsSize

-----------------------------------------------------------------------------
(***************************************************************************)
(* The AVX2 cascade adds in the same order: its registers are the levels.  *)
(***************************************************************************)
Registers(levels) == [low |-> levels[1], middle |-> levels[2], high |-> levels[3]]

LEMMA SameBlock ==
  ASSUME NEW levels \in LevelSet, NEW b, NEW block, NEW E
  PROVE  WithBlockAvx2(Registers(levels), b, block, E) = Registers(WithBlock(levels, b, block, E))
<1> DEFINE run == RunOf(Zero, (b - 1) * block, b * block, E)
           sum == Add(levels[1], run)
           w == [levels EXCEPT ![1] = sum]
           s == [Registers(levels) EXCEPT !.low = sum]
           one == LevelFull(b * block, block, 1)
           two == LevelFull(b * block, block, 2)
<1>1. DOMAIN levels = 0..3
  BY DEF LevelSet
<1>2. DOMAIN w = 0..3 /\ w[1] = sum /\ w[2] = levels[2] /\ w[3] = levels[3] /\ s = Registers(w)
  BY <1>1 DEF Registers
<1>3. WithBlock(levels, b, block, E) = Carried(w, b * block, block)
  BY DEF WithBlock
<1>4. WithBlockAvx2(Registers(levels), b, block, E) = CarriedAvx2(s, b * block, block)
  BY DEF WithBlockAvx2, Registers
<1> HIDE DEF w, s, sum
<1> DEFINE first == Carry(w, 1)
           second == Carry(first, 2)
<1>5. DOMAIN first = 0..3 /\ first[1] = Zero /\ first[2] = Add(w[2], w[1]) /\ first[3] = w[3]
  BY <1>2 DEF Carry
<1> HIDE DEF first
<1>6. second[1] = Zero /\ second[2] = Zero /\ second[3] = Add(w[3], Add(w[2], w[1]))
  BY <1>5 DEF Carry
<1> HIDE DEF second
<1>7. /\ s = [low |-> w[1], middle |-> w[2], high |-> w[3]]
      /\ Registers(first) = [low |-> Zero, middle |-> Add(w[2], w[1]), high |-> w[3]]
      /\ Registers(second) = [low |-> Zero, middle |-> Zero, high |-> Add(w[3], Add(w[2], w[1]))]
  BY <1>2, <1>5, <1>6 DEF Registers
<1>8. CASE ~one
  BY <1>2, <1>3, <1>4, <1>8 DEF Carried, CarriedAvx2
<1>9. CASE one /\ ~two
  <2>1. Carried(w, b * block, block) = first
    BY <1>9 DEF Carried, first
  <2>2. CarriedAvx2(s, b * block, block) = [s EXCEPT !.middle = Add(s.middle, s.low), !.low = Zero]
    BY <1>9 DEF CarriedAvx2
  <2> QED BY <1>3, <1>4, <1>7, <2>1, <2>2
<1>10. CASE one /\ two
  <2>1. Carried(w, b * block, block) = second
    BY <1>10 DEF Carried, second, first
  <2>2. CarriedAvx2(s, b * block, block)
          = [low |-> Zero, middle |-> Zero, high |-> Add(s.high, Add(s.middle, s.low))]
    BY <1>10 DEF CarriedAvx2
  <2> QED BY <1>3, <1>4, <1>7, <2>1, <2>2
<1> QED BY <1>8, <1>9, <1>10

LEMMA SameBlocks ==
  ASSUME NEW count \in Nat, NEW block \in Nat \ {0}, NEW E, \A r \in 0..(count - 1) : E[r] \in Nat
  PROVE  BlocksAvx2(count, block, E) = Registers(Blocks(count, block, E))
<1> DEFINE n == count \div block
           zero == [low |-> Zero, middle |-> Zero, high |-> Zero]
           Right(s) == s = [b \in 0..n |-> IF b = 0 THEN [low |-> Zero, middle |-> Zero, high |-> Zero]
                                           ELSE WithBlockAvx2(s[b - 1], b, block, E)]
<1>1. n \in Nat
  OBVIOUS
<1>2. PICK f : /\ f[0] = ZeroLevels /\ Blocks(count, block, E) = f[n]
               /\ \A b \in 1..n : f[b] = WithBlock(f[b - 1], b, block, E)
               /\ \A b \in 0..n : f[b] \in LevelSet
  BY BlockSteps
<1> HIDE DEF n
<1>3. Registers(f[0]) = zero
  <2>1. ZeroLevels[1] = Zero /\ ZeroLevels[2] = Zero /\ ZeroLevels[3] = Zero
    BY DEF ZeroLevels
  <2> QED BY <1>2, <2>1 DEF Registers
<1>4. ASSUME NEW b \in 1..n
      PROVE  Registers(f[b]) = WithBlockAvx2(Registers(f[b - 1]), b, block, E)
  <2>1. b - 1 \in 0..n
    BY <1>1
  <2>2. f[b - 1] \in LevelSet
    BY <1>2, <2>1
  <2> QED BY <1>2, <2>2, SameBlock
<1>5. \E s : Right(s)
  <2> DEFINE s == [b \in 0..n |-> Registers(f[b])]
  <2>1. ASSUME NEW b \in 0..n PROVE s[b] = IF b = 0 THEN zero ELSE WithBlockAvx2(s[b - 1], b, block, E)
    <3>1. CASE b = 0
      BY <1>3, <3>1
    <3>2. CASE b # 0
      <4>1. b \in 1..n /\ b - 1 \in 0..n
        BY <1>1, <3>2
      <4>2. s[b] = Registers(f[b]) /\ s[b - 1] = Registers(f[b - 1])
        BY <4>1
      <4> HIDE DEF s
      <4> QED BY <1>4, <3>2, <4>1, <4>2
    <3> QED BY <3>1, <3>2
  <2>2. s = [b \in 0..n |-> s[b]]
    OBVIOUS
  <2> HIDE DEF s
  <2>3. Right(s)
    BY <2>1, <2>2
  <2> HIDE DEF Right
  <2> QED BY <2>3
<1> DEFINE s == CHOOSE s : Right(s)
<1>6. Right(s)
  BY <1>5
<1>7. BlocksAvx2(count, block, E) = s[n]
  BY DEF BlocksAvx2, n
<1>8. s[0] = zero /\ \A b \in 1..n : s[b] = WithBlockAvx2(s[b - 1], b, block, E)
  <2> HIDE DEF s
  <2>1. 0 \in 0..n /\ \A b \in 1..n : b \in 0..n /\ b # 0
    BY <1>1
  <2> QED BY <1>6, <2>1
<1> HIDE DEF s, Right, zero
<1> DEFINE G == {b \in Nat : b <= n => s[b] = Registers(f[b])}
<1>9. 0 \in G
  BY <1>3, <1>8
<1>10. ASSUME NEW k \in Nat, k \in G PROVE k + 1 \in G
  <2> SUFFICES ASSUME k + 1 <= n PROVE s[k + 1] = Registers(f[k + 1])
    OBVIOUS
  <2> DEFINE b == k + 1
  <2>1. b \in 1..n /\ b - 1 = k /\ k <= n
    BY <1>1
  <2>2. s[k] = Registers(f[k])
    BY <1>10, <2>1
  <2> HIDE DEF b
  <2>3. s[b] = Registers(f[b])
    BY <1>4, <1>8, <2>1, <2>2
  <2> QED BY <2>3 DEF b
<1>11. n \in G
  <2> HIDE DEF G
  <2> QED BY <1>1, <1>9, <1>10, NatSetInduction
<1> QED BY <1>1, <1>2, <1>7, <1>11

LEMMA SameCascade ==
  ASSUME NEW count \in Nat, NEW E, \A r \in 0..(count - 1) : E[r] \in Nat
  PROVE  cascade_avx2(count, E) = cascade_rows(count, E)
<1> DEFINE block == block_size(count)
           n == (count \div block) * block
           levels == Blocks(count, block, E)
           s == BlocksAvx2(count, block, E)
<1>1. block \in Nat \ {0}
  BY BlockSize
<1>2. cascade_rows(count, E) = Add(Add(Add(RunOf(levels[0], n, count, E), levels[1]), levels[2]), levels[3])
  BY DEF cascade_rows, Cascaded, LevelsAdded, block_size
<1>3. cascade_avx2(count, E) = Add(Add(Add(RunOf(Zero, n, count, E), s.low), s.middle), s.high)
  BY DEF cascade_avx2, CascadedAvx2, RegistersAdded, block_size
<1> HIDE DEF block
<1>4. s = Registers(levels)
  BY <1>1, SameBlocks
<1>5. levels[0] = Zero
  <2>1. LevelsHold(levels, n, Between(0, n, E))
    BY <1>1, BlocksHold
  <2> HIDE DEF levels
  <2> QED BY <2>1 DEF LevelsHold
<1> HIDE DEF levels, s, n
<1>6. s.low = levels[1] /\ s.middle = levels[2] /\ s.high = levels[3]
  BY <1>4 DEF Registers
<1> QED BY <1>2, <1>3, <1>5, <1>6

-----------------------------------------------------------------------------
(***************************************************************************)
(* Every kernel adds every element of its row once.                        *)
(***************************************************************************)
\* One in four of the addresses, from the given one.
Quarter(Address, n, l) == {Address[4 * r + l] : r \in 0..(n - 1)}

LEMMA FourLanesAdd ==
  ASSUME NEW count \in Nat, NEW Address, \A k \in 0..(count - 1) : Address[k] \in Nat, NEW Lane,
         \A l \in 0..3 : Adds(Lane[l], count \div 4, Quarter(Address, count \div 4, l))
  PROVE  Adds(FourLanes(count, Address, Lane), count, Between(0, count, Address))
<1> DEFINE n == count \div 4
           m == n * 4
           Q(l) == Quarter(Address, n, l)
           a == RunOf(Lane[0], m, count, Address)
           b == Add(a, Lane[1])
           c == Add(b, Lane[2])
           d == Add(c, Lane[3])
           rest == Between(m, count, Address)
<1>1. n \in Nat /\ m \in Nat /\ m <= count /\ m = 4 * n
  OBVIOUS
<1>2. Adds(Lane[0], n, Q(0)) /\ Adds(Lane[1], n, Q(1)) /\ Adds(Lane[2], n, Q(2)) /\ Adds(Lane[3], n, Q(3))
  OBVIOUS
<1>3. FourLanes(count, Address, Lane) = d
  BY DEF FourLanes
<1> HIDE DEF n, m, Q
<1>4. Adds(a, n + (count - m), Q(0) \cup rest)
  <2>1. \A k \in m..(count - 1) : Address[k] \in Nat
    BY <1>1
  <2> QED BY <1>1, <1>2, <2>1, RunAdds
<1> HIDE DEF a, rest
<1>5. Adds(b, n + (count - m) + n, (Q(0) \cup rest) \cup Q(1))
  BY <1>2, <1>4, AddsBoth
<1> HIDE DEF b
<1>6. Adds(c, n + (count - m) + n + n, ((Q(0) \cup rest) \cup Q(1)) \cup Q(2))
  BY <1>2, <1>5, AddsBoth
<1> HIDE DEF c
<1>7. Adds(d, n + (count - m) + n + n + n, (((Q(0) \cup rest) \cup Q(1)) \cup Q(2)) \cup Q(3))
  BY <1>2, <1>6, AddsBoth
<1> HIDE DEF d
<1>8. n + (count - m) + n + n + n = count
  BY <1>1
<1>9. (((Q(0) \cup rest) \cup Q(1)) \cup Q(2)) \cup Q(3) = Between(0, count, Address)
  <2>1. ASSUME NEW l \in 0..3 PROVE Q(l) \subseteq Between(0, count, Address)
    <3>1. \A r \in 0..(n - 1) : 4 * r + l \in 0..(count - 1)
      BY <1>1
    <3> QED BY <3>1 DEF Q, Quarter, Between
  <2>2. rest \subseteq Between(0, count, Address)
    <3>1. m..(count - 1) \subseteq 0..(count - 1)
      BY <1>1
    <3> QED BY <3>1 DEF rest, Between
  <2>3. ASSUME NEW k \in 0..(count - 1) PROVE Address[k] \in rest \/ \E l \in 0..3 : Address[k] \in Q(l)
    <3>1. CASE k >= m
      <4>1. k \in m..(count - 1)
        BY <1>1, <3>1
      <4> QED BY <4>1 DEF rest, Between
    <3>2. CASE k < m
      <4>1. k \div 4 \in 0..(n - 1) /\ k % 4 \in 0..3 /\ 4 * (k \div 4) + (k % 4) = k
        BY <1>1, <3>2
      <4>2. Address[k] \in Q(k % 4)
        BY <4>1 DEF Q, Quarter
      <4> QED BY <4>1, <4>2
    <3> QED BY <1>1, <3>1, <3>2
  <2>4. 0..3 = {0, 1, 2, 3}
    OBVIOUS
  <2>5. Between(0, count, Address) \subseteq rest \cup Q(0) \cup Q(1) \cup Q(2) \cup Q(3)
    <3>1. \A x \in Between(0, count, Address) : \E k \in 0..(count - 1) : x = Address[k]
      BY DEF Between
    <3> QED BY <2>3, <2>4, <3>1
  <2>6. Q(0) \cup Q(1) \cup Q(2) \cup Q(3) \subseteq Between(0, count, Address)
    BY <2>1, <2>4
  <2> QED BY <2>2, <2>5, <2>6
<1> QED BY <1>3, <1>7, <1>8, <1>9

\* The addresses of a row.
Line(base, count, stride) == {base + k * stride : k \in 0..(count - 1)}

LEMMA EveryLine ==
  ASSUME NEW base \in Nat, NEW stride \in Nat
  PROVE  /\ \A k \in Nat : /\ Every(stride, base)[k] = base + k * stride
                           /\ Every(stride, base)[k] \in Nat
         /\ \A count : Between(0, count, Every(stride, base)) = Line(base, count, stride)
<1>1. ASSUME NEW k \in Nat
      PROVE  /\ Every(stride, base)[k] = base + k * stride
             /\ Every(stride, base)[k] \in Nat
  <2>1. k * stride \in Nat
    OBVIOUS
  <2> QED BY <2>1 DEF Every
<1>2. ASSUME NEW count PROVE Between(0, count, Every(stride, base)) = Line(base, count, stride)
  <2>1. \A k \in 0..(count - 1) : k \in Nat
    OBVIOUS
  <2> QED BY <1>1, <2>1 DEF Between, Line
<1> QED BY <1>1, <1>2

LEMMA CascadeLine ==
  ASSUME NEW base \in Nat, NEW count \in Nat, NEW stride \in Nat
  PROVE  /\ Adds(cascade_rows(count, Every(stride, base)), count, Line(base, count, stride))
         /\ cascade_avx2(count, Every(stride, base)) = cascade_rows(count, Every(stride, base))
<1>1. \A r \in 0..(count - 1) : Every(stride, base)[r] \in Nat
  BY EveryLine
<1>2. Adds(cascade_rows(count, Every(stride, base)), count, Between(0, count, Every(stride, base)))
  BY <1>1, CascadeAdds
<1> QED BY <1>1, <1>2, EveryLine, SameCascade

LEMMA ScalarRow ==
  ASSUME NEW base \in Nat, NEW count \in Nat, NEW stride \in Nat
  PROVE  Adds(scalar_row(base, count, stride), count, Line(base, count, stride))
<1> DEFINE n == count \div 4
           E == Every(stride, base)
           lane == [l \in 0..3 |-> cascade_rows(n, Every(4 * stride, base + l * stride))]
<1>1. n \in Nat
  OBVIOUS
<1>2. ASSUME NEW l \in 0..3 PROVE Adds(lane[l], n, Quarter(E, n, l))
  <2> DEFINE f == base + l * stride
             w == 4 * stride
  <2>1. f \in Nat /\ w \in Nat
    OBVIOUS
  <2>2. Line(f, n, w) = Quarter(E, n, l)
    <3>1. ASSUME NEW r \in 0..(n - 1) PROVE f + r * w = E[4 * r + l]
      <4>1. 4 * r + l \in Nat
        BY <1>1
      <4>2. E[4 * r + l] = base + (4 * r + l) * stride
        BY <4>1, EveryLine
      <4>3. base + (4 * r + l) * stride = f + r * w
        BY <1>1
      <4> QED BY <4>2, <4>3
    <3> HIDE DEF f, w, E
    <3> QED BY <3>1 DEF Line, Quarter
  <2>3. lane[l] = cascade_rows(n, Every(w, f))
    OBVIOUS
  <2> HIDE DEF f, w, lane
  <2> QED BY <1>1, <2>1, <2>2, <2>3, CascadeLine
<1>3. scalar_row(base, count, stride) = FourLanes(count, E, lane)
  BY DEF scalar_row
<1>4. \A k \in 0..(count - 1) : E[k] \in Nat
  BY EveryLine
<1> HIDE DEF lane
<1>5. Adds(FourLanes(count, E, lane), count, Between(0, count, E))
  BY <1>2, <1>4, FourLanesAdd
<1> QED BY <1>3, <1>5, EveryLine

LEMMA OuterEight ==
  ASSUME NEW base \in Nat, NEW count \in Nat, NEW stride \in Nat
  PROVE  Adds(outer_eight(base, count, stride), count, Line(base, count, stride))
<1> DEFINE n == count \div 4
           E == Every(stride, base)
           partial == [r \in 0..3 |->
                        cascade_rows(n, [group \in Nat |-> base + (group * 4 + r) * stride])]
<1>1. n \in Nat
  OBVIOUS
<1>2. ASSUME NEW l \in 0..3 PROVE Adds(partial[l], n, Quarter(E, n, l))
  <2> DEFINE g == [group \in Nat |-> base + (group * 4 + l) * stride]
  <2>1. ASSUME NEW r \in Nat PROVE g[r] = E[4 * r + l] /\ g[r] \in Nat
    <3>1. 4 * r + l \in Nat
      OBVIOUS
    <3>2. E[4 * r + l] = base + (4 * r + l) * stride /\ E[4 * r + l] \in Nat
      BY <3>1, EveryLine
    <3>3. g[r] = base + (r * 4 + l) * stride
      OBVIOUS
    <3>4. r * 4 + l = 4 * r + l
      OBVIOUS
    <3> QED BY <3>2, <3>3, <3>4
  <2>2. partial[l] = cascade_rows(n, g)
    OBVIOUS
  <2> HIDE DEF g, partial, E
  <2>3. \A r \in 0..(n - 1) : r \in Nat
    OBVIOUS
  <2>4. Between(0, n, g) = Quarter(E, n, l)
    <3>1. \A r \in 0..(n - 1) : g[r] = E[4 * r + l]
      BY <2>1, <2>3
    <3> HIDE DEF n
    <3> QED BY <3>1 DEF Between, Quarter
  <2>5. Adds(cascade_rows(n, g), n, Between(0, n, g))
    BY <1>1, <2>1, <2>3, CascadeAdds
  <2> QED BY <2>2, <2>4, <2>5
<1>3. outer_eight(base, count, stride) = FourLanes(count, E, partial)
  BY DEF outer_eight
<1>4. \A k \in 0..(count - 1) : E[k] \in Nat
  BY EveryLine
<1> HIDE DEF partial
<1>5. Adds(FourLanes(count, E, partial), count, Between(0, count, E))
  BY <1>2, <1>4, FourLanesAdd
<1> QED BY <1>3, <1>5, EveryLine

\* One of the 32 accumulators of inner, and the lane that takes four of them.
Wide(base, groups, l) == cascade_rows(groups, Every(32, base + l))

LaneOf(base, groups, vectors, l) ==
  Add(Add(Add(RunOf(Wide(base, groups, l), groups * 4, vectors, Every(8, base + l)),
              Wide(base, groups, 8 + l)), Wide(base, groups, 16 + l)), Wide(base, groups, 24 + l))

LEMMA LaneAdds ==
  ASSUME NEW base \in Nat, NEW groups \in Nat, NEW vectors \in Nat, groups * 4 <= vectors,
         NEW l \in 0..7
  PROVE  Adds(LaneOf(base, groups, vectors, l), vectors, Line(base + l, vectors, 8))
<1> DEFINE g == groups * 4
           w(p) == Wide(base, groups, 8 * p + l)
           L(p) == Line(base + (8 * p + l), groups, 32)
           E == Every(8, base + l)
           rest == Between(g, vectors, E)
           a == RunOf(w(0), g, vectors, E)
           b == Add(a, w(1))
           c == Add(b, w(2))
           d == Add(c, w(3))
           all == Line(base + l, vectors, 8)
<1>1. ASSUME NEW p \in 0..3 PROVE Adds(w(p), groups, L(p))
  <2>1. base + (8 * p + l) \in Nat /\ 32 \in Nat
    OBVIOUS
  <2> QED BY <2>1, CascadeLine DEF Wide
<1>2. Adds(w(0), groups, L(0)) /\ Adds(w(1), groups, L(1)) /\ Adds(w(2), groups, L(2)) /\ Adds(w(3), groups, L(3))
  <2> HIDE DEF w, L
  <2> QED BY <1>1
<1>3. w(0) = Wide(base, groups, l) /\ w(1) = Wide(base, groups, 8 + l)
      /\ w(2) = Wide(base, groups, 16 + l) /\ w(3) = Wide(base, groups, 24 + l)
  <2>1. 8 * 0 + l = l /\ 8 * 1 + l = 8 + l /\ 8 * 2 + l = 16 + l /\ 8 * 3 + l = 24 + l
    OBVIOUS
  <2> QED BY <2>1
<1> HIDE DEF w
<1>4. LaneOf(base, groups, vectors, l) = d
  BY <1>3 DEF LaneOf
<1>5. /\ \A q \in Nat : E[q] = (base + l) + q * 8 /\ E[q] \in Nat
      /\ Between(0, vectors, E) = all
  <2>1. base + l \in Nat /\ 8 \in Nat
    OBVIOUS
  <2> QED BY <2>1, EveryLine
<1> HIDE DEF E
<1>6. Adds(a, groups + (vectors - g), L(0) \cup rest)
  <2>1. g \in Nat /\ g <= vectors
    OBVIOUS
  <2>2. \A k \in g..(vectors - 1) : E[k] \in Nat
    BY <1>5, <2>1
  <2> HIDE DEF g, L
  <2> QED BY <1>2, <2>1, <2>2, RunAdds
<1> HIDE DEF a, L
<1>7. Adds(b, groups + (vectors - g) + groups, (L(0) \cup rest) \cup L(1))
  BY <1>2, <1>6, AddsBoth
<1> HIDE DEF b
<1>8. Adds(c, groups + (vectors - g) + groups + groups, ((L(0) \cup rest) \cup L(1)) \cup L(2))
  BY <1>2, <1>7, AddsBoth
<1> HIDE DEF c
<1>9. Adds(d, groups + (vectors - g) + groups + groups + groups,
           (((L(0) \cup rest) \cup L(1)) \cup L(2)) \cup L(3))
  BY <1>2, <1>8, AddsBoth
<1> HIDE DEF d
<1>10. groups + (vectors - g) + groups + groups + groups = vectors
  OBVIOUS
<1>11. (((L(0) \cup rest) \cup L(1)) \cup L(2)) \cup L(3) = all
  <2>1. ASSUME NEW p \in 0..3 PROVE L(p) \subseteq all
    <3>1. ASSUME NEW r \in 0..(groups - 1)
          PROVE  /\ 4 * r + p \in 0..(vectors - 1)
                 /\ base + (8 * p + l) + r * 32 = (base + l) + (4 * r + p) * 8
      OBVIOUS
    <3>2. \A r \in 0..(groups - 1) : base + (8 * p + l) + r * 32 \in all
      BY <3>1 DEF Line
    <3> HIDE DEF all
    <3> QED BY <3>2 DEF L, Line
  <2>2. rest \subseteq all
    <3>1. g..(vectors - 1) \subseteq 0..(vectors - 1)
      OBVIOUS
    <3> HIDE DEF all
    <3>2. rest \subseteq Between(0, vectors, E)
      BY <3>1 DEF Between
    <3> QED BY <1>5, <3>2
  <2>3. ASSUME NEW k \in 0..(vectors - 1)
        PROVE  (base + l) + k * 8 \in rest \/ \E p \in 0..3 : (base + l) + k * 8 \in L(p)
    <3>1. CASE k >= g
      <4>1. k \in g..(vectors - 1) /\ k \in Nat
        BY <3>1
      <4>2. E[k] \in rest
        BY <4>1 DEF Between
      <4> QED BY <1>5, <4>1, <4>2
    <3>2. CASE k < g
      <4> DEFINE r == k \div 4
                 p == k % 4
      <4>1. r \in 0..(groups - 1) /\ p \in 0..3 /\ 4 * r + p = k
        BY <3>2
      <4> HIDE DEF r, p
      <4>2. base + (8 * p + l) + r * 32 = (base + l) + k * 8
        BY <4>1
      <4>3. base + (8 * p + l) + r * 32 \in L(p)
        BY <4>1 DEF L, Line
      <4>4. (base + l) + k * 8 \in L(p)
        BY <4>2, <4>3
      <4> QED BY <4>1, <4>4
    <3> QED BY <3>1, <3>2
  <2>4. 0..3 = {0, 1, 2, 3}
    OBVIOUS
  <2> HIDE DEF rest
  <2>5. all \subseteq rest \cup L(0) \cup L(1) \cup L(2) \cup L(3)
    <3>1. \A x \in all : \E k \in 0..(vectors - 1) : x = (base + l) + k * 8
      BY DEF Line
    <3> HIDE DEF all
    <3> QED BY <2>3, <2>4, <3>1
  <2> HIDE DEF all
  <2>6. L(0) \cup L(1) \cup L(2) \cup L(3) \subseteq all
    BY <2>1, <2>4
  <2> QED BY <2>2, <2>5, <2>6
<1> HIDE DEF all, rest
<1> QED BY <1>4, <1>9, <1>10, <1>11 DEF all

LEMMA GatheredAdds ==
  ASSUME NEW base \in Nat, NEW count \in Nat, NEW lane,
         \A l \in 0..7 : Adds(lane[l], count \div 8, Line(base + l, count \div 8, 8))
  PROVE  Adds(Gathered(base, count, lane), count, Line(base, count, 1))
<1> DEFINE n == count \div 8
           m == n * 8
           E == Every(1, base)
           B == [l \in 0..7 |-> Line(base + l, n, 8)]
           rest == Between(m, count, E)
           run == RunOf(Zero, m, count, E)
           all == Line(base, count, 1)
<1>1. n \in Nat /\ m \in Nat /\ m <= count /\ (count - m) + 8 * n = count
  OBVIOUS
<1>2. /\ \A k \in Nat : E[k] = base + k * 1 /\ E[k] \in Nat
      /\ Between(0, count, E) = all
  BY EveryLine
<1> HIDE DEF E
<1>3. Adds(run, 0 + (count - m), {} \cup rest)
  <2>1. \A k \in m..(count - 1) : E[k] \in Nat
    BY <1>1, <1>2
  <2> HIDE DEF m
  <2> QED BY <1>1, <2>1, AddsZero, RunAdds
<1>4. 0 + (count - m) = count - m /\ {} \cup rest = rest
  BY <1>1
<1>5. \A l \in 0..(8 - 1) : Adds(lane[l], n, B[l])
  OBVIOUS
<1>6. Gathered(base, count, lane) = Added(run, 8, lane)
  BY DEF Gathered, E
<1> HIDE DEF run, rest, B, m, n
<1>7. Adds(run, count - m, rest) /\ count - m \in Nat /\ 8 \in Nat
  BY <1>1, <1>3, <1>4
<1> DEFINE k == count - m
<1>8. Adds(run, k, rest) /\ k \in Nat
  BY <1>7
<1> HIDE DEF k
<1>9. Adds(Added(run, 8, lane), k + 8 * n, rest \cup Upto(B, 8))
  BY <1>1, <1>5, <1>8, AddedAdds
<1>10. k + 8 * n = count
  BY <1>1 DEF k
<1>11. rest \cup Upto(B, 8) = all
  <2>1. rest \subseteq all
    <3>1. m..(count - 1) \subseteq 0..(count - 1)
      BY <1>1
    <3> HIDE DEF all
    <3>2. rest \subseteq Between(0, count, E)
      BY <3>1 DEF Between, rest
    <3> QED BY <1>2, <3>2
  <2>2. ASSUME NEW l \in 0..7 PROVE Line(base + l, n, 8) \subseteq all
    <3>1. ASSUME NEW r \in 0..(n - 1)
          PROVE  8 * r + l \in 0..(count - 1) /\ (base + l) + r * 8 = base + (8 * r + l) * 1
      BY <1>1 DEF m
    <3>2. \A r \in 0..(n - 1) : (base + l) + r * 8 \in all
      BY <3>1 DEF Line
    <3> HIDE DEF all
    <3> QED BY <3>2 DEF Line
  <2>3. ASSUME NEW j \in 0..(count - 1)
        PROVE  base + j * 1 \in rest \/ \E l \in 0..7 : base + j * 1 \in Line(base + l, n, 8)
    <3>1. CASE j >= m
      <4>1. j \in m..(count - 1) /\ j \in Nat
        BY <1>1, <3>1
      <4>2. E[j] \in rest
        BY <4>1 DEF Between, rest
      <4> QED BY <1>2, <4>1, <4>2
    <3>2. CASE j < m
      <4> DEFINE r == j \div 8
                 l == j % 8
      <4>1. r \in 0..(n - 1) /\ l \in 0..7 /\ 8 * r + l = j
        BY <1>1, <3>2 DEF m
      <4> HIDE DEF r, l
      <4>2. (base + l) + r * 8 = base + j * 1
        BY <4>1
      <4>3. (base + l) + r * 8 \in Line(base + l, n, 8)
        BY <4>1 DEF Line
      <4>4. base + j * 1 \in Line(base + l, n, 8)
        BY <4>2, <4>3
      <4> QED BY <4>1, <4>4
    <3> QED BY <1>1, <3>1, <3>2
  <2>4. /\ \A l \in 0..7 : B[l] = Line(base + l, n, 8)
        /\ 0..(8 - 1) = 0..7
    BY DEF B
  <2>5. Upto(B, 8) \subseteq all
    <3> HIDE DEF all
    <3> QED BY <2>2, <2>4 DEF Upto
  <2>6. all \subseteq rest \cup Upto(B, 8)
    <3>1. \A x \in all : \E j \in 0..(count - 1) : x = base + j * 1
      BY DEF Line
    <3> HIDE DEF all
    <3>2. ASSUME NEW x \in all PROVE x \in rest \/ x \in Upto(B, 8)
      <4>1. x \in rest \/ \E l \in 0..7 : x \in Line(base + l, n, 8)
        BY <2>3, <3>1
      <4> QED BY <2>4, <4>1 DEF Upto
    <3> QED BY <3>2
  <2> HIDE DEF all
  <2> QED BY <2>1, <2>5, <2>6
<1> HIDE DEF all
<1> QED BY <1>6, <1>9, <1>10, <1>11 DEF all

LanesOf(base, count) == [l \in 0..7 |-> LaneOf(base, count \div 32, count \div 8, l)]

LEMMA InnerIs ==
  ASSUME NEW base \in Nat, NEW count \in Nat
  PROVE  /\ inner(base, count) = IF count < 8 THEN scalar_row(base, count, 1)
                                 ELSE Gathered(base, count, LanesOf(base, count))
         /\ inner_avx2(base, count) = inner(base, count)
<1>1. inner(base, count) = IF count < 8 THEN scalar_row(base, count, 1)
                           ELSE Gathered(base, count, LanesOf(base, count))
  BY DEF inner, LanesOf, LaneOf, Wide
<1> DEFINE groups == count \div 32
           vectors == count \div 8
           partial(p, l) == cascade_avx2(groups, Every(32, base + p * 8 + l))
           first(l) == RunOf(partial(0, l), groups * 4, vectors, Every(8, base + l))
           lane == [l \in 0..7 |->
                     Add(Add(Add(first(l), partial(1, l)), partial(2, l)), partial(3, l))]
<1>2. inner_avx2(base, count) = IF count < 8 THEN scalar_row(base, count, 1)
                                ELSE Gathered(base, count, lane)
  BY DEF inner_avx2
<1>3. groups \in Nat
  OBVIOUS
<1> HIDE DEF groups, vectors
<1>4. ASSUME NEW l \in 0..7, NEW p \in 0..3 PROVE partial(p, l) = Wide(base, groups, p * 8 + l)
  <2> DEFINE f == base + p * 8 + l
  <2>1. f \in Nat /\ 32 \in Nat /\ f = base + (p * 8 + l)
    OBVIOUS
  <2>2. cascade_avx2(groups, Every(32, f)) = cascade_rows(groups, Every(32, f))
    <3> HIDE DEF f
    <3> QED BY <1>3, <2>1, CascadeLine
  <2> HIDE DEF f
  <2>3. cascade_rows(groups, Every(32, f)) = Wide(base, groups, p * 8 + l)
    BY <2>1 DEF Wide
  <2> QED BY <2>2, <2>3 DEF f
<1>5. ASSUME NEW l \in 0..7 PROVE lane[l] = LanesOf(base, count)[l]
  <2>1. /\ partial(0, l) = Wide(base, groups, 0 * 8 + l) /\ partial(1, l) = Wide(base, groups, 1 * 8 + l)
        /\ partial(2, l) = Wide(base, groups, 2 * 8 + l) /\ partial(3, l) = Wide(base, groups, 3 * 8 + l)
    <3> HIDE DEF partial
    <3> QED BY <1>4
  <2>2. 0 * 8 + l = l /\ 1 * 8 + l = 8 + l /\ 2 * 8 + l = 16 + l /\ 3 * 8 + l = 24 + l
    OBVIOUS
  <2>3. lane[l] = Add(Add(Add(first(l), partial(1, l)), partial(2, l)), partial(3, l))
    OBVIOUS
  <2>4. LanesOf(base, count)[l] = LaneOf(base, groups, vectors, l)
    BY DEF LanesOf, groups, vectors
  <2> HIDE DEF partial, lane
  <2> QED BY <2>1, <2>2, <2>3, <2>4 DEF LaneOf
<1>6. lane = LanesOf(base, count)
  <2>1. lane = [l \in 0..7 |-> lane[l]] /\ LanesOf(base, count) = [l \in 0..7 |-> LanesOf(base, count)[l]]
    BY DEF LanesOf
  <2> HIDE DEF lane
  <2> QED BY <1>5, <2>1
<1> HIDE DEF lane
<1> QED BY <1>1, <1>2, <1>6

LEMMA InnerAdds ==
  ASSUME NEW base \in Nat, NEW count \in Nat
  PROVE  Adds(inner(base, count), count, Line(base, count, 1))
<1> DEFINE groups == count \div 32
           vectors == count \div 8
           lane == LanesOf(base, count)
<1>1. groups \in Nat /\ vectors \in Nat /\ groups * 4 <= vectors
  OBVIOUS
<1>2. ASSUME NEW l \in 0..7 PROVE Adds(lane[l], vectors, Line(base + l, vectors, 8))
  <2>1. lane[l] = LaneOf(base, groups, vectors, l)
    BY DEF LanesOf
  <2> HIDE DEF lane, groups, vectors
  <2> QED BY <1>1, <2>1, LaneAdds
<1>3. Adds(Gathered(base, count, lane), count, Line(base, count, 1))
  <2> HIDE DEF lane
  <2> QED BY <1>2, GatheredAdds
<1>4. Adds(scalar_row(base, count, 1), count, Line(base, count, 1))
  BY ScalarRow
<1> QED BY <1>3, <1>4, InnerIs

-----------------------------------------------------------------------------
(***************************************************************************)
(* Whatever kernel is chosen for an output, it adds the row of the output; *)
(* and the choice for AVX2 is the portable one.                            *)
(***************************************************************************)
Strided(shape) == shape.count \in Nat /\ shape.reduce_stride \in Nat /\ shape.output_stride \in Nat

LEMMA SerialAdds ==
  ASSUME NEW base \in Nat, NEW i, NEW len, NEW shape, Strided(shape)
  PROVE  Adds(dispatch_layout(base, i, len, shape), shape.count,
              Line(base, shape.count, shape.reduce_stride))
<1> DEFINE n == shape.count
           rs == shape.reduce_stride
           d == dispatch_layout(base, i, len, shape)
<1>1. n \in Nat /\ rs \in Nat
  BY DEF Strided
<1>2. \/ d = inner(base, n) /\ rs = 1
      \/ d = scalar_row(base, n, rs)
      \/ d = cascade_rows(n, Every(rs, base))
      \/ d = outer_eight(base, n, rs)
  BY DEF dispatch_layout, dimension_sum_impl, vectorized_outer_tail, cascade
<1>3. /\ Adds(inner(base, n), n, Line(base, n, 1))
      /\ Adds(scalar_row(base, n, rs), n, Line(base, n, rs))
      /\ Adds(cascade_rows(n, Every(rs, base)), n, Line(base, n, rs))
      /\ Adds(outer_eight(base, n, rs), n, Line(base, n, rs))
  <2> HIDE DEF n, rs, d
  <2> QED BY <1>1, InnerAdds, ScalarRow, CascadeLine, OuterEight
<1> HIDE DEF n, rs, d
<1>4. Adds(d, n, Line(base, n, rs))
  BY <1>2, <1>3
<1> QED BY <1>4 DEF n, rs, d

LEMMA WideColumns ==
  ASSUME NEW len \in Nat
  PROVE  /\ Columns(len, 32) \in Nat /\ Columns(len, 32) <= len /\ len < Columns(len, 32) + 32
         /\ Columns(len, 128) + (IF len % 128 >= 64 THEN 64 ELSE 0) <= Columns(len, 32)
<1>1. /\ Columns(len, 32) \in Nat /\ Columns(len, 32) <= len /\ len < Columns(len, 32) + 32
  BY DEF Columns
<1>2. Columns(len, 128) + (IF len % 128 >= 64 THEN 64 ELSE 0) <= Columns(len, 32)
  <2> DEFINE q == len \div 128
             p == len \div 32
             r == len % 128
  <2>1. /\ q \in Nat /\ p \in Nat /\ r \in 0..127 /\ len = 128 * q + r
        /\ 32 * p <= len /\ len < 32 * p + 32
    OBVIOUS
  <2>2. Columns(len, 128) = q * 128 /\ Columns(len, 32) = p * 32
    BY DEF Columns
  <2> HIDE DEF q, p
  <2>3. CASE r >= 64
    <3>1. 128 * q + 64 <= 32 * p
      BY <2>1, <2>3
    <3> HIDE DEF r
    <3> QED BY <2>1, <2>2, <2>3, <3>1 DEF r
  <2>4. CASE ~(r >= 64)
    <3>1. 128 * q <= 32 * p
      BY <2>1
    <3> QED BY <2>1, <2>2, <2>4, <3>1
  <2> QED BY <2>3, <2>4
<1> QED BY <1>1, <1>2

LEMMA SerialSame ==
  ASSUME NEW avx2 \in BOOLEAN, NEW base \in Nat, NEW len \in Nat, NEW i \in 0..(len - 1),
         NEW shape, Strided(shape)
  PROVE  dimension_sum_serial(avx2, base, i, len, shape) = dispatch_layout(base, i, len, shape)
<1> SUFFICES avx2_sum(base, i, len, shape) = dispatch_layout(base, i, len, shape)
  BY DEF dimension_sum_serial
<1> DEFINE n == shape.count
           rs == shape.reduce_stride
           wide == Columns(len, 128) + (IF len % 128 >= 64 THEN 64 ELSE 0)
           sbs == Columns(len, 32)
           tail == vectorized_outer_tail(base, i - sbs, len - sbs, shape)
           column == cascade_rows(n, Every(rs, base))
           row == scalar_row(base, n, rs)
           d == dispatch_layout(base, i, len, shape)
           a == avx2_sum(base, i, len, shape)
           impl == dimension_sum_impl(TRUE, base, i, len, shape)
<1>1. /\ n \in Nat /\ rs \in Nat
      /\ cascade_avx2(n, Every(rs, base)) = column
      /\ inner_avx2(base, n) = inner(base, n)
      /\ sbs \in Nat /\ sbs <= len /\ len < sbs + 32 /\ wide <= sbs
  <2>1. n \in Nat /\ rs \in Nat
    BY DEF Strided
  <2>2. cascade_avx2(n, Every(rs, base)) = column /\ inner_avx2(base, n) = inner(base, n)
    <3> HIDE DEF n, rs
    <3> QED BY <2>1, CascadeLine, InnerIs
  <2> QED BY <2>1, <2>2, WideColumns
<1>2. rs = 1 => d = inner(base, n) /\ a = inner_avx2(base, n)
  BY DEF dispatch_layout, dimension_sum_impl, avx2_sum
<1>3. rs # 1 /\ shape.output_stride # 1 => a = d
  BY DEF avx2_sum
<1>4. rs # 1 /\ shape.output_stride = 1 =>
        /\ d = impl
        /\ a = IF i < wide THEN column ELSE IF i < sbs THEN cascade_avx2(n, Every(rs, base))
               ELSE IF len < 8 THEN impl ELSE tail
  BY DEF avx2_sum, dispatch_layout, cascade
<1>5. rs # 1 => impl = IF i < sbs THEN column ELSE IF len >= 8 THEN tail
                       ELSE IF i - sbs < Columns(len - sbs, 4) THEN column ELSE row
  BY DEF dimension_sum_impl, cascade
<1> HIDE DEF n, rs, tail, column, row, d, a, impl, wide, sbs
<1>6. rs # 1 /\ i < sbs => impl = column
  BY <1>5
<1>7. rs # 1 /\ ~(i < sbs) /\ len >= 8 => impl = tail
  BY <1>5
<1>8. ~(i < sbs) => ~(i < wide)
  <2>1. i \in Int /\ wide \in Int
    BY DEF wide, Columns
  <2> QED BY <1>1, <2>1
<1>9. a = d
  <2>1. CASE rs # 1 /\ shape.output_stride = 1
    <3>1. CASE i < sbs
      BY <1>1, <1>4, <1>6, <2>1, <3>1
    <3>2. CASE ~(i < sbs)
      <4>1. a = IF len < 8 THEN impl ELSE tail
        BY <1>4, <1>8, <2>1, <3>2
      <4>2. ~(len < 8) => len >= 8
        OBVIOUS
      <4> QED BY <1>4, <1>7, <2>1, <3>2, <4>1, <4>2
    <3> QED BY <3>1, <3>2
  <2> QED BY <1>1, <1>2, <1>3, <2>1
<1> QED BY <1>9 DEF a, d

-----------------------------------------------------------------------------
(***************************************************************************)
(* The tiles of a parallel sum: each output is in one of them, and is      *)
(* summed there as it is in the whole.                                     *)
(***************************************************************************)
Writers(tiles, o) == {u \in tiles : o \in u.start..(u.start + u.len - 1)}

\* The tile number k of size outputs.
IsTile(u, k, width, size) ==
  /\ u.start = k * size /\ u.start \in Nat /\ u.len \in Nat
  /\ \/ u.len = size /\ u.start + size <= width
     \/ u.len = width - u.start /\ u.len <= size

LEMMA TileFields ==
  ASSUME NEW width \in Nat, NEW size \in Nat \ {0}, NEW k \in 0..(div_ceil(width, size) - 1)
  PROVE  IsTile([start |-> k * size, len |-> Min({size, width - k * size})], k, width, size)
<1> DEFINE s == k * size
           S == {size, width - s}
           c == div_ceil(width, size)
<1>1. c \in Nat /\ (c - 1) * size < width
  <2>1. width + size - 1 \in Nat
    OBVIOUS
  <2>2. c \in Nat /\ c * size <= width + size - 1
    BY <2>1 DEF div_ceil
  <2>3. (c - 1) * size = c * size - size
    BY <2>2
  <2>4. c * size \in Int
    BY <2>2
  <2> HIDE DEF c
  <2> QED BY <2>2, <2>3, <2>4
<1>2. s \in Nat /\ s < width
  <2>1. c # 0 /\ k \in Nat /\ k <= c - 1
    BY <1>1
  <2>2. k * size <= (c - 1) * size /\ k * size \in Nat
    <3> HIDE DEF c
    <3> QED BY <1>1, <2>1
  <2>3. (c - 1) * size \in Int
    BY <1>1
  <2> HIDE DEF c
  <2> QED BY <1>1, <2>2, <2>3
<1> HIDE DEF s
<1>3. Min(S) \in S /\ \A x \in S : Min(S) <= x
  <2>1. \E x \in S : \A y \in S : x <= y
    BY <1>2
  <2> QED BY <2>1 DEF Min
<1>4. \/ Min(S) = size /\ size <= width - s
      \/ Min(S) = width - s /\ width - s <= size
  BY <1>2, <1>3
<1> DEFINE u == [start |-> s, len |-> Min(S)]
<1>5. u.start = s /\ u.len = Min(S)
  OBVIOUS
<1> HIDE DEF u
<1>6. IsTile(u, k, width, size)
  BY <1>2, <1>4, <1>5 DEF IsTile, s
<1> QED BY <1>6 DEF u, s

LEMMA TilesAre ==
  ASSUME NEW width \in Nat, NEW size \in Nat \ {0}, NEW u \in Tiles(width, size)
  PROVE  \E k \in 0..(div_ceil(width, size) - 1) :
           /\ IsTile(u, k, width, size)
           /\ u = [start |-> k * size, len |-> Min({size, width - k * size})]
BY TileFields DEF Tiles

\* Only one multiple of b is at most o and within b of it.
LEMMA OneMultiple ==
  ASSUME NEW b \in Nat \ {0}, NEW o \in Nat, NEW j \in Nat, NEW k \in Nat,
         j * b <= o, o < j * b + b, k * b <= o, o < k * b + b
  PROVE  j = k
<1>1. ASSUME NEW x \in Nat, NEW y \in Nat, x < y PROVE x * b + b <= y * b
  <2>1. (x + 1) * b <= y * b
    <3>1. x + 1 <= y
      BY <1>1
    <3> QED BY <3>1
  <2>2. (x + 1) * b = x * b + b
    OBVIOUS
  <2> QED BY <2>1, <2>2
<1>2. j * b \in Nat /\ k * b \in Nat
  OBVIOUS
<1>3. ~(j < k)
  <2> SUFFICES ASSUME j < k PROVE FALSE
    OBVIOUS
  <2>1. j * b + b <= k * b
    BY <1>1
  <2> QED BY <1>2, <2>1
<1>4. ~(k < j)
  <2> SUFFICES ASSUME k < j PROVE FALSE
    OBVIOUS
  <2>1. k * b + b <= j * b
    BY <1>1
  <2> QED BY <1>2, <2>1
<1> QED BY <1>3, <1>4

LEMMA TilesPartition ==
  ASSUME NEW width \in Nat, NEW size \in Nat \ {0}, NEW o \in 0..(width - 1)
  PROVE  \E u \in Tiles(width, size) : Writers(Tiles(width, size), o) = {u}
<1> DEFINE T == Tiles(width, size)
           c == div_ceil(width, size)
           k == o \div size
           tile(j) == [start |-> j * size, len |-> Min({size, width - j * size})]
<1>1. k \in Nat /\ k * size <= o /\ o < k * size + size
  <2>1. k \in Nat /\ size * k <= o /\ o < size * k + size
    OBVIOUS
  <2>2. size * k = k * size
    BY <2>1
  <2> QED BY <2>1, <2>2
<1>2. k \in 0..(c - 1)
  <2>1. width + size - 1 \in Nat
    OBVIOUS
  <2>2. c \in Nat /\ width + size - 1 < c * size + size
    BY <2>1 DEF div_ceil
  <2> HIDE DEF k, c
  <2>3. k * size < c * size
    BY <1>1, <2>2
  <2>4. ~(c <= k)
    <3> SUFFICES ASSUME c <= k PROVE FALSE
      OBVIOUS
    <3>1. c * size <= k * size /\ c * size \in Nat /\ k * size \in Nat
      BY <1>1, <2>2
    <3> QED BY <2>3, <3>1
  <2> QED BY <1>1, <2>2, <2>4
<1> HIDE DEF k, tile
<1>3. tile(k) \in T /\ IsTile(tile(k), k, width, size)
  <2>1. tile(k) \in T
    BY <1>2 DEF tile, Tiles
  <2> QED BY <1>2, <2>1, TileFields DEF tile
<1>4. tile(k) \in Writers(T, o)
  <2> DEFINE u == tile(k)
  <2>1. IsTile(u, k, width, size) /\ u \in T
    BY <1>3
  <2> HIDE DEF u, T
  <2>2. o \in u.start..(u.start + u.len - 1)
    <3>1. CASE u.len = size
      BY <1>1, <2>1, <3>1 DEF IsTile
    <3>2. CASE u.len = width - u.start
      BY <1>1, <2>1, <3>2 DEF IsTile
    <3> QED BY <2>1, <3>1, <3>2 DEF IsTile
  <2> QED BY <2>1, <2>2 DEF Writers, u
<1>5. ASSUME NEW u \in Writers(T, o) PROVE u = tile(k)
  <2>1. u \in T /\ o \in u.start..(u.start + u.len - 1)
    BY DEF Writers
  <2>2. PICK j \in 0..(c - 1) : IsTile(u, j, width, size) /\ u = tile(j)
    <3>1. \E j \in 0..(c - 1) : IsTile(u, j, width, size)
                               /\ u = [start |-> j * size, len |-> Min({size, width - j * size})]
      BY <2>1, TilesAre
    <3> QED BY <3>1 DEF tile
  <2> HIDE DEF c
  <2>3. j \in Nat /\ u.start = j * size /\ u.start \in Nat /\ u.len \in Nat /\ u.len <= size
    BY <2>2 DEF IsTile
  <2>4. j * size <= o /\ o < j * size + size
    BY <2>1, <2>3
  <2>5. j = k
    BY <1>1, <2>3, <2>4, OneMultiple
  <2> QED BY <2>2, <2>5
<1> HIDE DEF T
<1>6. Writers(T, o) = {tile(k)}
  BY <1>4, <1>5
<1> QED BY <1>3, <1>6 DEF T

\* Tiles start at multiples of 32 where columns are accumulated side by side.
Aligned(size, shape) == shape.reduce_stride # 1 => \E g \in Nat : size = g * 32

LEMMA CeilPositive ==
  ASSUME NEW a \in Nat \ {0}, NEW b \in Nat \ {0}
  PROVE  div_ceil(a, b) \in Nat \ {0}
<1> DEFINE c == div_ceil(a, b)
           n == a + b - 1
<1>1. n \in Nat /\ n >= b
  OBVIOUS
<1> HIDE DEF n
<1>2. n \div b \in Nat /\ n < b * (n \div b) + b
  BY <1>1
<1>3. n \div b # 0
  <2> SUFFICES ASSUME n \div b = 0 PROVE FALSE
    OBVIOUS
  <2>1. b * (n \div b) = 0
    OBVIOUS
  <2> QED BY <1>1, <1>2, <2>1
<1> QED BY <1>2, <1>3 DEF div_ceil, n

LEMMA GrainSize ==
  ASSUME NEW width \in Nat \ {0}, NEW threads \in Nat \ {0}, NEW shape
  PROVE  grain(width, shape, threads) \in Nat \ {0} /\ Aligned(grain(width, shape, threads), shape)
<1> DEFINE g(alignment) == div_ceil(div_ceil(width, threads), alignment)
<1>1. g(1) \in Nat \ {0} /\ g(32) \in Nat \ {0}
  <2>1. div_ceil(width, threads) \in Nat \ {0}
    BY CeilPositive
  <2> DEFINE d == div_ceil(width, threads)
  <2> HIDE DEF d
  <2>2. d \in Nat \ {0}
    BY <2>1 DEF d
  <2>3. div_ceil(d, 1) \in Nat \ {0} /\ div_ceil(d, 32) \in Nat \ {0}
    BY <2>2, CeilPositive
  <2> QED BY <2>3 DEF d
<1>2. grain(width, shape, threads) = IF shape.reduce_stride = 1 THEN g(1) * 1 ELSE g(32) * 32
  BY DEF grain
<1> HIDE DEF g
<1>3. CASE shape.reduce_stride = 1
  BY <1>1, <1>2, <1>3 DEF Aligned
<1>4. CASE shape.reduce_stride # 1
  BY <1>1, <1>2, <1>4 DEF Aligned
<1> QED BY <1>3, <1>4

\* Output i of len is as far from the last columns as output o of width.
Alike(i, len, o, width) ==
  \/ i < Columns(len, 32) /\ o < Columns(width, 32)
  \/ /\ ~(i < Columns(len, 32)) /\ ~(o < Columns(width, 32))
     /\ i - Columns(len, 32) = o - Columns(width, 32)
     /\ len - Columns(len, 32) = width - Columns(width, 32)

LEMMA TileAlike ==
  ASSUME NEW width \in Nat, NEW g \in Nat, NEW k \in Nat, NEW u,
         IsTile(u, k, width, g * 32), NEW o \in u.start..(u.start + u.len - 1)
  PROVE  Alike(o - u.start, u.len, o, width)
<1> DEFINE i == o - u.start
           s == k * g
           cl == u.len \div 32
           cw == width \div 32
<1>1. /\ u.start \in Nat /\ u.len \in Nat /\ s \in Nat /\ u.start = s * 32
      /\ o \in Nat /\ i \in Nat /\ o = i + u.start /\ i < u.len
  <2>1. u.start \in Nat /\ u.len \in Nat /\ u.start = k * (g * 32)
    BY DEF IsTile
  <2>2. s \in Nat /\ k * (g * 32) = s * 32
    OBVIOUS
  <2> HIDE DEF s
  <2> QED BY <2>1, <2>2
<1>2. /\ cl \in Nat /\ cl * 32 <= u.len /\ u.len < cl * 32 + 32
      /\ cw \in Nat /\ cw * 32 <= width /\ width < cw * 32 + 32
  BY <1>1
<1>3. Columns(u.len, 32) = cl * 32 /\ Columns(width, 32) = cw * 32
  BY DEF Columns
<1> HIDE DEF s, i, cl, cw
<1>4. CASE u.len = g * 32 /\ u.start + g * 32 <= width
  <2>1. cl = g
    BY <1>1, <1>2, <1>4
  <2>2. s + g <= cw
    BY <1>1, <1>2, <1>4
  <2>3. i < cl * 32 /\ o < cw * 32
    BY <1>1, <1>2, <1>4, <2>1, <2>2
  <2> QED BY <1>3, <2>3 DEF Alike, i
<1>5. CASE u.len = width - u.start
  <2>1. cw = s + cl
    BY <1>1, <1>2, <1>5
  <2>2. /\ i < cl * 32 <=> o < cw * 32
        /\ i - cl * 32 = o - cw * 32
        /\ u.len - cl * 32 = width - cw * 32
    BY <1>1, <1>2, <1>5, <2>1
  <2> QED BY <1>3, <2>2 DEF Alike, i
<1> QED BY <1>4, <1>5 DEF IsTile

\* The kernel depends only on how far the last columns are.
LEMMA AlikeSame ==
  ASSUME NEW contiguous \in BOOLEAN, NEW base, NEW shape, shape.reduce_stride # 1,
         NEW i, NEW len \in Nat, NEW o, NEW width \in Nat, Alike(i, len, o, width),
         contiguous => (len >= 8 <=> width >= 8)
  PROVE  dimension_sum_impl(contiguous, base, i, len, shape)
           = dimension_sum_impl(contiguous, base, o, width, shape)
<1> DEFINE column == cascade(base, shape.count, shape.reduce_stride)
           row == scalar_row(base, shape.count, shape.reduce_stride)
           strided == ~contiguous /\ shape.reduce_stride < shape.output_stride
           Rest(j, m) == IF contiguous /\ m[1] >= 8
                         THEN vectorized_outer_tail(base, j, m[2], shape)
                         ELSE IF j < Columns(m[2], 4) THEN column ELSE row
           Kernel(j, n) == IF strided THEN row
                           ELSE IF j < Columns(n, 32) THEN column
                           ELSE Rest(j - Columns(n, 32), <<n, n - Columns(n, 32)>>)
<1>1. \A j, n : dimension_sum_impl(contiguous, base, j, n, shape) = Kernel(j, n)
  BY DEF dimension_sum_impl
<1> SUFFICES Kernel(i, len) = Kernel(o, width)
  BY <1>1
<1> HIDE DEF column, row, strided
<1>2. CASE i < Columns(len, 32) /\ o < Columns(width, 32)
  BY <1>2
<1>3. CASE /\ ~(i < Columns(len, 32)) /\ ~(o < Columns(width, 32))
           /\ i - Columns(len, 32) = o - Columns(width, 32)
           /\ len - Columns(len, 32) = width - Columns(width, 32)
  <2> DEFINE j == i - Columns(len, 32)
             r == len - Columns(len, 32)
  <2>1. j = o - Columns(width, 32) /\ r = width - Columns(width, 32)
    BY <1>3
  <2>2. Kernel(i, len) = IF strided THEN row ELSE Rest(j, <<len, r>>)
    BY <1>3
  <2>3. Kernel(o, width) = IF strided THEN row ELSE Rest(j, <<width, r>>)
    BY <1>3, <2>1
  <2> HIDE DEF j, r, Kernel
  <2>4. Rest(j, <<len, r>>) = Rest(j, <<width, r>>)
    <3>1. (contiguous /\ <<len, r>>[1] >= 8) <=> (contiguous /\ <<width, r>>[1] >= 8)
      OBVIOUS
    <3>2. <<len, r>>[2] = r /\ <<width, r>>[2] = r
      OBVIOUS
    <3> QED BY <3>1, <3>2
  <2> QED BY <2>2, <2>3, <2>4
<1> QED BY <1>2, <1>3 DEF Alike

LEMMA ReduceSame ==
  ASSUME NEW avx2 \in BOOLEAN, NEW width \in Nat, NEW shape, Strided(shape),
         NEW size \in Nat \ {0}, Aligned(size, shape), NEW k \in Nat, NEW u, IsTile(u, k, width, size),
         NEW o \in u.start..(u.start + u.len - 1)
  PROVE  reduce(avx2, u, o - u.start, width, shape)
           = dispatch_layout(o * shape.output_stride, o, width, shape)
<1> DEFINE i == o - u.start
           len == u.len
           base == o * shape.output_stride
           rs == shape.reduce_stride
           os == shape.output_stride
           short == os = 1 /\ rs # 1 /\ width >= 8 /\ len < 8
<1>1. /\ u.start \in Nat /\ len \in Nat /\ o \in Nat /\ i \in 0..(len - 1) /\ u.start + i = o
      /\ os \in Nat /\ u.start + len <= width
  BY DEF IsTile, Strided
<1>2. base \in Nat
  <2> HIDE DEF os
  <2>1. o * os \in Nat
    BY <1>1
  <2> QED BY <2>1 DEF os
<1>3. reduce(avx2, u, i, width, shape)
        = IF short THEN vectorized_outer_tail(base, i, len, shape)
          ELSE dimension_sum_serial(avx2, base, i, len, shape)
  <2>1. (u.start + i) * shape.output_stride = base
    BY <1>1
  <2> HIDE DEF base, i
  <2> QED BY <2>1 DEF reduce
<1> DEFINE there == dispatch_layout(base, o, width, shape)
           impl(j, n) == dimension_sum_impl(os = 1, base, j, n, shape)
<1>4. there = impl(o, width) /\ dispatch_layout(base, i, len, shape) = impl(i, len)
  BY DEF dispatch_layout
<1> SUFFICES reduce(avx2, u, i, width, shape) = there
  OBVIOUS
<1> HIDE DEF i, len, base, os, there
<1>5. ~short => reduce(avx2, u, i, width, shape) = impl(i, len)
  <2>1. dimension_sum_serial(avx2, base, i, len, shape) = dispatch_layout(base, i, len, shape)
    BY <1>1, <1>2, SerialSame
  <2> QED BY <1>3, <1>4, <2>1
<1>6. CASE rs = 1
  <2>1. impl(i, len) = inner(base, shape.count) /\ impl(o, width) = inner(base, shape.count)
    BY <1>6 DEF dimension_sum_impl
  <2> QED BY <1>4, <1>5, <1>6, <2>1
<1>7. CASE rs # 1
  <2>1. Alike(i, len, o, width)
    <3>1. PICK g \in Nat : size = g * 32
      BY <1>7 DEF Aligned
    <3> QED BY <1>1, <3>1, TileAlike DEF i, len
  <2>2. CASE ~short
    <3>1. os = 1 => (len >= 8 <=> width >= 8)
      BY <1>1, <1>7, <2>2
    <3>2. impl(i, len) = impl(o, width)
      <4>1. (os = 1) \in BOOLEAN
        OBVIOUS
      <4> DEFINE contiguous == os = 1
      <4>2. contiguous \in BOOLEAN /\ (contiguous => (len >= 8 <=> width >= 8))
        BY <3>1
      <4> HIDE DEF contiguous
      <4>3. dimension_sum_impl(contiguous, base, i, len, shape)
              = dimension_sum_impl(contiguous, base, o, width, shape)
        BY <1>1, <1>7, <2>1, <4>2, AlikeSame
      <4> QED BY <4>3 DEF contiguous
    <3> QED BY <1>4, <1>5, <2>2, <3>2
  <2>3. CASE short
    <3>1. /\ Columns(len, 32) = 0 /\ ~(i < Columns(len, 32)) /\ i - 0 = i /\ len - 0 = len
      <4>1. len \div 32 = 0
        BY <1>1, <2>3
      <4> QED BY <1>1, <4>1 DEF Columns
    <3>2. /\ ~(o < Columns(width, 32))
          /\ i = o - Columns(width, 32)
          /\ len = width - Columns(width, 32)
      BY <2>1, <3>1 DEF Alike
    <3>3. impl(o, width) = vectorized_outer_tail(base, o - Columns(width, 32), width - Columns(width, 32), shape)
      BY <1>7, <2>3, <3>2 DEF dimension_sum_impl
    <3>4. impl(o, width) = vectorized_outer_tail(base, i, len, shape)
      BY <3>2, <3>3
    <3> QED BY <1>3, <1>4, <2>3, <3>4
  <2> QED BY <2>2, <2>3
<1> QED BY <1>6, <1>7
=============================================================================
