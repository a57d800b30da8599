-------------------------- MODULE TensorViewsProofs --------------------------
(***************************************************************************)
(* Every element a tensor addresses lies in its storage: what the layouts  *)
(* of TensorLayout reach, what the operators of TensorOperators allocate,  *)
(* and from both that no sequence of calls leaves a tensor out of bounds.  *)
(***************************************************************************)
EXTENDS TensorViews, DataLemmas

-----------------------------------------------------------------------------
(***************************************************************************)
(* Product and Total are these products and sums.                          *)
(***************************************************************************)
LEMMA TotalIs == ASSUME NEW s PROVE Total(s) = SumOf(s, DOMAIN s)
BY SummedFunction DEF Total

LEMMA ProductIs == ASSUME NEW s PROVE Product(s) = ProductOf(s, DOMAIN s)
<1>1. Product(s) =
        (CHOOSE f : f = [e \in SUBSET (DOMAIN s) |->
                           IF e = {} THEN 1
                           ELSE LET x == CHOOSE x \in e : TRUE
                                IN  s[x] * f[e \ {x}]])[DOMAIN s]
  BY DEF Product, FoldFunction, FoldFunctionOnSet, MapThenFoldSet
<1> QED BY <1>1 DEF ProductOf, ProductRecursion, Factored, Picked

LEMMA CountIs ==
  ASSUME NEW shape \in Seq(Nat)
  PROVE  /\ element_count(shape) = ProductOf(shape, 1..Len(shape)) /\ element_count(shape) \in Nat
         /\ element_count(shape) = 0 <=> \E d \in 1..Len(shape) : shape[d] = 0
<1>0. /\ DOMAIN shape = 1..Len(shape) /\ Len(shape) \in Nat
      /\ \A d \in 1..Len(shape) : shape[d] \in Nat
  OBVIOUS
<1>1. IsFiniteSet(1..Len(shape))
  BY <1>0, FS_Interval
<1>2. element_count(shape) = ProductOf(shape, 1..Len(shape))
  BY <1>0, ProductIs DEF element_count
<1> QED BY <1>0, <1>1, <1>2, ProductType, ProductZero

-----------------------------------------------------------------------------
(***************************************************************************)
(* The largest offset in a packed layout: with strides that are products   *)
(* of the extents inside an axis, the largest coordinates of all axes lead *)
(* to the last of the elements.                                            *)
(***************************************************************************)
LEMMA RadixUp ==
  ASSUME NEW n \in Nat, NEW e, \A p \in 1..n : e[p] \in Nat \ {0},
         NEW v, \A p \in 1..n : v[p] = (e[p] - 1) * ProductOf(e, 1..(p - 1))
  PROVE  SumOf(v, 1..n) = ProductOf(e, 1..n) - 1
<1>0. \A p \in 0..n : IsFiniteSet(1..p) /\ ProductOf(e, 1..p) \in Nat
  <2> SUFFICES ASSUME NEW p \in 0..n PROVE IsFiniteSet(1..p) /\ ProductOf(e, 1..p) \in Nat
    OBVIOUS
  <2>1. IsFiniteSet(1..p)
    BY FS_Interval
  <2>2. \A x \in 1..p : e[x] \in Nat
    OBVIOUS
  <2> QED BY <2>1, <2>2, ProductType
<1>1. ASSUME NEW p \in 1..n PROVE v[p] \in Nat
  <2>1. p - 1 \in 0..n /\ v[p] = (e[p] - 1) * ProductOf(e, 1..(p - 1))
    OBVIOUS
  <2>2. ProductOf(e, 1..(p - 1)) \in Nat /\ e[p] - 1 \in Nat
    BY <1>0, <2>1
  <2> QED BY <2>1, <2>2
<1> DEFINE G == {k \in Nat : k <= n => SumOf(v, 1..k) = ProductOf(e, 1..k) - 1}
<1>2. 0 \in G
  <2>1. 1..0 = {}
    OBVIOUS
  <2>2. SumOf(v, {}) = 0 /\ ProductOf(e, {}) = 1
    BY SumEmpty, ProductEmpty
  <2>3. SumOf(v, 1..0) = ProductOf(e, 1..0) - 1
    BY <2>1, <2>2
  <2> QED BY <2>3
<1>3. ASSUME NEW k \in Nat, k \in G PROVE k + 1 \in G
  <2> SUFFICES ASSUME k + 1 <= n PROVE SumOf(v, 1..(k + 1)) = ProductOf(e, 1..(k + 1)) - 1
    OBVIOUS
  <2>1. 1..(k + 1) = (1..k) \cup {k + 1} /\ k + 1 \notin 1..k /\ k + 1 \in 1..n /\ (k + 1) - 1 = k
    OBVIOUS
  <2>2. IsFiniteSet(1..k) /\ ProductOf(e, 1..k) \in Nat
    BY <1>0
  <2>3. SumOf(v, (1..k) \cup {k + 1}) = v[k + 1] + SumOf(v, 1..k)
    <3>1. \A x \in (1..k) \cup {k + 1} : v[x] \in Int
      BY <1>1
    <3> QED BY <2>1, <2>2, <3>1, SumAdd
  <2>4. ProductOf(e, (1..k) \cup {k + 1}) = e[k + 1] * ProductOf(e, 1..k)
    <3>1. \A x \in (1..k) \cup {k + 1} : e[x] \in Nat
      OBVIOUS
    <3> QED BY <2>1, <2>2, <3>1, ProductAdd
  <2>5. v[k + 1] = (e[k + 1] - 1) * ProductOf(e, 1..k) /\ e[k + 1] \in Nat
    BY <2>1
  <2>6. SumOf(v, 1..k) = ProductOf(e, 1..k) - 1
    BY <1>3
  <2> DEFINE x == e[k + 1]
             P == ProductOf(e, 1..k)
  <2>7. x \in Nat /\ P \in Nat
    BY <2>2, <2>5
  <2> HIDE DEF x, P
  <2>8. (x - 1) * P + (P - 1) = x * P - 1
    BY <2>7
  <2> QED BY <2>1, <2>3, <2>4, <2>5, <2>6, <2>8 DEF x, P
<1>4. n \in G
  <2> HIDE DEF G
  <2> QED BY <1>2, <1>3, NatSetInduction
<1> QED BY <1>4

LEMMA RadixDown ==
  ASSUME NEW c \in Nat \ {0}, NEW b \in Nat, c <= b + 1, NEW e, \A d \in c..b : e[d] \in Nat \ {0},
         NEW base \in Nat,
         NEW v, \A d \in c..b : v[d] = (e[d] - 1) * (base * ProductOf(e, (d + 1)..b))
  PROVE  SumOf(v, c..b) = base * (ProductOf(e, c..b) - 1)
<1>0. \A d \in (c - 1)..b : IsFiniteSet((d + 1)..b) /\ ProductOf(e, (d + 1)..b) \in Nat
  <2> SUFFICES ASSUME NEW d \in (c - 1)..b PROVE IsFiniteSet((d + 1)..b) /\ ProductOf(e, (d + 1)..b) \in Nat
    OBVIOUS
  <2>1. IsFiniteSet((d + 1)..b)
    BY FS_Interval
  <2>2. \A x \in (d + 1)..b : e[x] \in Nat
    OBVIOUS
  <2> QED BY <2>1, <2>2, ProductType
<1>1. ASSUME NEW d \in c..b PROVE v[d] \in Nat
  <2>1. d \in (c - 1)..b /\ e[d] - 1 \in Nat
    OBVIOUS
  <2>2. ProductOf(e, (d + 1)..b) \in Nat
    BY <1>0, <2>1
  <2>3. base * ProductOf(e, (d + 1)..b) \in Nat
    BY <2>2
  <2> QED BY <2>1, <2>3
<1> DEFINE G == {k \in Nat : k <= b + 1 - c =>
                   SumOf(v, (b - k + 1)..b) = base * (ProductOf(e, (b - k + 1)..b) - 1)}
<1>2. 0 \in G
  <2>1. (b - 0 + 1)..b = {}
    OBVIOUS
  <2>2. SumOf(v, {}) = 0 /\ ProductOf(e, {}) = 1
    BY SumEmpty, ProductEmpty
  <2>3. SumOf(v, (b - 0 + 1)..b) = base * (ProductOf(e, (b - 0 + 1)..b) - 1)
    BY <2>1, <2>2
  <2> QED BY <2>3
<1>3. ASSUME NEW k \in Nat, k \in G PROVE k + 1 \in G
  <2> SUFFICES ASSUME k + 1 <= b + 1 - c
               PROVE  SumOf(v, (b - (k + 1) + 1)..b) = base * (ProductOf(e, (b - (k + 1) + 1)..b) - 1)
    OBVIOUS
  <2> DEFINE d == b - k
             S == (d + 1)..b
  <2>1. /\ (b - (k + 1) + 1)..b = S \cup {d} /\ d \notin S /\ d \in c..b /\ d \in (c - 1)..b
        /\ (b - k + 1)..b = S
    <3>1. b - (k + 1) + 1 = d /\ b - k + 1 = d + 1 /\ d \in Nat /\ d <= b /\ c <= d
      OBVIOUS
    <3> HIDE DEF d
    <3>2. d..b = ((d + 1)..b) \cup {d} /\ d \notin (d + 1)..b
      BY <3>1
    <3> QED BY <3>1, <3>2
  <2>2. IsFiniteSet(S) /\ ProductOf(e, S) \in Nat
    BY <1>0, <2>1
  <2>3. \A x \in S \cup {d} : v[x] \in Int /\ e[x] \in Nat
    BY <1>1
  <2>4. v[d] = (e[d] - 1) * (base * ProductOf(e, S)) /\ e[d] \in Nat
    BY <2>1
  <2>5. SumOf(v, S) = base * (ProductOf(e, S) - 1)
    BY <1>3, <2>1
  <2> HIDE DEF S, d
  <2>6. SumOf(v, S \cup {d}) = v[d] + SumOf(v, S)
    BY <2>1, <2>2, <2>3, SumAdd
  <2>7. ProductOf(e, S \cup {d}) = e[d] * ProductOf(e, S)
    BY <2>1, <2>2, <2>3, ProductAdd
  <2> DEFINE x == e[d]
             P == ProductOf(e, S)
  <2>8. x \in Nat /\ P \in Nat
    BY <2>2, <2>4
  <2> HIDE DEF x, P
  <2>9. (x - 1) * (base * P) + base * (P - 1) = base * (x * P - 1)
    <3>1. base * P \in Nat /\ x * P \in Nat
      BY <2>8
    <3>2. (x - 1) * (base * P) = x * (base * P) - base * P
      BY <2>8, <3>1
    <3>3. base * (P - 1) = base * P - base /\ base * (x * P - 1) = base * (x * P) - base
      BY <2>8, <3>1
    <3>4. base * (x * P) = x * (base * P)
      BY <2>8
    <3>5. x * (base * P) \in Nat
      BY <2>8, <3>1
    <3> QED BY <3>1, <3>2, <3>3, <3>4, <3>5
  <2> QED BY <2>1, <2>4, <2>5, <2>6, <2>7, <2>9 DEF x, P
<1>4. b + 1 - c \in G
  <2> HIDE DEF G
  <2> QED BY <1>2, <1>3, NatSetInduction
<1> QED BY <1>4

-----------------------------------------------------------------------------
(***************************************************************************)
(* How far a layout reaches: the offset of its last element, in every      *)
(* axis, from its first.  A packed layout reaches the last slot of a       *)
(* storage that has as many as there are elements.                         *)
(***************************************************************************)
Spans(shape, strides) == [d \in DOMAIN strides |-> (shape[d] - 1) * strides[d]]

Reach(shape, strides) == SumOf(Spans(shape, strides), 1..Len(shape))

NonEmpty(shape) == \A d \in 1..Len(shape) : shape[d] # 0

Compact(shape, strides) == NonEmpty(shape) => Reach(shape, strides) = element_count(shape) - 1

Layout(shape, strides) ==
  shape \in Seq(Nat) /\ strides \in Seq(Nat) /\ Len(strides) = Len(shape)

Permutation(order, n) ==
  /\ order \in [1..n -> 1..n]
  /\ \A p, q \in 1..n : order[p] = order[q] => p = q
  /\ {order[p] : p \in 1..n} = 1..n

LEMMA SpansNat ==
  ASSUME NEW shape, NEW strides, Layout(shape, strides)
  PROVE  /\ DOMAIN Spans(shape, strides) = 1..Len(shape) /\ IsFiniteSet(1..Len(shape))
         /\ \A d \in 1..Len(shape) : /\ Spans(shape, strides)[d] = (shape[d] - 1) * strides[d]
                                     /\ Spans(shape, strides)[d] \in Int
                                     /\ shape[d] # 0 => Spans(shape, strides)[d] \in Nat
         /\ Reach(shape, strides) \in Int
         /\ NonEmpty(shape) => Reach(shape, strides) \in Nat
<1>1. DOMAIN Spans(shape, strides) = 1..Len(shape) /\ Len(shape) \in Nat
  BY DEF Spans, Layout
<1>2. IsFiniteSet(1..Len(shape))
  BY <1>1, FS_Interval
<1>3. ASSUME NEW d \in 1..Len(shape)
      PROVE  /\ Spans(shape, strides)[d] = (shape[d] - 1) * strides[d]
             /\ Spans(shape, strides)[d] \in Int
             /\ shape[d] # 0 => Spans(shape, strides)[d] \in Nat
  <2>1. shape[d] \in Nat /\ strides[d] \in Nat /\ d \in DOMAIN strides
    BY DEF Layout
  <2>2. Spans(shape, strides)[d] = (shape[d] - 1) * strides[d]
    BY <2>1 DEF Spans
  <2>3. shape[d] # 0 => shape[d] - 1 \in Nat
    BY <2>1
  <2> QED BY <2>1, <2>2, <2>3
<1>4. Reach(shape, strides) \in Int
  BY <1>2, <1>3, SumInt DEF Reach
<1>5. NonEmpty(shape) => Reach(shape, strides) \in Nat
  <2> SUFFICES ASSUME NonEmpty(shape) PROVE Reach(shape, strides) \in Nat
    OBVIOUS
  <2>1. \A d \in 1..Len(shape) : Spans(shape, strides)[d] \in Nat
    BY <1>3 DEF NonEmpty
  <2> QED BY <1>2, <2>1, SumType DEF Reach
<1> QED BY <1>1, <1>2, <1>3, <1>4, <1>5

LEMMA NonEmptyIs ==
  ASSUME NEW shape \in Seq(Nat)
  PROVE  /\ NonEmpty(shape) <=> element_count(shape) # 0
         /\ NonEmpty(shape) => element_count(shape) - 1 \in Nat
BY CountIs DEF NonEmpty

LEMMA BoundsAre ==
  ASSUME NEW shape, NEW strides, Layout(shape, strides), NEW offset, NEW stored
  PROVE  validate_view_bounds(shape, strides, offset, stored)
           <=> (NonEmpty(shape) => offset + Reach(shape, strides) < stored)
<1> DEFINE last == [axis \in DOMAIN shape |-> shape[axis] - 1]
           v == [axis \in DOMAIN strides |-> last[axis] * strides[axis]]
<1>1. DOMAIN strides = 1..Len(shape) /\ DOMAIN shape = 1..Len(shape)
  BY DEF Layout
<1>2. v = Spans(shape, strides)
  BY <1>1 DEF Spans
<1>3. Address(strides, offset, last) = offset + Total(v)
  BY DEF Address
<1>4. Total(v) = Reach(shape, strides)
  BY <1>1, <1>2, SpansNat, TotalIs DEF Reach
<1>5. element_count(shape) = 0 <=> ~NonEmpty(shape)
  BY NonEmptyIs DEF Layout
<1> HIDE DEF v
<1> QED BY <1>3, <1>4, <1>5 DEF validate_view_bounds

LEMMA InOrderReach ==
  ASSUME NEW shape, NEW strides, Layout(shape, strides), NEW order, Permutation(order, Len(shape)),
         NEW e, \A p \in 1..Len(shape) : e[p] = shape[order[p]],
         \A p \in 1..Len(shape) : shape[order[p]] # 1 => strides[order[p]] = ProductOf(e, 1..(p - 1))
  PROVE  Compact(shape, strides)
<1> SUFFICES ASSUME NonEmpty(shape) PROVE Reach(shape, strides) = element_count(shape) - 1
  BY DEF Compact
<1> DEFINE n == Len(shape)
           D == 1..n
           w == Spans(shape, strides)
           v == [p \in D |-> w[order[p]]]
           x == [p \in D |-> shape[order[p]]]
<1>a. n \in Nat
  BY DEF Layout
<1>0. n \in Nat /\ IsFiniteSet(1..n)
  BY <1>a, FS_Interval
<1>1. ASSUME NEW p \in 1..n
      PROVE  /\ order[p] \in 1..n /\ shape[order[p]] \in Nat \ {0} /\ e[p] = shape[order[p]]
             /\ w[order[p]] = (shape[order[p]] - 1) * strides[order[p]]
             /\ w[order[p]] \in Int
  <2>1. order[p] \in 1..n
    BY DEF Permutation
  <2>2. shape[order[p]] \in Nat \ {0}
    <3>1. shape[order[p]] \in Nat
      BY <2>1 DEF Layout
    <3>2. shape[order[p]] # 0
      BY <2>1 DEF NonEmpty
    <3> QED BY <3>1, <3>2
  <2> HIDE DEF w
  <2>3. w[order[p]] = (shape[order[p]] - 1) * strides[order[p]] /\ w[order[p]] \in Int
    BY <2>1, SpansNat DEF w
  <2> QED BY <2>1, <2>2, <2>3
<1>2. ASSUME NEW p \in 1..n PROVE v[p] = (e[p] - 1) * ProductOf(e, 1..(p - 1))
  <2>1. v[p] = (e[p] - 1) * strides[order[p]] /\ e[p] \in Nat
    <3> HIDE DEF w
    <3> QED BY <1>1
  <2>2. ProductOf(e, 1..(p - 1)) \in Nat /\ strides[order[p]] \in Nat
    <3>1. IsFiniteSet(1..(p - 1))
      BY FS_Interval
    <3>2. \A q \in 1..(p - 1) : e[q] \in Nat
      BY <1>1
    <3>3. strides[order[p]] \in Nat
      BY <1>1 DEF Layout
    <3> QED BY <3>1, <3>2, <3>3, ProductType
  <2>3. CASE e[p] = 1
    BY <2>1, <2>2, <2>3
  <2>4. CASE e[p] # 1
    BY <1>1, <2>1, <2>4
  <2> QED BY <2>3, <2>4
<1>3. SumOf(v, 1..n) = ProductOf(e, 1..n) - 1
  <2>1. \A p \in 1..n : e[p] \in Nat \ {0}
    BY <1>1
  <2> HIDE DEF v, n
  <2> QED BY <1>0, <1>2, <2>1, RadixUp
<1>4. \A p, q \in 1..n : order[p] = order[q] => p = q
  BY DEF Permutation
<1>5. {order[p] : p \in 1..n} = 1..n
  BY DEF Permutation
<1>6. SumOf(v, D) = SumOf(w, D)
  <2>1. \A p \in D : w[order[p]] \in Int
    BY <1>1
  <2>2. IsFiniteSet(D) /\ {order[p] : p \in D} = D /\ \A p, q \in D : order[p] = order[q] => p = q
    BY <1>0, <1>4, <1>5
  <2> HIDE DEF w, D
  <2> QED BY <2>1, <2>2, SumImage
<1>7. ProductOf(x, D) = ProductOf(shape, D)
  <2>1. \A p \in D : shape[order[p]] \in Nat
    BY <1>1
  <2>2. IsFiniteSet(D) /\ {order[p] : p \in D} = D /\ \A p, q \in D : order[p] = order[q] => p = q
    BY <1>0, <1>4, <1>5
  <2> HIDE DEF D
  <2> QED BY <2>1, <2>2, ProductImage
<1>8. ProductOf(x, 1..n) = ProductOf(e, 1..n)
  <2>1. \A p \in 1..n : x[p] = e[p] /\ e[p] \in Nat
    BY <1>1
  <2> HIDE DEF x, n
  <2> QED BY <1>0, <2>1, ProductSame
<1>9. element_count(shape) = ProductOf(shape, 1..n)
  BY CountIs DEF Layout
<1> HIDE DEF v, x
<1> QED BY <1>3, <1>6, <1>7, <1>8, <1>9 DEF Reach

-----------------------------------------------------------------------------
(***************************************************************************)
(* The strides the code lays new storage out with are compact.             *)
(***************************************************************************)
LEMMA InjectionPermutes ==
  ASSUME NEW n \in Nat, NEW order \in [1..n -> 1..n],
         \A p, q \in 1..n : order[p] = order[q] => p = q
  PROVE  Permutation(order, n)
<1>1. IsFiniteSet(1..n)
  BY FS_Interval
<1>2. order \in Injection(1..n, 1..n)
  BY DEF Injection, IsInjective
<1>3. order \in Surjection(1..n, 1..n)
  BY <1>1, <1>2, FS_Injection
<1>4. \A d \in 1..n : \E p \in 1..n : order[p] = d
  BY <1>3 DEF Surjection
<1>5. {order[p] : p \in 1..n} = 1..n
  BY <1>4
<1> QED BY <1>5 DEF Permutation

LEMMA RowMajorPermutes == ASSUME NEW n \in Nat PROVE Permutation(RowMajor(n), n) /\ RowMajor(n) \in Seq(Nat)
<1> DEFINE r == RowMajor(n)
<1>1. \A p \in 1..n : n + 1 - p \in 1..n
  OBVIOUS
<1>2. r = [p \in 1..n |-> n + 1 - p]
  BY DEF RowMajor
<1>3. r \in [1..n -> 1..n]
  BY <1>1, <1>2
<1>4. \A p, q \in 1..n : r[p] = r[q] => p = q
  <2>1. \A p \in 1..n : r[p] = n + 1 - p
    BY <1>2
  <2> HIDE DEF r
  <2> QED BY <2>1
<1>5. r \in Seq(Nat)
  BY <1>3
<1> HIDE DEF r
<1>6. Permutation(r, n)
  BY <1>3, <1>4, InjectionPermutes
<1> QED BY <1>5, <1>6 DEF r

LEMMA ChannelsLastPermutes == Permutation(ChannelsLast, 4) /\ Len(ChannelsLast) = 4
<1> DEFINE c == ChannelsLast
<1>1. c = <<2, 4, 3, 1>> /\ 1..4 = {1, 2, 3, 4}
  BY DEF ChannelsLast
<1>2. c \in [1..4 -> 1..4] /\ Len(c) = 4
  BY <1>1
<1>3. c[1] = 2 /\ c[2] = 4 /\ c[3] = 3 /\ c[4] = 1
  BY <1>1
<1> HIDE DEF c
<1>4. \A p, q \in 1..4 : c[p] = c[q] => p = q
  BY <1>1, <1>3
<1>5. Permutation(c, 4)
  BY <1>2, <1>4, InjectionPermutes
<1> QED BY <1>2, <1>5 DEF c

LEMMA PhysicalCompact ==
  ASSUME NEW shape \in Seq(Nat), NEW order, Permutation(order, Len(shape))
  PROVE  LET strides == strides_in_physical_order(shape, order)
         IN  Layout(shape, strides) /\ Compact(shape, strides)
<1> DEFINE n == Len(shape)
           st == strides_in_physical_order(shape, order)
           e == [q \in 1..n |-> shape[order[q]]]
<1>0. n \in Nat /\ DOMAIN shape = 1..n /\ DOMAIN order = 1..n /\ \A p \in 1..n : order[p] \in 1..n
  BY DEF Permutation
<1>1. \A p \in 1..n : e[p] = shape[order[p]] /\ e[p] \in Nat
  BY <1>0
<1>2. ASSUME NEW p \in 1..n PROVE st[order[p]] = ProductOf(e, 1..(p - 1)) /\ st[order[p]] \in Nat
  <2> DEFINE inner == [q \in 1..(p - 1) |-> shape[order[q]]]
  <2>1. (CHOOSE r \in DOMAIN order : order[r] = order[p]) = p
    BY <1>0 DEF Permutation
  <2>2. st[order[p]] = Product(inner)
    BY <1>0, <2>1 DEF strides_in_physical_order
  <2>3. Product(inner) = ProductOf(inner, 1..(p - 1))
    BY ProductIs
  <2>4. IsFiniteSet(1..(p - 1)) /\ \A q \in 1..(p - 1) : e[q] \in Nat /\ inner[q] = e[q]
    <3>1. IsFiniteSet(1..(p - 1))
      BY FS_Interval
    <3>2. \A q \in 1..(p - 1) : q \in 1..n
      BY <1>0
    <3>3. \A q \in 1..(p - 1) : e[q] \in Nat /\ inner[q] = e[q]
      BY <1>1, <3>2
    <3> QED BY <3>1, <3>3
  <2> HIDE DEF inner, e
  <2>5. ProductOf(inner, 1..(p - 1)) = ProductOf(e, 1..(p - 1)) /\ ProductOf(e, 1..(p - 1)) \in Nat
    BY <2>4, ProductSame, ProductType
  <2> HIDE DEF st
  <2> QED BY <2>2, <2>3, <2>5
<1>3. Layout(shape, st)
  <2>1. DOMAIN st = 1..n
    BY <1>0 DEF strides_in_physical_order
  <2>2. \A axis \in 1..n : st[axis] \in Nat
    <3> SUFFICES ASSUME NEW axis \in 1..n PROVE st[axis] \in Nat
      OBVIOUS
    <3>1. PICK p \in 1..n : order[p] = axis
      BY DEF Permutation
    <3> QED BY <1>2, <3>1
  <2>3. st = [axis \in 1..n |-> st[axis]]
    BY <2>1 DEF strides_in_physical_order
  <2> HIDE DEF st
  <2>4. st \in Seq(Nat) /\ Len(st) = n
    BY <1>0, <2>2, <2>3
  <2> QED BY <2>4 DEF Layout
<1>4. Compact(shape, st)
  <2> HIDE DEF st, e
  <2> QED BY <1>1, <1>2, <1>3, InOrderReach
<1> QED BY <1>3, <1>4

LEMMA ContiguousReach ==
  ASSUME NEW shape, NEW strides, Layout(shape, strides), NEW order, Permutation(order, Len(shape)),
         layout_is_contiguous_in_order(shape, strides, order)
  PROVE  Compact(shape, strides)
<1> DEFINE n == Len(shape)
           e == [q \in 1..n |-> shape[order[q]]]
<1>0. /\ n \in Nat /\ DOMAIN order = 1..n /\ \A p \in 1..n : order[p] \in 1..n
      /\ \A d \in 1..n : shape[d] \in Nat
  <2>1. n \in Nat /\ \A d \in 1..n : shape[d] \in Nat
    BY DEF Layout
  <2> QED BY <2>1 DEF Permutation
<1>1. \A p \in 1..n : e[p] = shape[order[p]] /\ e[p] \in Nat
  BY <1>0
<1>2. ASSUME NEW p \in 1..n, shape[order[p]] # 1 PROVE strides[order[p]] = ProductOf(e, 1..(p - 1))
  <2> DEFINE inner == [q \in 1..(p - 1) |-> shape[order[q]]]
  <2>1. strides[order[p]] = Product(inner)
    BY <1>0, <1>2 DEF layout_is_contiguous_in_order
  <2>2. Product(inner) = ProductOf(inner, 1..(p - 1))
    BY ProductIs
  <2>3. IsFiniteSet(1..(p - 1)) /\ \A q \in 1..(p - 1) : e[q] \in Nat /\ inner[q] = e[q]
    <3>1. IsFiniteSet(1..(p - 1))
      BY FS_Interval
    <3>2. \A q \in 1..(p - 1) : q \in 1..n
      BY <1>0
    <3>3. \A q \in 1..(p - 1) : e[q] \in Nat /\ inner[q] = e[q]
      BY <1>1, <3>2
    <3> QED BY <3>1, <3>3
  <2> HIDE DEF inner, e
  <2>4. ProductOf(inner, 1..(p - 1)) = ProductOf(e, 1..(p - 1))
    BY <2>3, ProductSame
  <2> QED BY <2>1, <2>2, <2>4
<1> HIDE DEF e
<1> QED BY <1>1, <1>2, InOrderReach

\* A stretch of a product, counted from its first factor.
LEMMA ShiftedProduct ==
  ASSUME NEW a \in Nat, NEW b \in Nat, NEW e, \A d \in (a + 1)..b : e[d] \in Nat,
         NEW s, DOMAIN s = 1..(b - a), \A k \in 1..(b - a) : s[k] = e[a + k]
  PROVE  Product(s) = ProductOf(e, (a + 1)..b)
<1> DEFINE D == 1..(b - a)
           shift == [k \in D |-> a + k]
           x == [k \in D |-> e[shift[k]]]
<1>1. IsFiniteSet(D)
  BY FS_Interval
<1>2. \A k \in D : shift[k] \in (a + 1)..b /\ shift[k] = a + k
  OBVIOUS
<1>3. \A i, j \in D : shift[i] = shift[j] => i = j
  OBVIOUS
<1>4. {shift[k] : k \in D} = (a + 1)..b
  <2>1. ASSUME NEW d \in (a + 1)..b PROVE d \in {shift[k] : k \in D}
    <3>1. d - a \in D /\ shift[d - a] = d
      OBVIOUS
    <3> QED BY <3>1
  <2> HIDE DEF shift
  <2> QED BY <1>2, <2>1
<1>5. \A k \in D : e[shift[k]] \in Nat /\ x[k] = s[k] /\ s[k] \in Nat
  BY <1>2
<1> HIDE DEF D, shift
<1>6. ProductOf(x, D) = ProductOf(e, {shift[k] : k \in D})
  BY <1>1, <1>3, <1>5, ProductImage
<1>7. ProductOf(x, D) = ProductOf(s, D)
  <2> HIDE DEF x
  <2> QED BY <1>1, <1>5, ProductSame
<1>8. Product(s) = ProductOf(s, D)
  BY ProductIs DEF D
<1> QED BY <1>4, <1>6, <1>7, <1>8

LEMMA RadixDownAll ==
  ASSUME NEW n \in Nat, NEW e, \A d \in 1..n : e[d] \in Nat \ {0},
         NEW v, \A d \in 1..n : v[d] = (e[d] - 1) * ProductOf(e, (d + 1)..n)
  PROVE  SumOf(v, 1..n) = ProductOf(e, 1..n) - 1
<1>1. ASSUME NEW d \in 1..n PROVE ProductOf(e, (d + 1)..n) \in Nat
  <2>1. IsFiniteSet((d + 1)..n)
    BY FS_Interval
  <2>2. \A j \in (d + 1)..n : e[j] \in Nat
    OBVIOUS
  <2> QED BY <2>1, <2>2, ProductType
<1>2. ASSUME NEW x \in Nat, x = 1 PROVE SumOf(v, 1..n) = x * (ProductOf(e, 1..n) - 1)
  <2>1. \A d \in 1..n : v[d] = (e[d] - 1) * (x * ProductOf(e, (d + 1)..n))
    BY <1>1, <1>2
  <2>2. 1 \in Nat \ {0} /\ 1 <= n + 1
    OBVIOUS
  <2> QED BY <2>1, <2>2, RadixDown
<1>5. ProductOf(e, 1..n) \in Nat
  <2>1. IsFiniteSet(1..n)
    BY FS_Interval
  <2> QED BY <2>1, ProductType
<1> QED BY <1>2, <1>5

LEMMA ContiguousCompact ==
  ASSUME NEW shape \in Seq(Nat)
  PROVE  Layout(shape, contiguous_strides(shape)) /\ Compact(shape, contiguous_strides(shape))
<1> DEFINE n == Len(shape)
           st == contiguous_strides(shape)
           e == [d \in 1..n |-> Max({1, shape[d]})]
           v == Spans(shape, st)
<1>0. n \in Nat /\ DOMAIN shape = 1..n /\ \A d \in 1..n : shape[d] \in Nat
  OBVIOUS
<1>1. ASSUME NEW x \in Nat PROVE Max({1, x}) \in Nat \ {0} /\ (x # 0 => Max({1, x}) = x)
  <2>1. \E y \in {1, x} : \A z \in {1, x} : y >= z
    OBVIOUS
  <2>2. Max({1, x}) \in {1, x} /\ \A z \in {1, x} : Max({1, x}) >= z
    BY <2>1 DEF Max
  <2> QED BY <2>2
<1>2. \A d \in 1..n : e[d] = Max({1, shape[d]}) /\ e[d] \in Nat \ {0} /\ (shape[d] # 0 => e[d] = shape[d])
  BY <1>0, <1>1
<1>3. ASSUME NEW d \in 1..n PROVE st[d] = ProductOf(e, (d + 1)..n) /\ st[d] \in Nat
  <2> DEFINE s == [k \in 1..(n - d) |-> Max({1, shape[d + k]})]
  <2>1. st[d] = Product(s)
    BY <1>0 DEF contiguous_strides
  <2>2. \A k \in 1..(n - d) : s[k] = e[d + k]
    <3>1. \A k \in 1..(n - d) : d + k \in 1..n
      OBVIOUS
    <3> QED BY <1>2, <3>1
  <2>3. \A j \in (d + 1)..n : e[j] \in Nat
    BY <1>2
  <2>4. Product(s) = ProductOf(e, (d + 1)..n)
    <3>1. d \in Nat /\ DOMAIN s = 1..(n - d)
      OBVIOUS
    <3> HIDE DEF s, e
    <3> QED BY <1>0, <2>2, <2>3, <3>1, ShiftedProduct
  <2>5. ProductOf(e, (d + 1)..n) \in Nat
    <3>1. IsFiniteSet((d + 1)..n)
      BY FS_Interval
    <3> HIDE DEF e
    <3> QED BY <2>3, <3>1, ProductType
  <2> QED BY <2>1, <2>4, <2>5
<1>4. Layout(shape, st)
  <2>1. st = [d \in 1..n |-> st[d]]
    BY <1>0 DEF contiguous_strides
  <2>2. \A d \in 1..n : st[d] \in Nat
    BY <1>3
  <2> HIDE DEF st
  <2>4. st \in [1..n -> Nat]
    BY <2>1, <2>2
  <2>3. st \in Seq(Nat) /\ Len(st) = n
    BY <1>0, <2>4
  <2> QED BY <2>3 DEF Layout
<1>5. Compact(shape, st)
  <2> SUFFICES ASSUME NonEmpty(shape) PROVE SumOf(v, 1..n) = element_count(shape) - 1
    BY DEF Compact, Reach
  <2>1. \A d \in 1..n : e[d] = shape[d]
    BY <1>2 DEF NonEmpty
  <2>2. \A d \in 1..n : v[d] = (e[d] - 1) * ProductOf(e, (d + 1)..n)
    <3> SUFFICES ASSUME NEW d \in 1..n PROVE v[d] = (e[d] - 1) * ProductOf(e, (d + 1)..n)
      OBVIOUS
    <3>1. v[d] = (shape[d] - 1) * st[d]
      BY <1>4, SpansNat
    <3>2. st[d] = ProductOf(e, (d + 1)..n) /\ st[d] \in Nat
      BY <1>3
    <3> HIDE DEF v, st, e
    <3> QED BY <2>1, <3>1, <3>2
  <2>3. ProductOf(shape, 1..n) = ProductOf(e, 1..n)
    <3>1. IsFiniteSet(1..n)
      BY FS_Interval
    <3> HIDE DEF e, n
    <3> QED BY <1>0, <2>1, <3>1, ProductSame
  <2>4. element_count(shape) = ProductOf(shape, 1..n) /\ element_count(shape) \in Nat
    BY CountIs
  <2>5. SumOf(v, 1..n) = ProductOf(e, 1..n) - 1
    <3>1. \A d \in 1..n : e[d] \in Nat \ {0}
      BY <1>2
    <3> HIDE DEF v, e, n
    <3> QED BY <1>0, <2>2, <3>1, RadixDownAll
  <2> HIDE DEF v, e, n
  <2> QED BY <1>0, <2>3, <2>4, <2>5
<1> QED BY <1>4, <1>5

-----------------------------------------------------------------------------
(***************************************************************************)
(* A layout found dense is compact: the axes found one after the other,    *)
(* each with the stride the ones before it make, are all the axes that     *)
(* count.                                                                  *)
(***************************************************************************)
LEMMA LongIs ==
  ASSUME NEW shape, NEW strides, Layout(shape, strides), NonEmpty(shape)
  PROVE  /\ LongAxes(shape) \in SUBSET (1..Len(shape)) /\ IsFiniteSet(LongAxes(shape))
         /\ Cardinality(LongAxes(shape)) \in Nat
         /\ \A d \in LongAxes(shape) : shape[d] \in Nat /\ shape[d] > 1
         /\ \A d \in (1..Len(shape)) \ LongAxes(shape) : shape[d] = 1
         /\ \A d \in 1..Len(shape) : shape[d] \in Nat /\ shape[d] # 0 /\ strides[d] \in Nat
<1> DEFINE n == Len(shape)
           long == LongAxes(shape)
<1>1. n \in Nat /\ \A d \in 1..n : shape[d] \in Nat /\ strides[d] \in Nat
  BY DEF Layout
<1>2. \A d \in 1..n : shape[d] # 0
  BY DEF NonEmpty
<1>3. long = {axis \in 1..n : shape[axis] > 1}
  BY DEF LongAxes, Layout
<1>4. IsFiniteSet(1..n)
  BY <1>1, FS_Interval
<1>5. long \in SUBSET (1..n)
  BY <1>3
<1>6. IsFiniteSet(long)
  BY <1>4, <1>5, FS_Subset
<1>7. \A d \in (1..n) \ long : shape[d] = 1
  BY <1>1, <1>2, <1>3
<1>8. \A d \in long : shape[d] \in Nat /\ shape[d] > 1
  BY <1>1, <1>3
<1> HIDE DEF long
<1> QED BY <1>1, <1>2, <1>5, <1>6, <1>7, <1>8, FS_CardinalityType DEF long

AxesWith(shape, strides, stride) == {axis \in LongAxes(shape) : strides[axis] = stride}

FoundAxis(shape, strides, stride) == CHOOSE axis \in AxesWith(shape, strides, stride) : TRUE

NextStride(shape, strides, stride) ==
  IF Cardinality(AxesWith(shape, strides, stride)) # 1 THEN 0
  ELSE stride * shape[FoundAxis(shape, strides, stride)]

LEMMA FoundIs ==
  ASSUME NEW shape, NEW strides, NEW b, Cardinality(AxesWith(shape, strides, b)) = 1
  PROVE  /\ FoundAxis(shape, strides, b) \in LongAxes(shape)
         /\ strides[FoundAxis(shape, strides, b)] = b
<1>1. AxesWith(shape, strides, b) # {}
  BY FS_EmptySet
<1> QED BY <1>1 DEF FoundAxis, AxesWith

LEMMA DenseSteps ==
  ASSUME NEW shape, NEW strides, Layout(shape, strides), NonEmpty(shape)
  PROVE  \E f : /\ f[0] = 1
                /\ \A m \in 1..Cardinality(LongAxes(shape)) : f[m] = NextStride(shape, strides, f[m - 1])
                /\ \A m \in 0..Cardinality(LongAxes(shape)) : f[m] \in Nat
                /\ layout_is_non_overlapping_and_dense(shape, strides)
                     <=> f[Cardinality(LongAxes(shape))] # 0
                /\ layout_is_non_overlapping_and_dense(shape, strides)
                     => \A m \in 0..Cardinality(LongAxes(shape)) : f[m] # 0
<1> DEFINE long == LongAxes(shape)
           N == Cardinality(long)
           with(stride) == {axis \in long : strides[axis] = stride}
           nx(b) == NextStride(shape, strides, b)
           step == [m \in 1..N |-> [b \in Nat |-> nx(b)]]
           Right(f) == f = [matched \in 0..N |->
                              IF matched = 0 THEN 1
                              ELSE LET before == f[matched - 1]
                                   IN  IF Cardinality(with(before)) # 1 THEN 0
                                       ELSE before * shape[CHOOSE axis \in with(before) : TRUE]]
           expected == CHOOSE f : Right(f)
<1>0. N \in Nat /\ \A d \in long : shape[d] \in Nat
  BY LongIs
<1>2. ASSUME NEW b \in Nat PROVE nx(b) \in Nat
  <2>1. CASE Cardinality(AxesWith(shape, strides, b)) = 1
    <3>1. shape[FoundAxis(shape, strides, b)] \in Nat
      BY <1>0, <2>1, FoundIs
    <3>2. nx(b) = b * shape[FoundAxis(shape, strides, b)]
      BY <2>1 DEF NextStride
    <3> QED BY <3>1, <3>2
  <2>2. CASE Cardinality(AxesWith(shape, strides, b)) # 1
    BY <2>2 DEF NextStride
  <2> QED BY <2>1, <2>2
<1>3. \E f : Right(f) /\ f \in [0..N -> Nat]
  <2>1. N \in Nat /\ 1 \in Nat /\ step \in Steps(N, Nat)
    <3> HIDE DEF nx, N
    <3> QED BY <1>0, <1>2 DEF Steps
  <2>2. \A m \in 1..N : \A b \in Nat : step[m][b] = nx(b)
    OBVIOUS
  <2> HIDE DEF step
  <2>3. PICK f : Recursion(f, N, Nat, 1, step)
    BY <2>1, RecursionDefines
  <2>4. f \in [0..N -> Nat] /\ f[0] = 1 /\ \A m \in 1..N : f[m] = step[m][f[m - 1]]
    BY <2>3 DEF Recursion
  <2>5. ASSUME NEW m \in 1..N PROVE f[m] = nx(f[m - 1])
    <3>1. m - 1 \in 0..N
      BY <2>1
    <3>2. f[m - 1] \in Nat
      BY <2>4, <3>1
    <3> HIDE DEF nx
    <3> QED BY <2>2, <2>4, <3>2
  <2>6. ASSUME NEW m \in 0..N PROVE f[m] = IF m = 0 THEN 1 ELSE nx(f[m - 1])
    <3>1. m # 0 => m \in 1..N
      BY <2>1
    <3> HIDE DEF nx
    <3> QED BY <2>4, <2>5, <3>1
  <2>7. f = [m \in 0..N |-> f[m]]
    BY <2>4
  <2>8. f = [m \in 0..N |-> IF m = 0 THEN 1 ELSE nx(f[m - 1])]
    <3> HIDE DEF nx, N
    <3> QED BY <2>6, <2>7
  <2>9. Right(f)
    BY <2>8 DEF NextStride, FoundAxis, AxesWith
  <2> HIDE DEF Right
  <2> QED BY <2>4, <2>9
<1>4. Right(expected)
  <2> HIDE DEF Right
  <2> QED BY <1>3
<1>5. /\ expected[0] = 1
      /\ \A m \in 1..N : expected[m] = nx(expected[m - 1])
  <2>0. expected = [m \in 0..N |-> IF m = 0 THEN 1 ELSE nx(expected[m - 1])]
    <3> HIDE DEF expected
    <3> QED BY <1>4 DEF NextStride, FoundAxis, AxesWith
  <2> HIDE DEF expected, with, nx
  <2>1. 0 \in 0..N /\ \A m \in 1..N : m \in 0..N /\ m # 0
    BY <1>0
  <2> HIDE DEF N
  <2> QED BY <2>0, <2>1
<1>6. layout_is_non_overlapping_and_dense(shape, strides) <=> expected[N] # 0
  <2>1. element_count(shape) # 0
    BY NonEmptyIs DEF Layout
  <2> QED BY <2>1 DEF layout_is_non_overlapping_and_dense
<1> HIDE DEF Right, expected, step
<1>8. \A m \in 0..N : expected[m] \in Nat
  <2> DEFINE G == {k \in Nat : k <= N => expected[k] \in Nat}
  <2>1. 0 \in G
    BY <1>5
  <2>2. ASSUME NEW k \in Nat, k \in G PROVE k + 1 \in G
    <3> SUFFICES ASSUME k + 1 <= N PROVE expected[k + 1] \in Nat
      OBVIOUS
    <3>1. k + 1 \in 1..N /\ expected[k] \in Nat /\ (k + 1) - 1 = k
      BY <1>0, <2>2
    <3>2. expected[k + 1] = nx(expected[k])
      <4> HIDE DEF nx
      <4> QED BY <1>5, <3>1
    <3> HIDE DEF nx
    <3> QED BY <1>2, <3>1, <3>2
  <2>3. \A k \in Nat : k \in G
    <3> HIDE DEF G
    <3> QED BY <2>1, <2>2, NatSetInduction
  <2> QED BY <1>0, <2>3
<1>9. ASSUME expected[N] # 0 PROVE \A m \in 0..N : expected[m] # 0
  <2> DEFINE G == {k \in Nat : k <= N => expected[N - k] # 0}
  <2>1. 0 \in G
    BY <1>0, <1>9
  <2>2. ASSUME NEW k \in Nat, k \in G PROVE k + 1 \in G
    <3> SUFFICES ASSUME k + 1 <= N, expected[N - (k + 1)] = 0 PROVE FALSE
      OBVIOUS
    <3> DEFINE m == N - k
    <3>1. m \in 1..N /\ m - 1 = N - (k + 1) /\ expected[m] # 0
      BY <1>0, <2>2
    <3> HIDE DEF m
    <3>2. expected[m] = NextStride(shape, strides, 0)
      BY <1>5, <3>1
    <3>3. Cardinality(AxesWith(shape, strides, 0)) = 1
      BY <3>1, <3>2 DEF NextStride
    <3>4. shape[FoundAxis(shape, strides, 0)] \in Nat
      BY <1>0, <3>3, FoundIs DEF long
    <3>5. expected[m] = 0 * shape[FoundAxis(shape, strides, 0)]
      BY <3>2, <3>3 DEF NextStride
    <3> QED BY <3>1, <3>4, <3>5
  <2>3. \A k \in Nat : k \in G
    <3> HIDE DEF G
    <3> QED BY <2>1, <2>2, NatSetInduction
  <2>4. ASSUME NEW m \in 0..N PROVE expected[m] # 0
    <3>1. N - m \in Nat /\ N - m <= N /\ N - (N - m) = m
      BY <1>0
    <3> QED BY <2>3, <3>1
  <2> QED BY <2>4
<1> QED BY <1>5, <1>6, <1>8, <1>9

LEMMA DenseChain ==
  ASSUME NEW shape, NEW strides, Layout(shape, strides), NonEmpty(shape),
         layout_is_non_overlapping_and_dense(shape, strides)
  PROVE  \E f, ax : /\ f[0] = 1
                    /\ \A m \in 1..Cardinality(LongAxes(shape)) :
                         /\ ax[m] \in LongAxes(shape) /\ strides[ax[m]] = f[m - 1]
                         /\ f[m] = f[m - 1] * shape[ax[m]] /\ f[m - 1] \in Nat \ {0}
<1> DEFINE long == LongAxes(shape)
           N == Cardinality(long)
<1>1. PICK f : /\ f[0] = 1
               /\ \A m \in 1..Cardinality(LongAxes(shape)) : f[m] = NextStride(shape, strides, f[m - 1])
               /\ \A m \in 0..Cardinality(LongAxes(shape)) : f[m] \in Nat
               /\ layout_is_non_overlapping_and_dense(shape, strides)
                    <=> f[Cardinality(LongAxes(shape))] # 0
               /\ layout_is_non_overlapping_and_dense(shape, strides)
                    => \A m \in 0..Cardinality(LongAxes(shape)) : f[m] # 0
  BY DenseSteps
<1>2. \A m \in 0..N : f[m] \in Nat \ {0}
  BY <1>1
<1> DEFINE ax == [m \in 1..N |-> FoundAxis(shape, strides, f[m - 1])]
<1>3. ASSUME NEW m \in 1..N
      PROVE  /\ ax[m] \in long /\ strides[ax[m]] = f[m - 1]
             /\ f[m] = f[m - 1] * shape[ax[m]] /\ f[m - 1] \in Nat \ {0}
  <2>1. m \in 0..N /\ m - 1 \in 0..N
    BY LongIs
  <2>2. f[m] = NextStride(shape, strides, f[m - 1]) /\ f[m] # 0
    BY <1>1, <1>2, <2>1
  <2>3. Cardinality(AxesWith(shape, strides, f[m - 1])) = 1
    BY <2>2 DEF NextStride
  <2>4. f[m] = f[m - 1] * shape[FoundAxis(shape, strides, f[m - 1])]
    BY <2>2, <2>3 DEF NextStride
  <2>5. ax[m] = FoundAxis(shape, strides, f[m - 1])
    OBVIOUS
  <2> HIDE DEF ax
  <2> QED BY <1>2, <2>1, <2>3, <2>4, <2>5, FoundIs
<1> HIDE DEF ax
<1> QED BY <1>1, <1>3

LEMMA DenseCompact ==
  ASSUME NEW shape, NEW strides, Layout(shape, strides),
         layout_is_non_overlapping_and_dense(shape, strides)
  PROVE  Compact(shape, strides)
<1> SUFFICES ASSUME NonEmpty(shape) PROVE Reach(shape, strides) = element_count(shape) - 1
  BY DEF Compact
<1> DEFINE n == Len(shape)
           long == LongAxes(shape)
           N == Cardinality(long)
           w == Spans(shape, strides)
<1>0. /\ n \in Nat /\ \A d \in 1..n : shape[d] \in Nat /\ shape[d] # 0
      /\ IsFiniteSet(1..n)
  <2>1. n \in Nat /\ \A d \in 1..n : shape[d] \in Nat
    BY DEF Layout
  <2>2. \A d \in 1..n : shape[d] # 0
    BY DEF NonEmpty
  <2>3. IsFiniteSet(1..n)
    BY <2>1, FS_Interval
  <2> QED BY <2>1, <2>2, <2>3
<1>1. /\ long \in SUBSET (1..n) /\ IsFiniteSet(long) /\ N \in Nat
      /\ \A d \in long : shape[d] > 1
      /\ \A d \in (1..n) \ long : shape[d] = 1
  <2>1. DOMAIN shape = 1..n
    BY DEF Layout
  <2>2. long = {axis \in 1..n : shape[axis] > 1}
    BY <2>1 DEF LongAxes
  <2>3. IsFiniteSet(long)
    BY <1>0, <2>2, FS_Subset
  <2>4. \A d \in (1..n) \ long : shape[d] = 1
    BY <1>0, <2>2
  <2> QED BY <2>2, <2>3, <2>4, FS_CardinalityType
<1>2. PICK f, ax : /\ f[0] = 1
                   /\ \A m \in 1..Cardinality(LongAxes(shape)) :
                         /\ ax[m] \in LongAxes(shape) /\ strides[ax[m]] = f[m - 1]
                         /\ f[m] = f[m - 1] * shape[ax[m]] /\ f[m - 1] \in Nat \ {0}
  BY DenseChain
<1> HIDE DEF long, n, w
<1>3. \A m \in 1..N : /\ ax[m] \in long /\ strides[ax[m]] = f[m - 1]
                      /\ f[m] = f[m - 1] * shape[ax[m]] /\ f[m - 1] \in Nat \ {0}
                      /\ ax[m] \in 1..n /\ shape[ax[m]] \in Nat /\ shape[ax[m]] > 1
  BY <1>0, <1>1, <1>2 DEF long
<1> HIDE DEF N
<1>4. ASSUME NEW m \in 1..N PROVE f[m - 1] < f[m] /\ f[m] \in Nat \ {0}
  <2> DEFINE b == f[m - 1]
             x == shape[ax[m]]
  <2>1. b \in Nat \ {0} /\ x \in Nat /\ x > 1 /\ f[m] = b * x
    BY <1>3
  <2> HIDE DEF b, x
  <2>2. b * x \in Nat /\ b < b * x
    <3>1. x - 1 \in Nat \ {0} /\ b * x = b + b * (x - 1)
      BY <2>1
    <3>2. b * (x - 1) \in Nat \ {0}
      BY <2>1, <3>1
    <3> QED BY <2>1, <3>1, <3>2
  <2> QED BY <2>1, <2>2 DEF b
<1>5. \A j \in 0..N : f[j] \in Nat \ {0} /\ \A i \in 0..(j - 1) : f[i] < f[j]
  <2> DEFINE G == {k \in Nat : k <= N => f[k] \in Nat \ {0} /\ \A i \in 0..(k - 1) : f[i] < f[k]}
  <2>1. 0 \in G
    BY <1>2
  <2>2. ASSUME NEW k \in Nat, k \in G PROVE k + 1 \in G
    <3> SUFFICES ASSUME k + 1 <= N
                 PROVE  f[k + 1] \in Nat \ {0} /\ \A i \in 0..k : f[i] < f[k + 1]
      OBVIOUS
    <3>1. k + 1 \in 1..N /\ (k + 1) - 1 = k
      BY <1>1
    <3>2. f[k] < f[k + 1] /\ f[k + 1] \in Nat \ {0}
      BY <1>4, <3>1
    <3>3. f[k] \in Nat \ {0} /\ \A i \in 0..(k - 1) : f[i] < f[k] /\ f[i] \in Nat \ {0}
      <4>1. \A i \in 0..(k - 1) : i + 1 \in 1..N /\ (i + 1) - 1 = i
        BY <1>1
      <4>2. \A i \in 0..(k - 1) : f[i] \in Nat \ {0}
        BY <1>3, <4>1
      <4> QED BY <1>1, <2>2, <4>2
    <3>4. ASSUME NEW i \in 0..k PROVE f[i] < f[k + 1]
      <4>1. CASE i = k
        BY <3>2, <4>1
      <4>2. CASE i # k
        <5>1. i \in 0..(k - 1)
          BY <4>2
        <5> QED BY <3>2, <3>3, <5>1
      <4> QED BY <4>1, <4>2
    <3> QED BY <3>2, <3>4
  <2>3. \A k \in Nat : k \in G
    <3> HIDE DEF G
    <3> QED BY <2>1, <2>2, NatSetInduction
  <2> QED BY <1>1, <2>3
<1>6. \A p, q \in 1..N : ax[p] = ax[q] => p = q
  <2> SUFFICES ASSUME NEW p \in 1..N, NEW q \in 1..N, ax[p] = ax[q], p < q PROVE FALSE
    <3>1. \A p, q \in 1..N : p = q \/ p < q \/ q < p
      BY <1>1
    <3> QED BY <3>1
  <2>1. f[p - 1] = f[q - 1]
    BY <1>3
  <2>2. p - 1 \in 0..((q - 1) - 1) /\ q - 1 \in 0..N
    BY <1>1
  <2> QED BY <1>5, <2>1, <2>2
<1>7. {ax[m] : m \in 1..N} = long
  <2> DEFINE a == [m \in 1..N |-> ax[m]]
  <2>1. IsFiniteSet(1..N) /\ Cardinality(1..N) = N
    BY <1>1, FS_Interval
  <2>2. a \in Injection(1..N, long)
    BY <1>3, <1>6 DEF Injection, IsInjective
  <2>3. a \in Surjection(1..N, long)
    BY <1>1, <2>1, <2>2, FS_Injection DEF N
  <2>4. \A d \in long : \E p \in 1..N : a[p] = d
    BY <2>3 DEF Surjection
  <2>5. \A p \in 1..N : a[p] = ax[p]
    OBVIOUS
  <2> QED BY <1>3, <2>4, <2>5
<1> DEFINE e == [m \in 1..N |-> shape[ax[m]]]
           v == [m \in 1..N |-> w[ax[m]]]
<1>8. \A m \in 1..N : e[m] = shape[ax[m]] /\ e[m] \in Nat \ {0}
  BY <1>3
<1>9. \A m \in 0..N : f[m] = ProductOf(e, 1..m)
  <2> DEFINE G == {k \in Nat : k <= N => f[k] = ProductOf(e, 1..k)}
  <2>1. 0 \in G
    <3>1. 1..0 = {}
      OBVIOUS
    <3> QED BY <1>2, <3>1, ProductEmpty
  <2>2. ASSUME NEW k \in Nat, k \in G PROVE k + 1 \in G
    <3> SUFFICES ASSUME k + 1 <= N PROVE f[k + 1] = ProductOf(e, 1..(k + 1))
      OBVIOUS
    <3>1. k + 1 \in 1..N /\ (k + 1) - 1 = k /\ f[k] = ProductOf(e, 1..k)
      BY <1>1, <2>2
    <3>2. 1..(k + 1) = (1..k) \cup {k + 1} /\ k + 1 \notin 1..k /\ IsFiniteSet(1..k)
      BY FS_Interval
    <3>3. \A x \in (1..k) \cup {k + 1} : x \in 1..N
      BY <1>1, <3>1
    <3>4. \A x \in (1..k) \cup {k + 1} : e[x] \in Nat
      BY <1>8, <3>3
    <3> HIDE DEF e
    <3>5. ProductOf(e, (1..k) \cup {k + 1}) = e[k + 1] * ProductOf(e, 1..k)
      BY <3>2, <3>4, ProductAdd
    <3>6. f[k + 1] = f[k] * e[k + 1] /\ f[k] \in Nat /\ e[k + 1] \in Nat
      BY <1>3, <1>8, <3>1
    <3> DEFINE P == ProductOf(e, 1..k)
               x == e[k + 1]
    <3>7. f[k + 1] = P * x /\ ProductOf(e, 1..(k + 1)) = x * P /\ P \in Nat /\ x \in Nat
      BY <3>1, <3>2, <3>5, <3>6
    <3> HIDE DEF P, x
    <3>8. P * x = x * P
      BY <3>7
    <3> QED BY <3>7, <3>8
  <2>3. \A k \in Nat : k \in G
    <3> HIDE DEF G
    <3> QED BY <2>1, <2>2, NatSetInduction
  <2> QED BY <1>1, <2>3
<1>10. ASSUME NEW m \in 1..N PROVE v[m] = (e[m] - 1) * ProductOf(e, 1..(m - 1))
  <2>1. m - 1 \in 0..N
    BY <1>1
  <2>2. w[ax[m]] = (shape[ax[m]] - 1) * strides[ax[m]]
    BY <1>3, SpansNat DEF w, n
  <2>3. v[m] = w[ax[m]] /\ f[m - 1] = ProductOf(e, 1..(m - 1))
    BY <1>9, <2>1
  <2> HIDE DEF e, v
  <2> QED BY <1>3, <1>8, <2>2, <2>3
<1>11. SumOf(v, 1..N) = ProductOf(e, 1..N) - 1
  <2>1. \A p \in 1..N : v[p] = (e[p] - 1) * ProductOf(e, 1..(p - 1))
    BY <1>10
  <2> HIDE DEF v, e
  <2> QED BY <1>1, <1>8, <2>1, RadixUp
<1>12. /\ IsFiniteSet(1..N)
       /\ \A m \in 1..N : w[ax[m]] \in Int /\ shape[ax[m]] \in Nat
  <2>1. IsFiniteSet(1..N)
    BY <1>1, FS_Interval
  <2> QED BY <1>3, <2>1, SpansNat DEF w, n
<1>13. SumOf(v, 1..N) = SumOf(w, long)
  <2> DEFINE D == 1..N
  <2>1. IsFiniteSet(D) /\ \A m \in D : w[ax[m]] \in Int
    BY <1>12
  <2>2. \A p, q \in D : ax[p] = ax[q] => p = q
    BY <1>6
  <2>3. {ax[m] : m \in D} = long
    BY <1>7
  <2> HIDE DEF D
  <2>4. SumOf([m \in D |-> w[ax[m]]], D) = SumOf(w, {ax[m] : m \in D})
    BY <2>1, <2>2, SumImage
  <2> QED BY <2>3, <2>4 DEF D
<1>14. ProductOf(e, 1..N) = ProductOf(shape, long)
  <2> DEFINE D == 1..N
  <2>1. IsFiniteSet(D) /\ \A m \in D : shape[ax[m]] \in Nat
    BY <1>12
  <2>2. \A p, q \in D : ax[p] = ax[q] => p = q
    BY <1>6
  <2>3. {ax[m] : m \in D} = long
    BY <1>7
  <2> HIDE DEF D
  <2>4. ProductOf([m \in D |-> shape[ax[m]]], D) = ProductOf(shape, {ax[m] : m \in D})
    BY <2>1, <2>2, ProductImage
  <2> QED BY <2>3, <2>4 DEF D
<1>15. SumOf(w, 1..n) = SumOf(w, long)
  <2>1. \A d \in 1..n : w[d] \in Int
    BY SpansNat DEF w, n
  <2>2. ASSUME NEW d \in (1..n) \ long PROVE w[d] = 0
    <3>1. w[d] = (shape[d] - 1) * strides[d] /\ strides[d] \in Nat
      <4>1. \A x \in 1..n : strides[x] \in Nat
        BY DEF Layout, n
      <4> QED BY <4>1, SpansNat DEF w, n
    <3> QED BY <1>1, <3>1
  <2> QED BY <1>0, <1>1, <2>1, <2>2, SumRest
<1>16. ProductOf(shape, 1..n) = ProductOf(shape, long)
  BY <1>0, <1>1, ProductRest
<1>17. element_count(shape) = ProductOf(shape, 1..n)
  BY CountIs DEF Layout, n
<1> HIDE DEF v, e
<1> QED BY <1>11, <1>13, <1>14, <1>15, <1>16, <1>17 DEF Reach, w, n

-----------------------------------------------------------------------------
(***************************************************************************)
(* The sort of the axes of an elementwise result only ever exchanges two   *)
(* of them, so it ends with each axis once; and so the strides chosen for  *)
(* the result are compact.                                                 *)
(***************************************************************************)
LEMMA ExchangedPermutes ==
  ASSUME NEW n \in Nat, NEW order, Permutation(order, n), NEW i \in 1..n, NEW j \in 1..n
  PROVE  Permutation([order EXCEPT ![i] = order[j], ![j] = order[i]], n)
<1> DEFINE o == [order EXCEPT ![i] = order[j], ![j] = order[i]]
<1>1. order \in [1..n -> 1..n] /\ \A p, q \in 1..n : order[p] = order[q] => p = q
  BY DEF Permutation
<1>2. o \in [1..n -> 1..n]
  BY <1>1
<1>3. \A p \in 1..n : o[p] = IF p = j THEN order[i] ELSE IF p = i THEN order[j] ELSE order[p]
  BY <1>1
<1> HIDE DEF o
<1>4. \A p, q \in 1..n : o[p] = o[q] => p = q
  BY <1>1, <1>3
<1>5. Permutation(o, n)
  BY <1>2, <1>4, InjectionPermutes
<1> QED BY <1>5 DEF o

Sorting(n) ==
  [permutation : {order \in [1..n -> 1..n] : Permutation(order, n)}, at : 1..n, stopped : BOOLEAN]

LEMMA CompareKeeps ==
  ASSUME NEW n \in Nat, NEW s \in Sorting(n), NEW candidate \in 1..n, NEW shape, NEW operands
  PROVE  CompareAt(shape, operands, s, candidate) \in Sorting(n)
<1> DEFINE P == {order \in [1..n -> 1..n] : Permutation(order, n)}
           moved == [s.permutation EXCEPT ![candidate] = s.permutation[s.at],
                                          ![s.at] = s.permutation[candidate]]
<1>1. s.permutation \in P /\ s.at \in 1..n /\ s.stopped \in BOOLEAN
      /\ s = [permutation |-> s.permutation, at |-> s.at, stopped |-> s.stopped]
  BY DEF Sorting
<1>2. Permutation(s.permutation, n)
  BY <1>1
<1>3. Permutation(moved, n)
  <2> DEFINE order == s.permutation
             at == s.at
  <2>1. Permutation(order, n) /\ at \in 1..n
    BY <1>1, <1>2
  <2> HIDE DEF order, at
  <2>2. Permutation([order EXCEPT ![candidate] = order[at], ![at] = order[candidate]], n)
    BY <2>1, ExchangedPermutes
  <2> QED BY <2>2 DEF order, at
<1>4. moved \in P
  <2> HIDE DEF moved
  <2> QED BY <1>3 DEF Permutation
<1>5. [permutation |-> moved, at |-> candidate, stopped |-> FALSE] \in Sorting(n)
  <2> HIDE DEF moved
  <2> QED BY <1>4 DEF Sorting
<1>6. [s EXCEPT !.stopped = TRUE] \in Sorting(n)
  <2>1. s \in [permutation : P, at : 1..n, stopped : BOOLEAN]
    BY DEF Sorting
  <2> HIDE DEF P
  <2>2. [s EXCEPT !.stopped = TRUE] \in [permutation : P, at : 1..n, stopped : BOOLEAN]
    BY <2>1
  <2> QED BY <2>2 DEF Sorting, P
<1> HIDE DEF moved, P
<1> QED BY <1>5, <1>6 DEF CompareAt, moved

LEMMA InsertKeeps ==
  ASSUME NEW n \in Nat, NEW permutation, Permutation(permutation, n), NEW position \in 1..n,
         NEW shape, NEW operands
  PROVE  Permutation(InsertDimension(shape, operands, permutation, position), n)
<1> DEFINE A == Sorting(n)
           N == position - 1
           first == [permutation |-> permutation, at |-> position, stopped |-> FALSE]
           nx(k, s) == CompareAt(shape, operands, s, position - k)
           step == [k \in 1..N |-> [s \in A |-> nx(k, s)]]
           Right(f) == f = [k \in 0..(position - 1) |->
                              IF k = 0
                              THEN [permutation |-> permutation, at |-> position, stopped |-> FALSE]
                              ELSE CompareAt(shape, operands, f[k - 1], position - k)]
           after == CHOOSE f : Right(f)
<1>1. N \in Nat /\ first \in A
  <2>1. permutation \in {order \in [1..n -> 1..n] : Permutation(order, n)}
    BY DEF Permutation
  <2> QED BY <2>1 DEF Sorting
<1>2. ASSUME NEW k \in 1..N, NEW s \in A PROVE nx(k, s) \in A
  <2>1. position - k \in 1..n
    OBVIOUS
  <2> QED BY <2>1, CompareKeeps
<1>3. \E f : Right(f) /\ f \in [0..N -> A]
  <2>1. step \in Steps(N, A)
    <3> HIDE DEF nx, N, A
    <3> QED BY <1>2 DEF Steps
  <2>2. \A k \in 1..N : \A s \in A : step[k][s] = nx(k, s)
    OBVIOUS
  <2> HIDE DEF step, A, first
  <2>3. PICK f : Recursion(f, N, A, first, step)
    BY <1>1, <2>1, RecursionDefines
  <2>4. f \in [0..N -> A] /\ f[0] = first /\ \A k \in 1..N : f[k] = step[k][f[k - 1]]
    BY <2>3 DEF Recursion
  <2>5. ASSUME NEW k \in 1..N PROVE f[k] = nx(k, f[k - 1])
    <3>1. k - 1 \in 0..N
      BY <1>1
    <3>2. f[k - 1] \in A
      BY <2>4, <3>1
    <3> HIDE DEF nx, N
    <3> QED BY <2>2, <2>4, <3>2
  <2>6. ASSUME NEW k \in 0..N PROVE f[k] = IF k = 0 THEN first ELSE nx(k, f[k - 1])
    <3>1. k # 0 => k \in 1..N
      BY <1>1
    <3> HIDE DEF nx, N
    <3> QED BY <2>4, <2>5, <3>1
  <2>7. f = [k \in 0..N |-> IF k = 0 THEN first ELSE nx(k, f[k - 1])]
    <3>1. f = [k \in 0..N |-> f[k]]
      BY <2>4
    <3> HIDE DEF nx, N
    <3> QED BY <2>6, <3>1
  <2>8. Right(f)
    BY <2>7 DEF first
  <2> HIDE DEF Right
  <2> QED BY <2>4, <2>8
<1>4. Right(after)
  <2> HIDE DEF Right
  <2> QED BY <1>3
<1>5. after[0] = first /\ \A k \in 1..N : after[k] = nx(k, after[k - 1])
  <2>1. 0 \in 0..N /\ \A k \in 1..N : k \in 0..N /\ k # 0
    BY <1>1
  <2> HIDE DEF after
  <2>2. after = [k \in 0..N |-> IF k = 0 THEN first ELSE nx(k, after[k - 1])]
    BY <1>4
  <2> HIDE DEF nx, N, first, Right
  <2> QED BY <2>1, <2>2
<1>6. InsertDimension(shape, operands, permutation, position) = after[N].permutation
  BY DEF InsertDimension
<1> HIDE DEF Right, after, step
<1>7. \A k \in Nat : k <= N => after[k] \in A
  <2> DEFINE G == {k \in Nat : k <= N => after[k] \in A}
  <2>1. 0 \in G
    <3> HIDE DEF A, first
    <3> QED BY <1>1, <1>5
  <2>2. ASSUME NEW k \in Nat, k \in G PROVE k + 1 \in G
    <3> SUFFICES ASSUME k + 1 <= N PROVE after[k + 1] \in A
      OBVIOUS
    <3> HIDE DEF A, nx
    <3>1. k + 1 \in 1..N /\ after[k] \in A /\ (k + 1) - 1 = k
      BY <1>1, <2>2
    <3>2. after[k + 1] = nx(k + 1, after[k])
      BY <1>5, <3>1
    <3> QED BY <1>2, <3>1, <3>2
  <2>3. \A k \in Nat : k \in G
    <3> HIDE DEF G
    <3> QED BY <2>1, <2>2, NatSetInduction
  <2> QED BY <2>3
<1>8. after[N] \in A
  BY <1>1, <1>7
<1> HIDE DEF N
<1> QED BY <1>6, <1>8 DEF Sorting

LEMMA ElementwisePermutes ==
  ASSUME NEW shape \in Seq(Nat), NEW operands
  PROVE  Permutation(elementwise_permutation(shape, operands), Len(shape))
<1> DEFINE n == Len(shape)
           A == {order \in [1..n -> 1..n] : Permutation(order, n)}
           nx(k, p) == InsertDimension(shape, operands, p, k)
           step == [k \in 1..n |-> [p \in A |-> nx(k, p)]]
           Right(f) == f = [k \in 0..Len(shape) |->
                              IF k = 0 THEN RowMajor(Len(shape))
                              ELSE InsertDimension(shape, operands, f[k - 1], k)]
           after == CHOOSE f : Right(f)
<1>1. n \in Nat
  OBVIOUS
<1>2. RowMajor(n) \in A
  BY <1>1, RowMajorPermutes DEF Permutation
<1>3. ASSUME NEW k \in 1..n, NEW p \in A PROVE nx(k, p) \in A
  <2>1. Permutation(p, n)
    OBVIOUS
  <2>2. Permutation(nx(k, p), n)
    <3> HIDE DEF n
    <3> QED BY <1>1, <2>1, InsertKeeps
  <2> HIDE DEF nx
  <2> QED BY <2>2 DEF Permutation
<1>4. \E f : Right(f) /\ f \in [0..n -> A]
  <2>1. step \in Steps(n, A)
    <3> HIDE DEF nx, n, A
    <3> QED BY <1>3 DEF Steps
  <2>2. \A k \in 1..n : \A p \in A : step[k][p] = nx(k, p)
    OBVIOUS
  <2> HIDE DEF step, A
  <2>3. PICK f : Recursion(f, n, A, RowMajor(n), step)
    BY <1>1, <1>2, <2>1, RecursionDefines
  <2>4. f \in [0..n -> A] /\ f[0] = RowMajor(n) /\ \A k \in 1..n : f[k] = step[k][f[k - 1]]
    BY <2>3 DEF Recursion
  <2>5. ASSUME NEW k \in 1..n PROVE f[k] = nx(k, f[k - 1])
    <3>1. k - 1 \in 0..n
      BY <1>1
    <3>2. f[k - 1] \in A
      BY <2>4, <3>1
    <3> HIDE DEF nx, n
    <3> QED BY <2>2, <2>4, <3>2
  <2>6. ASSUME NEW k \in 0..n PROVE f[k] = IF k = 0 THEN RowMajor(n) ELSE nx(k, f[k - 1])
    <3>1. k # 0 => k \in 1..n
      BY <1>1
    <3> HIDE DEF nx, n
    <3> QED BY <2>4, <2>5, <3>1
  <2>7. f = [k \in 0..n |-> IF k = 0 THEN RowMajor(n) ELSE nx(k, f[k - 1])]
    <3>1. f = [k \in 0..n |-> f[k]]
      BY <2>4
    <3> HIDE DEF nx, n
    <3> QED BY <2>6, <3>1
  <2>8. Right(f)
    BY <2>7
  <2> HIDE DEF Right
  <2> QED BY <2>4, <2>8
<1>5. Right(after)
  <2> HIDE DEF Right
  <2> QED BY <1>4
<1>6. after[0] = RowMajor(n) /\ \A k \in 1..n : after[k] = nx(k, after[k - 1])
  <2>1. 0 \in 0..n /\ \A k \in 1..n : k \in 0..n /\ k # 0
    BY <1>1
  <2> HIDE DEF after
  <2>2. after = [k \in 0..n |-> IF k = 0 THEN RowMajor(n) ELSE nx(k, after[k - 1])]
    BY <1>5
  <2> HIDE DEF nx, n, Right
  <2> QED BY <2>1, <2>2
<1>7. elementwise_permutation(shape, operands) = after[n]
  BY DEF elementwise_permutation
<1> HIDE DEF Right, after, step
<1>8. \A k \in Nat : k <= n => after[k] \in A
  <2> DEFINE G == {k \in Nat : k <= n => after[k] \in A}
  <2>1. 0 \in G
    <3> HIDE DEF A
    <3> QED BY <1>2, <1>6
  <2>2. ASSUME NEW k \in Nat, k \in G PROVE k + 1 \in G
    <3> SUFFICES ASSUME k + 1 <= n PROVE after[k + 1] \in A
      OBVIOUS
    <3> HIDE DEF A, nx
    <3>1. k + 1 \in 1..n /\ after[k] \in A /\ (k + 1) - 1 = k
      BY <1>1, <2>2
    <3>2. after[k + 1] = nx(k + 1, after[k])
      BY <1>6, <3>1
    <3> QED BY <1>3, <3>1, <3>2
  <2>3. \A k \in Nat : k \in G
    <3> HIDE DEF G
    <3> QED BY <2>1, <2>2, NatSetInduction
  <2> QED BY <2>3
<1>9. after[n] \in A
  <2> HIDE DEF A
  <2> QED BY <1>1, <1>8
<1> QED BY <1>7, <1>9

\* Strides that new storage may be laid out with.
LaysOut(shape, strides) == Layout(shape, strides) /\ Compact(shape, strides)

LEMMA ElementwiseFresh ==
  ASSUME NEW shape \in Seq(Nat), NEW operands
  PROVE  LaysOut(shape, elementwise_output_strides(shape, operands))
<1> DEFINE order == elementwise_permutation(shape, operands)
<1>1. Permutation(order, Len(shape))
  BY ElementwisePermutes
<1> HIDE DEF order
<1>2. LaysOut(shape, contiguous_strides(shape)) /\ LaysOut(shape, strides_in_physical_order(shape, order))
  BY <1>1, ContiguousCompact, PhysicalCompact DEF LaysOut
<1> QED BY <1>2 DEF elementwise_output_strides, strides_permuted, order

-----------------------------------------------------------------------------
(***************************************************************************)
(* A view of another shape reaches as far as the tensor it views.  While   *)
(* the axes of the tensor are consumed, the axes of the view that have     *)
(* their strides and the chunk being collected reach together as far as    *)
(* the axes consumed so far.                                               *)
(***************************************************************************)
LEMMA GreatestIs ==
  ASSUME NEW n \in Nat, NEW S \in SUBSET (0..n), S # {}
  PROVE  Max(S) \in S /\ \A y \in S : Max(S) >= y
<1>1. \E x \in S : \A y \in S : x >= y
  <2> DEFINE G == {k \in Nat : k <= n => \A T \in SUBSET (0..k) : T # {} => \E x \in T : \A y \in T : x >= y}
  <2>1. 0 \in G
    <3>1. ASSUME NEW T \in SUBSET (0..0), T # {} PROVE \E x \in T : \A y \in T : x >= y
      <4>1. 0..0 = {0}
        OBVIOUS
      <4>2. T = {0}
        BY <3>1, <4>1
      <4> QED BY <4>2
    <3> QED BY <3>1
  <2>2. ASSUME NEW k \in Nat, k \in G PROVE k + 1 \in G
    <3> SUFFICES ASSUME k + 1 <= n, NEW T \in SUBSET (0..(k + 1)), T # {}
                 PROVE  \E x \in T : \A y \in T : x >= y
      OBVIOUS
    <3>1. CASE k + 1 \in T
      <4>1. \A y \in T : k + 1 >= y
        OBVIOUS
      <4> QED BY <3>1, <4>1
    <3>2. CASE k + 1 \notin T
      <4>1. T \in SUBSET (0..k)
        BY <3>2
      <4> QED BY <2>2, <4>1
    <3> QED BY <3>1, <3>2
  <2>3. n \in G
    <3> HIDE DEF G
    <3> QED BY <2>1, <2>2, NatSetInduction
  <2> QED BY <2>3
<1> QED BY <1>1 DEF Max

Covered(resolved, d, end) == Product(SubSeq(resolved, d + 1, end))

LEMMA CoveredIs ==
  ASSUME NEW resolved \in Seq(Nat), NEW end \in 0..Len(resolved), NEW d \in 0..end
  PROVE  /\ Covered(resolved, d, end) = ProductOf(resolved, (d + 1)..end)
         /\ Covered(resolved, d, end) \in Nat
<1> DEFINE s == SubSeq(resolved, d + 1, end)
<1>1. DOMAIN s = 1..(end - d) /\ \A k \in 1..(end - d) : s[k] = resolved[d + k]
  OBVIOUS
<1>2. d \in Nat /\ end \in Nat /\ \A k \in (d + 1)..end : resolved[k] \in Nat
  OBVIOUS
<1> HIDE DEF s
<1>3. Product(s) = ProductOf(resolved, (d + 1)..end)
  BY <1>1, <1>2, ShiftedProduct
<1>4. ProductOf(resolved, (d + 1)..end) \in Nat
  <2>1. IsFiniteSet((d + 1)..end)
    <3>1. d + 1 \in Int /\ end \in Int
      BY <1>2
    <3> QED BY <3>1, FS_Interval
  <2> QED BY <1>2, <2>1, ProductType
<1> QED BY <1>3, <1>4 DEF Covered, s

\* The states of the consumption, after the axes beyond the a-th.
Consuming(rank) ==
  [view : 0..rank, base : Nat, elements : Nat \ {0}, failed : BOOLEAN, out : [1..rank -> Nat]]

Collected(shape, strides, resolved, s, a) ==
  ~s.failed =>
    /\ SumOf(Spans(resolved, s.out), (s.view + 1)..Len(resolved)) + (s.elements - 1) * s.base
         = SumOf(Spans(shape, strides), (a + 1)..Len(shape))
    /\ a >= 1 => shape[a] = 1 \/ strides[a] = s.elements * s.base
    /\ a = 0 => s.elements = 1

LEMMA ConsumedAxis ==
  ASSUME NEW shape, NEW strides, Layout(shape, strides), NonEmpty(shape),
         NEW resolved \in Seq(Nat), NonEmpty(resolved), NEW axis \in 1..Len(shape),
         NEW s \in Consuming(Len(resolved))
  PROVE  LET t == ConsumeAxis(shape, strides, resolved, s, axis)
         IN  /\ t \in Consuming(Len(resolved))
             /\ Collected(shape, strides, resolved, s, axis)
                  => Collected(shape, strides, resolved, t, axis - 1)
<1> DEFINE R == Len(resolved)
           n == Len(shape)
           t == ConsumeAxis(shape, strides, resolved, s, axis)
           elems == s.elements * shape[axis]
           covered(d) == Product(SubSeq(resolved, d + 1, s.view))
           fits == {d \in 0..s.view : d = 0 \/ (covered(d) >= elems /\ resolved[d] # 1)}
           left == Max(fits)
           out == [d \in DOMAIN resolved |-> IF d \in (left + 1)..s.view THEN s.base * covered(d) ELSE s.out[d]]
           x == shape[axis]
           e == s.elements
           b == s.base
           w == Spans(shape, strides)
<1>0. /\ R \in Nat /\ n \in Nat /\ DOMAIN resolved = 1..R
      /\ s.view \in 0..R /\ b \in Nat /\ e \in Nat \ {0} /\ s.failed \in BOOLEAN
      /\ s.out \in [1..R -> Nat]
      /\ \A d \in 1..R : resolved[d] \in Nat \ {0}
      /\ \A d \in 1..n : shape[d] \in Nat \ {0} /\ strides[d] \in Nat
  <2>1. n \in Nat /\ \A d \in 1..n : shape[d] \in Nat /\ strides[d] \in Nat
    <3>1. shape \in Seq(Nat) /\ strides \in Seq(Nat) /\ Len(strides) = Len(shape)
      BY DEF Layout
    <3>2. \A d \in 1..n : shape[d] \in Nat
      BY <3>1
    <3>3. \A d \in 1..Len(strides) : strides[d] \in Nat
      BY <3>1
    <3> QED BY <3>1, <3>2, <3>3
  <2>2. \A d \in 1..n : shape[d] # 0
    BY DEF NonEmpty
  <2>3. \A d \in 1..R : resolved[d] # 0
    BY DEF NonEmpty
  <2>4. s \in [view : 0..R, base : Nat, elements : Nat \ {0}, failed : BOOLEAN, out : [1..R -> Nat]]
    BY DEF Consuming
  <2>5. s.view \in 0..R /\ b \in Nat /\ e \in Nat \ {0} /\ s.failed \in BOOLEAN /\ s.out \in [1..R -> Nat]
    BY <2>4
  <2>6. R \in Nat /\ DOMAIN resolved = 1..R /\ \A d \in 1..R : resolved[d] \in Nat
    OBVIOUS
  <2> QED BY <2>1, <2>2, <2>3, <2>5, <2>6
<1>1. x \in Nat \ {0} /\ elems = e * x /\ elems \in Nat \ {0}
  <2>1. x \in Nat \ {0}
    BY <1>0
  <2>2. elems = e * x
    OBVIOUS
  <2> HIDE DEF x, e, elems
  <2> QED BY <1>0, <2>1, <2>2
<1>2. SumOf(w, axis..n) = (x - 1) * strides[axis] + SumOf(w, (axis + 1)..n)
  <2>1. axis..n = ((axis + 1)..n) \cup {axis} /\ axis \notin (axis + 1)..n
    BY <1>0
  <2>2. IsFiniteSet((axis + 1)..n)
    BY <1>0, FS_Interval
  <2>3. \A d \in ((axis + 1)..n) \cup {axis} : d \in 1..n
    BY <1>0
  <2>4. \A d \in ((axis + 1)..n) \cup {axis} : w[d] \in Int
    BY <2>3, SpansNat
  <2>5. w[axis] = (x - 1) * strides[axis]
    BY SpansNat
  <2> HIDE DEF w, x
  <2>6. SumOf(w, ((axis + 1)..n) \cup {axis}) = w[axis] + SumOf(w, (axis + 1)..n)
    BY <2>1, <2>2, <2>4, SumAdd
  <2> QED BY <2>1, <2>5, <2>6
\* The chunk collected so far, with the axis in it.
<1>3. ASSUME ~s.failed, Collected(shape, strides, resolved, s, axis)
      PROVE  SumOf(Spans(resolved, s.out), (s.view + 1)..R) + (elems - 1) * b = SumOf(w, axis..n)
  <2> DEFINE y == strides[axis]
             T == SumOf(Spans(resolved, s.out), (s.view + 1)..R)
             U == SumOf(w, (axis + 1)..n)
  <2>1. T + (e - 1) * b = U /\ (x = 1 \/ y = e * b)
    <3>1. axis >= 1
      OBVIOUS
    <3> HIDE DEF w
    <3>2. T + (s.elements - 1) * s.base = SumOf(Spans(shape, strides), (axis + 1)..n)
      BY <1>3 DEF Collected
    <3>3. shape[axis] = 1 \/ strides[axis] = s.elements * s.base
      BY <1>3, <3>1 DEF Collected
    <3> QED BY <3>2, <3>3 DEF w
  <2>2. y \in Nat /\ x \in Nat \ {0} /\ e \in Nat \ {0} /\ b \in Nat
    BY <1>0
  <2>3. U \in Int
    <3>1. IsFiniteSet((axis + 1)..n) /\ \A d \in (axis + 1)..n : d \in 1..n
      BY <1>0, FS_Interval
    <3>2. \A d \in (axis + 1)..n : w[d] \in Int
      BY <3>1, SpansNat
    <3> HIDE DEF w
    <3> QED BY <3>1, <3>2, SumInt
  <2>4. T \in Int
    <3>1. IsFiniteSet((s.view + 1)..R) /\ \A d \in (s.view + 1)..R : d \in 1..R
      <4>1. s.view + 1 \in Int /\ R \in Int /\ \A d \in (s.view + 1)..R : d \in 1..R
        BY <1>0
      <4> QED BY <4>1, FS_Interval
    <3>2. \A d \in 1..R : s.out[d] \in Nat /\ resolved[d] \in Nat
      BY <1>0
    <3>3. \A d \in (s.view + 1)..R : Spans(resolved, s.out)[d] \in Int
      <4> SUFFICES ASSUME NEW d \in (s.view + 1)..R PROVE Spans(resolved, s.out)[d] \in Int
        OBVIOUS
      <4>1. d \in DOMAIN s.out /\ s.out[d] \in Nat /\ resolved[d] \in Nat
        BY <1>0, <3>1, <3>2
      <4>2. Spans(resolved, s.out)[d] = (resolved[d] - 1) * s.out[d]
        BY <4>1 DEF Spans
      <4> QED BY <4>1, <4>2
    <3> QED BY <3>1, <3>3, SumInt
  <2> SUFFICES T + (e * x - 1) * b = (x - 1) * y + U
    BY <1>1, <1>2
  <2> HIDE DEF x, e, b, y, T, U
  <2>5. e * b \in Nat /\ e * x \in Nat
    BY <2>2
  <2>6. CASE x = 1
    BY <2>1, <2>2, <2>6, <2>3, <2>4
  <2>7. CASE y = e * b
    <3>1. (x - 1) * y = x * y - y
      BY <2>2
    <3>2. (e * x - 1) * b = (e * x) * b - b
      BY <2>2, <2>5
    <3>3. (e * x) * b = x * (e * b)
      BY <2>2
    <3>4. (e - 1) * b = e * b - b
      BY <2>2
    <3>5. x * y \in Nat /\ (e * x) * b \in Nat
      BY <2>2, <2>5
    <3> QED BY <2>1, <2>2, <2>3, <2>4, <2>5, <2>7, <3>1, <3>2, <3>3, <3>4, <3>5
  <2> QED BY <2>1, <2>6, <2>7
<1>4. \A d \in 0..s.view : covered(d) = ProductOf(resolved, (d + 1)..s.view) /\ covered(d) \in Nat
  <2> DEFINE v == s.view
  <2>1. v \in 0..R
    BY <1>0
  <2> HIDE DEF v
  <2>2. \A d \in 0..v : Covered(resolved, d, v) = ProductOf(resolved, (d + 1)..v) /\ Covered(resolved, d, v) \in Nat
    BY <2>1, CoveredIs
  <2> QED BY <2>2 DEF Covered, v
<1>5. left \in 0..s.view
  <2>1. fits \in SUBSET (0..s.view) /\ 0 \in fits /\ s.view \in Nat
    BY <1>0
  <2> HIDE DEF fits
  <2>2. Max(fits) \in fits
    BY <2>1, GreatestIs
  <2> QED BY <2>1, <2>2
<1>6. out \in [1..R -> Nat]
  <2> SUFFICES ASSUME NEW d \in 1..R
               PROVE  (IF d \in (left + 1)..s.view THEN s.base * covered(d) ELSE s.out[d]) \in Nat
    BY <1>0
  <2> HIDE DEF left, covered
  <2>1. d \in (left + 1)..s.view => covered(d) \in Nat /\ s.base * covered(d) \in Nat
    <3> SUFFICES ASSUME d \in (left + 1)..s.view PROVE covered(d) \in Nat /\ s.base * covered(d) \in Nat
      OBVIOUS
    <3>1. d \in 0..s.view
      BY <1>0, <1>5
    <3>2. covered(d) \in Nat
      BY <1>4, <3>1
    <3> QED BY <1>0, <3>2
  <2> QED BY <1>0, <2>1
\* Nothing ends here.
<1>7. CASE s.failed \/ ~EndsChunk(shape, strides, axis, elems * s.base)
  <2>1. t = [s EXCEPT !.elements = elems]
    BY <1>7 DEF ConsumeAxis
  <2>2. t \in Consuming(R)
    <3>1. s \in Consuming(R)
      OBVIOUS
    <3> HIDE DEF elems, R, t
    <3> QED BY <1>1, <2>1, <3>1 DEF Consuming
  <2>3. t.failed = s.failed /\ t.view = s.view /\ t.base = b /\ t.out = s.out /\ t.elements = elems
    <3>1. s \in [view : 0..R, base : Nat, elements : Nat \ {0}, failed : BOOLEAN, out : [1..R -> Nat]]
      BY DEF Consuming
    <3> HIDE DEF elems, R, t
    <3> QED BY <2>1, <3>1
  <2>4. ASSUME ~t.failed PROVE axis # 1 /\ (shape[axis - 1] = 1 \/ strides[axis - 1] = elems * b)
    <3>1. ~EndsChunk(shape, strides, axis, elems * s.base)
      BY <1>7, <2>3, <2>4
    <3> HIDE DEF elems
    <3> QED BY <3>1 DEF EndsChunk
  <2>5. ASSUME Collected(shape, strides, resolved, s, axis)
        PROVE  Collected(shape, strides, resolved, t, axis - 1)
    <3> SUFFICES ASSUME ~t.failed
                 PROVE  /\ SumOf(Spans(resolved, t.out), (t.view + 1)..R) + (t.elements - 1) * t.base
                             = SumOf(w, ((axis - 1) + 1)..n)
                        /\ axis - 1 >= 1 => shape[axis - 1] = 1 \/ strides[axis - 1] = t.elements * t.base
                        /\ axis - 1 = 0 => t.elements = 1
      BY DEF Collected
    <3>1. (axis - 1) + 1 = axis
      OBVIOUS
    <3>2. SumOf(Spans(resolved, s.out), (s.view + 1)..R) + (elems - 1) * b = SumOf(w, axis..n)
      BY <1>3, <2>3, <2>5
    <3>3. axis # 1 /\ (shape[axis - 1] = 1 \/ strides[axis - 1] = elems * b)
      BY <2>4
    <3>4. axis - 1 # 0
      BY <3>3
    <3> HIDE DEF elems, w, t, b, R, n
    <3> QED BY <2>3, <3>1, <3>2, <3>3, <3>4
  <2> QED BY <2>2, <2>5
\* A chunk ends: the axes of the view that cover it get their strides.
<1>8. CASE ~(s.failed \/ ~EndsChunk(shape, strides, axis, elems * s.base))
  <2> DEFINE base1 == IF axis > 1 THEN strides[axis - 1] ELSE s.base
             failed1 == covered(left) # elems
  <2>1. t = [view |-> left, base |-> base1, elements |-> 1, failed |-> failed1, out |-> out]
    BY <1>8 DEF ConsumeAxis
  <2>2. base1 \in Nat
    <3>1. axis > 1 => axis - 1 \in 1..n
      BY <1>0
    <3> QED BY <1>0, <3>1
  <2>3. left \in 0..R
    <3> HIDE DEF left
    <3> QED BY <1>0, <1>5
  <2> HIDE DEF base1, failed1, out, left
  <2>4. failed1 \in BOOLEAN
    BY DEF failed1
  <2>5. t \in Consuming(R)
    <3> HIDE DEF R, t
    <3>1. PICK q \in BOOLEAN : q = failed1
      BY <2>4
    <3>2. t = [view |-> left, base |-> base1, elements |-> 1, failed |-> q, out |-> out]
      BY <2>1, <3>1, Zenon
    <3>3. /\ left \in 0..R /\ base1 \in Nat /\ 1 \in Nat \ {0} /\ q \in BOOLEAN /\ out \in [1..R -> Nat]
      BY <1>6, <2>2, <2>3, <3>1
    <3>4. [view |-> left, base |-> base1, elements |-> 1, failed |-> q, out |-> out]
            \in [view : 0..R, base : Nat, elements : Nat \ {0}, failed : BOOLEAN, out : [1..R -> Nat]]
      BY <3>3, Zenon
    <3>5. t \in [view : 0..R, base : Nat, elements : Nat \ {0}, failed : BOOLEAN, out : [1..R -> Nat]]
      BY <3>2, <3>4, Zenon
    <3> QED BY <3>5, Zenon DEF Consuming
  <2>6. ASSUME Collected(shape, strides, resolved, s, axis)
        PROVE  Collected(shape, strides, resolved, t, axis - 1)
    <3>0. t.view = left /\ t.base = base1 /\ t.elements = 1 /\ t.failed = failed1 /\ t.out = out
      <4> HIDE DEF t
      <4> QED BY <2>1
    <3> SUFFICES ASSUME ~failed1
                 PROVE  /\ SumOf(Spans(resolved, out), (left + 1)..R) + (1 - 1) * base1
                             = SumOf(w, ((axis - 1) + 1)..n)
                        /\ axis - 1 >= 1 => shape[axis - 1] = 1 \/ strides[axis - 1] = 1 * base1
      BY <3>0 DEF Collected
    <3> DEFINE z == Spans(resolved, out)
               near == (left + 1)..s.view
               far == (s.view + 1)..R
    <3>1. \A d \in 1..R : z[d] = (resolved[d] - 1) * out[d] /\ z[d] \in Int
      <4> SUFFICES ASSUME NEW d \in 1..R PROVE z[d] = (resolved[d] - 1) * out[d] /\ z[d] \in Int
        OBVIOUS
      <4>1. d \in DOMAIN out /\ out[d] \in Nat /\ resolved[d] \in Nat
        BY <1>0, <1>6
      <4>2. z[d] = (resolved[d] - 1) * out[d]
        BY <4>1 DEF Spans
      <4> QED BY <4>1, <4>2
    <3>2. /\ near \subseteq 1..R /\ far \subseteq 1..R /\ near \cap far = {} /\ (left + 1)..R = far \cup near
          /\ IsFiniteSet(near) /\ IsFiniteSet(far)
      <4>1. left \in Nat /\ s.view \in Nat /\ left <= s.view /\ s.view <= R /\ R \in Nat
        BY <1>0, <1>5
      <4>2. IsFiniteSet(near) /\ IsFiniteSet(far)
        <5>1. left + 1 \in Int /\ s.view \in Int /\ s.view + 1 \in Int /\ R \in Int
          BY <4>1
        <5> HIDE DEF R
        <5>2. IsFiniteSet((left + 1)..s.view)
          BY <5>1, FS_Interval
        <5>3. IsFiniteSet((s.view + 1)..R)
          BY <5>1, FS_Interval
        <5> QED BY <5>2, <5>3
      <4> QED BY <4>1, <4>2
    <3>3. SumOf(z, (left + 1)..R) = SumOf(z, far) + SumOf(z, near)
      <4> HIDE DEF z, near, far
      <4>1. far \cap near = {} /\ \A d \in far \cup near : z[d] \in Int
        BY <3>1, <3>2
      <4> QED BY <3>2, <4>1, SumApart
    <3>4. SumOf(z, far) = SumOf(Spans(resolved, s.out), far)
      <4>1. ASSUME NEW d \in far PROVE z[d] = Spans(resolved, s.out)[d]
        <5>1. d \in 1..R /\ ~(d \in (left + 1)..s.view)
          BY <1>0, <3>2
        <5>2. out[d] = s.out[d]
          BY <1>0, <5>1 DEF out
        <5>3. d \in DOMAIN s.out /\ d \in DOMAIN out
          BY <1>0, <1>6, <5>1
        <5>4. z[d] = (resolved[d] - 1) * out[d] /\ Spans(resolved, s.out)[d] = (resolved[d] - 1) * s.out[d]
          BY <5>3 DEF Spans
        <5> QED BY <5>2, <5>4
      <4>2. \A d \in far : z[d] \in Int
        BY <3>1, <3>2
      <4>3. \A d \in far : Spans(resolved, s.out)[d] = z[d] /\ Spans(resolved, s.out)[d] \in Int
        BY <4>1, <4>2
      <4> HIDE DEF z, far
      <4> QED BY <3>2, <4>1, <4>2, <4>3, SumSame
    <3>5. SumOf(z, near) = b * (ProductOf(resolved, near) - 1)
      <4> DEFINE c == left + 1
                 v == s.view
      <4>1. c \in Nat \ {0} /\ v \in Nat /\ c <= v + 1
        BY <1>0, <1>5
      <4>2. \A d \in c..v : resolved[d] \in Nat \ {0}
        BY <1>0, <3>2
      <4>3. \A d \in c..v : z[d] = (resolved[d] - 1) * (b * ProductOf(resolved, (d + 1)..v))
        <5> SUFFICES ASSUME NEW d \in c..v
                     PROVE  z[d] = (resolved[d] - 1) * (b * ProductOf(resolved, (d + 1)..v))
          OBVIOUS
        <5>1. d \in 1..R /\ d \in 0..s.view /\ d \in (left + 1)..s.view
          BY <1>0, <1>5
        <5>2. out[d] = s.base * covered(d)
          BY <1>0, <5>1 DEF out
        <5>3. covered(d) = ProductOf(resolved, (d + 1)..s.view)
          BY <1>4, <5>1
        <5> HIDE DEF z, covered
        <5> QED BY <3>1, <5>1, <5>2, <5>3
      <4> HIDE DEF c, v, z, b
      <4>4. b \in Nat
        BY <1>0
      <4>5. SumOf(z, c..v) = b * (ProductOf(resolved, c..v) - 1)
        BY <4>1, <4>2, <4>3, <4>4, RadixDown
      <4> QED BY <4>5 DEF c, v
    <3>6. ProductOf(resolved, near) = elems
      <4>1. covered(left) = elems
        BY DEF failed1
      <4> HIDE DEF covered, elems
      <4> QED BY <1>4, <1>5, <4>1
    <3>7. SumOf(Spans(resolved, s.out), far) + (elems - 1) * b = SumOf(w, axis..n)
      BY <1>3, <1>8, <2>6
    <3>8. SumOf(z, (left + 1)..R) + (1 - 1) * base1 = SumOf(w, ((axis - 1) + 1)..n)
      <4>1. (axis - 1) + 1 = axis /\ (1 - 1) * base1 = 0
        BY <2>2
      <4>2. b * (elems - 1) = (elems - 1) * b /\ b * (elems - 1) \in Int
        <5> HIDE DEF b, elems
        <5> QED BY <1>0, <1>1
      <4>3. SumOf(z, far) \in Int
        <5> HIDE DEF z, far
        <5>1. \A d \in far : z[d] \in Int
          BY <3>1, <3>2
        <5> QED BY <3>2, <5>1, SumInt
      <4> HIDE DEF z, far, near, elems, b, w, n, R
      <4> QED BY <3>3, <3>4, <3>5, <3>6, <3>7, <4>1, <4>2, <4>3
    <3>9. axis - 1 >= 1 => strides[axis - 1] = 1 * base1
      BY <1>0, <2>2 DEF base1
    <3> QED BY <3>8, <3>9
  <2> QED BY <2>5, <2>6
<1> QED BY <1>7, <1>8

\* The state before the first axis, and the states after each.
StartConsuming(strides, resolved) ==
  [view |-> Len(resolved), base |-> Last(strides), elements |-> 1,
   failed |-> FALSE, out |-> [d \in DOMAIN resolved |-> 0]]

LEMMA Consumption ==
  ASSUME NEW shape, NEW strides, Layout(shape, strides), NonEmpty(shape), Len(shape) > 0,
         NEW resolved \in Seq(Nat), NonEmpty(resolved)
  PROVE  \E after : /\ after \in [0..Len(shape) -> Consuming(Len(resolved))]
                    /\ after[0] = StartConsuming(strides, resolved)
                    /\ \A k \in 1..Len(shape) :
                          after[k] = ConsumeAxis(shape, strides, resolved, after[k - 1], Len(shape) + 1 - k)
                    /\ compute_reshape_view_strides(shape, strides, resolved)
                         = IF after[Len(shape)].failed \/ after[Len(shape)].view # 0 THEN NoView
                           ELSE after[Len(shape)].out
<1> DEFINE n == Len(shape)
           R == Len(resolved)
           A == Consuming(R)
           first == StartConsuming(strides, resolved)
           nx(k, s) == ConsumeAxis(shape, strides, resolved, s, n + 1 - k)
           step == [k \in 1..n |-> [s \in A |-> nx(k, s)]]
           Right(f) == f = [k \in 0..Len(shape) |->
                              IF k = 0 THEN [view |-> Len(resolved), base |-> Last(strides), elements |-> 1,
                                             failed |-> FALSE, out |-> [d \in DOMAIN resolved |-> 0]]
                              ELSE ConsumeAxis(shape, strides, resolved, f[k - 1], Len(shape) + 1 - k)]
           after == CHOOSE f : Right(f)
<1>0. n \in Nat /\ n > 0 /\ R \in Nat /\ DOMAIN resolved = 1..R /\ strides[n] \in Nat
      /\ Last(strides) = strides[n]
  <2>1. shape \in Seq(Nat) /\ strides \in Seq(Nat) /\ Len(strides) = Len(shape)
    BY DEF Layout
  <2>2. Last(strides) = strides[n]
    BY <2>1 DEF Last
  <2>3. \A d \in 1..Len(strides) : strides[d] \in Nat
    BY <2>1
  <2>4. n \in 1..Len(strides)
    BY <2>1
  <2> QED BY <2>1, <2>2, <2>3, <2>4
<1>1. first \in A
  <2> DEFINE out0 == [d \in DOMAIN resolved |-> 0]
             base0 == Last(strides)
  <2>1. out0 \in [1..R -> Nat] /\ base0 \in Nat /\ R \in 0..R /\ 1 \in Nat \ {0} /\ FALSE \in BOOLEAN
    BY <1>0
  <2> HIDE DEF out0, base0, R
  <2>2. [view |-> R, base |-> base0, elements |-> 1, failed |-> FALSE, out |-> out0]
          \in [view : 0..R, base : Nat, elements : Nat \ {0}, failed : BOOLEAN, out : [1..R -> Nat]]
    BY <2>1, Zenon
  <2>3. [view |-> R, base |-> base0, elements |-> 1, failed |-> FALSE, out |-> out0] \in Consuming(R)
    BY <2>2, Zenon DEF Consuming
  <2> QED BY <2>3 DEF out0, base0, R, StartConsuming
<1>3. ASSUME NEW k \in 1..n, NEW s \in A PROVE nx(k, s) \in A
  <2> DEFINE axis == n + 1 - k
  <2>1. axis \in 1..n
    BY <1>0
  <2> HIDE DEF axis
  <2>2. ConsumeAxis(shape, strides, resolved, s, axis) \in Consuming(Len(resolved))
    BY <2>1, ConsumedAxis
  <2> QED BY <2>2 DEF axis
<1>4. \E f : Right(f) /\ f \in [0..n -> A]
  <2>1. step \in Steps(n, A)
    <3> HIDE DEF nx, n, A
    <3> QED BY <1>3 DEF Steps
  <2>2. \A k \in 1..n : \A s \in A : step[k][s] = nx(k, s)
    OBVIOUS
  <2> HIDE DEF step, A, first
  <2>3. PICK f : Recursion(f, n, A, first, step)
    BY <1>0, <1>1, <2>1, RecursionDefines
  <2>4. f \in [0..n -> A] /\ f[0] = first /\ \A k \in 1..n : f[k] = step[k][f[k - 1]]
    BY <2>3 DEF Recursion
  <2>5. ASSUME NEW k \in 1..n PROVE f[k] = nx(k, f[k - 1])
    <3>1. k - 1 \in 0..n
      BY <1>0
    <3>2. f[k - 1] \in A
      BY <2>4, <3>1
    <3> HIDE DEF nx, n
    <3> QED BY <2>2, <2>4, <3>2
  <2>6. ASSUME NEW k \in 0..n PROVE f[k] = IF k = 0 THEN first ELSE nx(k, f[k - 1])
    <3>1. k # 0 => k \in 1..n
      BY <1>0
    <3> HIDE DEF nx, n
    <3> QED BY <2>4, <2>5, <3>1
  <2>7. f = [k \in 0..n |-> IF k = 0 THEN first ELSE nx(k, f[k - 1])]
    <3>1. f = [k \in 0..n |-> f[k]]
      BY <2>4
    <3> HIDE DEF nx, n
    <3> QED BY <2>6, <3>1
  <2>8. Right(f)
    BY <2>7 DEF first, StartConsuming
  <2> HIDE DEF Right
  <2> QED BY <2>4, <2>8
<1>5. Right(after)
  <2> HIDE DEF Right
  <2> QED BY <1>4
<1>6. after[0] = first /\ \A k \in 1..n : after[k] = nx(k, after[k - 1])
  <2>1. 0 \in 0..n /\ \A k \in 1..n : k \in 0..n /\ k # 0
    BY <1>0
  <2> HIDE DEF after
  <2>2. after = [k \in 0..n |-> IF k = 0 THEN first ELSE nx(k, after[k - 1])]
    BY <1>5 DEF StartConsuming
  <2> HIDE DEF nx, n, first, Right
  <2> QED BY <2>1, <2>2
<1>7. compute_reshape_view_strides(shape, strides, resolved)
        = IF after[n].failed \/ after[n].view # 0 THEN NoView ELSE after[n].out
  <2>1. Len(shape) # 0
    OBVIOUS
  <2> QED BY <2>1 DEF compute_reshape_view_strides
<1> HIDE DEF Right, after, step
<1>8. \A k \in 0..n : after[k] \in A
  <2> DEFINE G == {k \in Nat : k <= n => after[k] \in A}
  <2>1. 0 \in G
    <3> HIDE DEF A, first
    <3> QED BY <1>1, <1>6
  <2>2. ASSUME NEW k \in Nat, k \in G PROVE k + 1 \in G
    <3> HIDE DEF A, nx
    <3> SUFFICES ASSUME k + 1 <= n PROVE after[k + 1] \in A
      OBVIOUS
    <3>1. k + 1 \in 1..n /\ after[k] \in A /\ (k + 1) - 1 = k
      BY <1>0, <2>2
    <3>2. after[k + 1] = nx(k + 1, after[k])
      BY <1>6, <3>1
    <3> QED BY <1>3, <3>1, <3>2
  <2>3. ASSUME NEW k \in 0..n PROVE k \in G
    <3> HIDE DEF G
    <3>1. k \in Nat
      OBVIOUS
    <3> QED BY <2>1, <2>2, <3>1, NatSetInduction
  <2> QED BY <2>3
<1> DEFINE steps == [k \in 0..n |-> after[k]]
<1>9. /\ steps \in [0..n -> A] /\ steps[0] = first /\ steps[n] = after[n]
      /\ \A k \in 1..n : steps[k] = nx(k, steps[k - 1])
  <2>1. 0 \in 0..n /\ n \in 0..n /\ \A k \in 1..n : k \in 0..n /\ k - 1 \in 0..n
    BY <1>0
  <2> HIDE DEF nx, n, A, first
  <2> QED BY <1>6, <1>8, <2>1
<1> HIDE DEF steps
<1> QED BY <1>7, <1>9

LEMMA ConsumedAxes ==
  ASSUME NEW shape, NEW strides, Layout(shape, strides), NonEmpty(shape), Len(shape) > 0,
         NEW resolved \in Seq(Nat), NonEmpty(resolved)
  PROVE  \E end : /\ end \in Consuming(Len(resolved)) /\ Collected(shape, strides, resolved, end, 0)
                  /\ compute_reshape_view_strides(shape, strides, resolved)
                       = IF end.failed \/ end.view # 0 THEN NoView ELSE end.out
<1> DEFINE n == Len(shape)
           R == Len(resolved)
           A == Consuming(R)
           first == StartConsuming(strides, resolved)
           nx(k, s) == ConsumeAxis(shape, strides, resolved, s, n + 1 - k)
           Holds(s, k) == Collected(shape, strides, resolved, s, n - k)
<1>a. PICK after : /\ after \in [0..Len(shape) -> Consuming(Len(resolved))]
                   /\ after[0] = StartConsuming(strides, resolved)
                   /\ \A k \in 1..Len(shape) :
                         after[k] = ConsumeAxis(shape, strides, resolved, after[k - 1], Len(shape) + 1 - k)
                   /\ compute_reshape_view_strides(shape, strides, resolved)
                        = IF after[Len(shape)].failed \/ after[Len(shape)].view # 0 THEN NoView
                          ELSE after[Len(shape)].out
  BY Consumption
<1>0. n \in Nat /\ n > 0 /\ R \in Nat /\ DOMAIN resolved = 1..R /\ strides[n] \in Nat
      /\ Last(strides) = strides[n]
  <2>1. shape \in Seq(Nat) /\ strides \in Seq(Nat) /\ Len(strides) = Len(shape)
    BY DEF Layout
  <2>2. Last(strides) = strides[n]
    BY <2>1 DEF Last
  <2>3. \A d \in 1..Len(strides) : strides[d] \in Nat
    BY <2>1
  <2>4. n \in 1..Len(strides)
    BY <2>1
  <2> QED BY <2>1, <2>2, <2>3, <2>4
<1>2. Holds(first, 0)
  <2> DEFINE out0 == [d \in DOMAIN resolved |-> 0]
             base0 == Last(strides)
             x == SumOf(Spans(resolved, out0), (R + 1)..R)
             y == SumOf(Spans(shape, strides), (n + 1)..n)
  <2>1. (R + 1)..R = {} /\ (n + 1)..n = {}
    BY <1>0
  <2>2. x = 0 /\ y = 0
    <3> HIDE DEF R, n, out0
    <3> QED BY <2>1, SumEmpty
  <2>3. base0 \in Nat /\ strides[n] = base0 /\ n - 0 = n /\ n # 0
    BY <1>0
  <2>4. first.view = R /\ first.base = base0 /\ first.elements = 1 /\ first.out = out0
    BY DEF StartConsuming
  <2> HIDE DEF first, base0
  <2>5. /\ SumOf(Spans(resolved, first.out), (first.view + 1)..R) = x
        /\ SumOf(Spans(shape, strides), ((n - 0) + 1)..n) = y
    <3> HIDE DEF R, n, out0
    <3> QED BY <2>3, <2>4
  <2> HIDE DEF x, y, out0
  <2>6. (first.elements - 1) * first.base = 0 /\ first.elements * first.base = base0
    BY <2>3, <2>4
  <2>7. SumOf(Spans(resolved, first.out), (first.view + 1)..R) + (first.elements - 1) * first.base
          = SumOf(Spans(shape, strides), ((n - 0) + 1)..n)
    BY <2>2, <2>5, <2>6
  <2>8. strides[n - 0] = first.elements * first.base
    BY <2>3, <2>6
  <2>9. n - 0 # 0
    BY <2>3
  <2> QED BY <2>7, <2>8, <2>9 DEF Collected
<1>3. ASSUME NEW k \in 1..n, NEW s \in A PROVE nx(k, s) \in A /\ (Holds(s, k - 1) => Holds(nx(k, s), k))
  <2> DEFINE axis == n + 1 - k
             t == ConsumeAxis(shape, strides, resolved, s, axis)
  <2>1. axis \in 1..n /\ n - (k - 1) = axis /\ n - k = axis - 1
    BY <1>0
  <2> HIDE DEF axis
  <2>2. /\ ConsumeAxis(shape, strides, resolved, s, axis) \in Consuming(Len(resolved))
        /\ Collected(shape, strides, resolved, s, axis)
             => Collected(shape, strides, resolved, ConsumeAxis(shape, strides, resolved, s, axis), axis - 1)
    BY <2>1, ConsumedAxis
  <2>3. nx(k, s) = t
    BY DEF axis
  <2> HIDE DEF nx
  <2> QED BY <2>1, <2>2, <2>3
<1>6. /\ after[0] = first /\ \A k \in 0..n : after[k] \in A
      /\ \A k \in 1..n : after[k] = nx(k, after[k - 1])
  BY <1>0, <1>a
<1>7. first \in A
  BY <1>0, <1>6
<1>8. after[n] \in A /\ Holds(after[n], n)
  <2> DEFINE G == {k \in Nat : k <= n => after[k] \in A /\ Holds(after[k], k)}
  <2>1. 0 \in G
    <3> HIDE DEF A, first, Holds
    <3> QED BY <1>2, <1>6, <1>7
  <2>2. ASSUME NEW k \in Nat, k \in G PROVE k + 1 \in G
    <3> HIDE DEF A, nx, Holds
    <3> SUFFICES ASSUME k + 1 <= n PROVE after[k + 1] \in A /\ Holds(after[k + 1], k + 1)
      OBVIOUS
    <3>1. k + 1 \in 1..n /\ after[k] \in A /\ Holds(after[k], k) /\ (k + 1) - 1 = k
      BY <1>0, <2>2
    <3>2. after[k + 1] = nx(k + 1, after[k])
      BY <1>6, <3>1
    <3>3. Holds(after[k], (k + 1) - 1)
      BY <3>1
    <3> QED BY <1>3, <3>1, <3>2, <3>3
  <2>3. n \in G
    <3> HIDE DEF G
    <3> QED BY <1>0, <2>1, <2>2, NatSetInduction
  <2> HIDE DEF Holds, A
  <2> QED BY <1>0, <2>3
<1>9. n - n = 0
  BY <1>0
<1>10. Collected(shape, strides, resolved, after[n], 0)
  BY <1>8, <1>9
<1> DEFINE end == after[n]
<1> HIDE DEF n
<1>11. end \in Consuming(Len(resolved)) /\ Collected(shape, strides, resolved, end, 0)
  BY <1>8, <1>10
<1> HIDE DEF end
<1> QED BY <1>a, <1>11 DEF end, n

LEMMA ComputedView ==
  ASSUME NEW shape, NEW strides, Layout(shape, strides), NonEmpty(shape),
         NEW resolved \in Seq(Nat), NonEmpty(resolved),
         Len(shape) = 0 => element_count(resolved) = 1,
         compute_reshape_view_strides(shape, strides, resolved) # NoView
  PROVE  LET found == compute_reshape_view_strides(shape, strides, resolved)
         IN  Layout(resolved, found) /\ Reach(resolved, found) = Reach(shape, strides)
<1> DEFINE found == compute_reshape_view_strides(shape, strides, resolved)
           R == Len(resolved)
           n == Len(shape)
<1>0. n \in Nat /\ R \in Nat
  BY DEF Layout
<1>1. CASE n = 0
  <2>1. found = contiguous_strides(resolved)
    BY <1>1 DEF compute_reshape_view_strides
  <2>2. Layout(resolved, found) /\ Reach(resolved, found) = element_count(resolved) - 1
    BY <2>1, ContiguousCompact DEF Compact
  <2>3. Reach(shape, strides) = 0
    <3>1. 1..Len(shape) = {}
      BY <1>1
    <3> QED BY <3>1, SumEmpty DEF Reach
  <2> HIDE DEF found
  <2>4. Layout(resolved, found) /\ Reach(resolved, found) = Reach(shape, strides)
    BY <1>1, <2>2, <2>3
  <2> QED BY <2>4 DEF found
<1>2. CASE n > 0
  <2>1. PICK end : /\ end \in Consuming(Len(resolved)) /\ Collected(shape, strides, resolved, end, 0)
                   /\ compute_reshape_view_strides(shape, strides, resolved)
                        = IF end.failed \/ end.view # 0 THEN NoView ELSE end.out
    BY <1>2, ConsumedAxes
  <2>2. ~end.failed /\ end.view = 0 /\ found = end.out
    BY <2>1
  <2>3. end.out \in [1..R -> Nat] /\ end.base \in Nat /\ end.elements \in Nat
    <3>1. end \in [view : 0..R, base : Nat, elements : Nat \ {0}, failed : BOOLEAN, out : [1..R -> Nat]]
      BY <2>1 DEF Consuming
    <3> QED BY <3>1
  <2>4. Layout(resolved, found)
    <3>1. found \in Seq(Nat) /\ Len(found) = R
      <4> HIDE DEF found
      <4> QED BY <1>0, <2>2, <2>3
    <3> QED BY <3>1 DEF Layout
  <2>5. /\ SumOf(Spans(resolved, end.out), (end.view + 1)..R) + (end.elements - 1) * end.base
             = SumOf(Spans(shape, strides), (0 + 1)..n)
        /\ end.elements = 1
    BY <2>1, <2>2 DEF Collected
  <2>6. end.view + 1 = 1 /\ (end.elements - 1) * end.base = 0 /\ 0 + 1 = 1
    BY <2>2, <2>3, <2>5
  <2>7. SumOf(Spans(resolved, found), 1..R) \in Int
    BY <2>4, SpansNat DEF Reach
  <2> HIDE DEF found, n, R
  <2>8. SumOf(Spans(resolved, found), 1..R) + 0 = SumOf(Spans(shape, strides), 1..n)
    BY <2>2, <2>5, <2>6
  <2>9. SumOf(Spans(resolved, found), 1..R) = SumOf(Spans(shape, strides), 1..n)
    BY <2>7, <2>8
  <2>10. Layout(resolved, found) /\ Reach(resolved, found) = Reach(shape, strides)
    BY <2>4, <2>9 DEF Reach, n, R
  <2> QED BY <2>10 DEF found
<1> QED BY <1>0, <1>1, <1>2

\* A stretch of positive extents, and what lies before it.
LEMMA Stretches ==
  ASSUME NEW r \in Seq(Nat), NonEmpty(r), NEW b \in 0..Len(r), NEW a \in 0..b
  PROVE  /\ ProductOf(r, 1..b) \in Nat \ {0} /\ ProductOf(r, 1..a) \in Nat \ {0}
         /\ ProductOf(r, (a + 1)..b) \in Nat \ {0}
         /\ ProductOf(r, 1..b) = ProductOf(r, 1..a) * ProductOf(r, (a + 1)..b)
<1>1. \A d \in 1..Len(r) : r[d] \in Nat \ {0}
  BY DEF NonEmpty
<1>2. /\ a \in Nat /\ b \in Nat /\ a + 1 \in Int
      /\ 1..b = (1..a) \cup ((a + 1)..b) /\ (1..a) \cap ((a + 1)..b) = {}
      /\ \A d \in 1..b : d \in 1..Len(r)
  OBVIOUS
<1>3. IsFiniteSet(1..a) /\ IsFiniteSet((a + 1)..b) /\ IsFiniteSet(1..b)
  BY <1>2, FS_Interval
<1>4. \A d \in 1..b : r[d] \in Nat \ {0}
  BY <1>1, <1>2
<1> DEFINE p == ProductOf(r, 1..a)
           q == ProductOf(r, (a + 1)..b)
           w == ProductOf(r, 1..b)
<1>5. w = p * q
  BY <1>2, <1>3, <1>4, ProductApart
<1>6. p \in Nat \ {0}
  <2>1. \A d \in 1..a : r[d] \in Nat /\ r[d] # 0
    BY <1>2, <1>4
  <2> QED BY <1>3, <2>1, ProductType, ProductZero
<1>7. q \in Nat \ {0}
  <2>1. \A d \in (a + 1)..b : r[d] \in Nat /\ r[d] # 0
    BY <1>2, <1>4
  <2> QED BY <1>3, <2>1, ProductType, ProductZero
<1>8. w \in Nat \ {0}
  <2>1. \A d \in 1..b : r[d] \in Nat /\ r[d] # 0
    BY <1>4
  <2> QED BY <1>3, <2>1, ProductType, ProductZero
<1> QED BY <1>5, <1>6, <1>7, <1>8

\* The axes of a packed layout longer than one step over those inside them.
LEMMA PackedStrides ==
  ASSUME NEW shape, NEW strides, Layout(shape, strides), NonEmpty(shape),
         layout_is_contiguous(shape, strides), NEW d \in 1..Len(shape), shape[d] # 1
  PROVE  strides[d] = ProductOf(shape, (d + 1)..Len(shape))
<1> DEFINE n == Len(shape)
           order == RowMajor(n)
           p == n + 1 - d
           m == n - d
           inner == [q \in 1..(p - 1) |-> shape[order[q]]]
<1>1. /\ shape \in Seq(Nat) /\ n \in Nat /\ p \in 1..n /\ p - 1 = m /\ m \in Nat
      /\ \A k \in 1..n : shape[k] \in Nat
  BY DEF Layout
<1>2. /\ DOMAIN order = 1..n /\ order[p] = d /\ \A q \in 1..m : order[q] = n + 1 - q
  BY <1>1 DEF RowMajor
<1>3. layout_is_contiguous_in_order(shape, strides, order)
  BY <1>1, NonEmptyIs DEF layout_is_contiguous
<1>4. strides[d] = Product(inner)
  <2>1. shape[order[p]] # 1 => strides[order[p]] = Product(inner)
    BY <1>1, <1>2, <1>3 DEF layout_is_contiguous_in_order
  <2> QED BY <1>2, <2>1
<1> DEFINE D == 1..m
           back == [q \in D |-> n + 1 - q]
           x == [q \in D |-> shape[back[q]]]
<1>5. inner = x
  BY <1>1, <1>2
<1>6. IsFiniteSet(D)
  BY <1>1, FS_Interval
<1>7. /\ \A q \in D : back[q] \in (d + 1)..n /\ shape[back[q]] \in Nat
      /\ \A i, j \in D : back[i] = back[j] => i = j
  BY <1>1
<1>8. {back[q] : q \in D} = (d + 1)..n
  <2>1. ASSUME NEW k \in (d + 1)..n PROVE k \in {back[q] : q \in D}
    <3>1. n + 1 - k \in D /\ back[n + 1 - k] = k
      BY <1>1
    <3> QED BY <3>1
  <2> HIDE DEF back
  <2> QED BY <1>7, <2>1
<1> HIDE DEF D, back
<1>9. ProductOf(x, D) = ProductOf(shape, {back[q] : q \in D})
  BY <1>6, <1>7, ProductImage
<1>10. Product(x) = ProductOf(x, D)
  BY ProductIs
<1> HIDE DEF x, inner
<1> QED BY <1>4, <1>5, <1>8, <1>9, <1>10
\* What holds of a packed layout before the a-th axis is consumed: the chunks
\* already split were single elements, and the axes collected step as one.
Packing(shape, resolved, s, a) ==
  /\ ~s.failed
  /\ a = 0 => s.view = 0
  /\ a >= 1 => /\ s.elements = ProductOf(shape, (a + 1)..Len(shape))
               /\ (s.elements # 1 \/ shape[a] # 1) => s.base = 1
               /\ ProductOf(resolved, 1..s.view) = ProductOf(shape, 1..Len(shape))

LEMMA PackedAxis ==
  ASSUME NEW shape, NEW strides, Layout(shape, strides), NonEmpty(shape),
         layout_is_contiguous(shape, strides),
         NEW resolved \in Seq(Nat), NonEmpty(resolved), NEW axis \in 1..Len(shape),
         NEW s \in Consuming(Len(resolved)), Packing(shape, resolved, s, axis)
  PROVE  Packing(shape, resolved, ConsumeAxis(shape, strides, resolved, s, axis), axis - 1)
<1> DEFINE R == Len(resolved)
           n == Len(shape)
           t == ConsumeAxis(shape, strides, resolved, s, axis)
           v == s.view
           b == s.base
           e == s.elements
           x == shape[axis]
           elems == s.elements * shape[axis]
           covered(d) == Product(SubSeq(resolved, d + 1, s.view))
           fits == {d \in 0..s.view : d = 0 \/ (covered(d) >= elems /\ resolved[d] # 1)}
           left == Max(fits)
           N == ProductOf(shape, 1..n)
           ends == EndsChunk(shape, strides, axis, elems * s.base)
<1> SUFFICES Packing(shape, resolved, t, axis - 1)
  OBVIOUS
<1>0. /\ R \in Nat /\ n \in Nat /\ v \in 0..R /\ b \in Nat /\ e \in Nat \ {0}
      /\ s \in [view : 0..R, base : Nat, elements : Nat \ {0}, failed : BOOLEAN, out : [1..R -> Nat]]
      /\ \A d \in 1..R : resolved[d] \in Nat \ {0}
      /\ \A d \in 1..n : shape[d] \in Nat \ {0}
      /\ \A d \in 1..n : strides[d] \in Nat
  <2>1. /\ n \in Nat /\ \A d \in 1..n : shape[d] \in Nat
        /\ \A d \in 1..n : strides[d] \in Nat
    BY DEF Layout
  <2>2. \A d \in 1..n : shape[d] # 0
    BY DEF NonEmpty
  <2>3. \A d \in 1..R : resolved[d] # 0
    BY DEF NonEmpty
  <2>4. s \in [view : 0..R, base : Nat, elements : Nat \ {0}, failed : BOOLEAN, out : [1..R -> Nat]]
    BY DEF Consuming
  <2>5. v \in 0..R /\ b \in Nat /\ e \in Nat \ {0}
    BY <2>4
  <2>6. R \in Nat /\ \A d \in 1..R : resolved[d] \in Nat
    OBVIOUS
  <2> QED BY <2>1, <2>2, <2>3, <2>4, <2>5, <2>6
<1>1. /\ ~s.failed /\ e = ProductOf(shape, (axis + 1)..n) /\ (e # 1 \/ x # 1 => b = 1)
      /\ ProductOf(resolved, 1..v) = N
  <2>1. axis >= 1
    OBVIOUS
  <2> QED BY <2>1 DEF Packing
<1>2. elems = ProductOf(shape, axis..n) /\ elems = e * x /\ elems \in Nat \ {0} /\ x \in Nat \ {0}
  <2>1. axis..n = ((axis + 1)..n) \cup {axis} /\ axis \notin (axis + 1)..n
    BY <1>0
  <2>2. IsFiniteSet((axis + 1)..n) /\ \A d \in ((axis + 1)..n) \cup {axis} : shape[d] \in Nat
    <3>1. axis + 1 \in Int /\ n \in Int /\ \A d \in ((axis + 1)..n) \cup {axis} : d \in 1..n
      BY <1>0
    <3> QED BY <1>0, <3>1, FS_Interval
  <2>3. ProductOf(shape, axis..n) = x * ProductOf(shape, (axis + 1)..n)
    BY <2>1, <2>2, ProductAdd
  <2>4. x \in Nat \ {0}
    BY <1>0
  <2>5. elems = e * x
    OBVIOUS
  <2> HIDE DEF x, e, elems
  <2> QED BY <1>0, <1>1, <2>3, <2>4, <2>5
<1>3. ASSUME NEW d \in 0..v
      PROVE  /\ covered(d) = ProductOf(resolved, (d + 1)..v) /\ covered(d) \in Nat \ {0}
             /\ ProductOf(resolved, 1..d) \in Nat \ {0}
             /\ N = ProductOf(resolved, 1..d) * covered(d)
  <2> HIDE DEF v, N
  <2>1. Covered(resolved, d, v) = ProductOf(resolved, (d + 1)..v)
    BY <1>0, CoveredIs
  <2>2. /\ ProductOf(resolved, 1..d) \in Nat \ {0} /\ ProductOf(resolved, (d + 1)..v) \in Nat \ {0}
        /\ ProductOf(resolved, 1..v) = ProductOf(resolved, 1..d) * ProductOf(resolved, (d + 1)..v)
    BY <1>0, Stretches
  <2>3. covered(d) = Covered(resolved, d, v)
    BY DEF Covered, v
  <2> HIDE DEF covered
  <2> QED BY <1>1, <2>1, <2>2, <2>3
<1>4. left \in 0..v /\ left \in fits /\ \A y \in fits : left >= y
  <2>1. fits \in SUBSET (0..s.view) /\ 0 \in fits /\ s.view \in Nat
    BY <1>0
  <2> HIDE DEF fits
  <2>2. Max(fits) \in fits /\ \A y \in fits : Max(fits) >= y
    BY <2>1, GreatestIs
  <2> QED BY <2>1, <2>2
<1>5. axis > 1 => (shape[axis - 1] # 1 => strides[axis - 1] = elems)
  <2> SUFFICES ASSUME axis > 1, shape[axis - 1] # 1 PROVE strides[axis - 1] = elems
    OBVIOUS
  <2> DEFINE d == axis - 1
  <2>1. d \in 1..n /\ d + 1 = axis /\ shape[d] # 1
    BY <1>0
  <2> HIDE DEF d
  <2>2. strides[d] = ProductOf(shape, (d + 1)..n)
    BY <2>1, PackedStrides
  <2> QED BY <1>2, <2>1, <2>2 DEF d
<1>6. CASE ends
  <2>1. /\ t.view = left /\ t.elements = 1 /\ t.failed = (covered(left) # elems)
        /\ t.base = IF axis > 1 THEN strides[axis - 1] ELSE s.base
    BY <1>1, <1>6 DEF ConsumeAxis
  <2>2. CASE axis = 1
    <3>1. elems = N
      BY <1>2, <2>2
    <3>2. ASSUME left # 0 PROVE FALSE
      <4> DEFINE p == ProductOf(resolved, 1..left)
                 c == covered(left)
                 z == resolved[left]
                 l == left
                 q == ProductOf(resolved, 1..(l - 1))
      <4>1. c >= N /\ z # 1 /\ N = p * c /\ p \in Nat \ {0} /\ c \in Nat \ {0}
        <5>1. covered(left) >= elems /\ resolved[left] # 1
          BY <1>4, <3>2
        <5>2. /\ ProductOf(resolved, 1..left) \in Nat \ {0} /\ covered(left) \in Nat \ {0}
              /\ N = ProductOf(resolved, 1..left) * covered(left)
          <6> HIDE DEF left, covered, N
          <6> QED BY <1>3, <1>4
        <5> HIDE DEF left, covered, N, elems
        <5> QED BY <3>1, <5>1, <5>2
      <4>2. p = z * q /\ q \in Nat \ {0} /\ z \in Nat \ {0}
        <5>1. l \in 1..R /\ l - 1 \in 0..R
          <6> HIDE DEF left, v
          <6> QED BY <1>0, <1>4, <3>2
        <5> HIDE DEF l
        <5>2. z \in Nat \ {0}
          <6>1. resolved[l] \in Nat \ {0}
            BY <1>0, <5>1
          <6> QED BY <6>1 DEF l
        <5>3. 1..l = (1..(l - 1)) \cup {l} /\ l \notin 1..(l - 1) /\ l - 1 \in Int
              /\ \A d \in (1..(l - 1)) \cup {l} : d \in 1..R
          BY <5>1, <1>0
        <5>4. IsFiniteSet(1..(l - 1)) /\ \A d \in (1..(l - 1)) \cup {l} : resolved[d] \in Nat
          <6>1. \A d \in (1..(l - 1)) \cup {l} : resolved[d] \in Nat
            BY <1>0, <5>3
          <6> DEFINE k == l - 1
          <6>2. k \in Int
            BY <5>3
          <6> HIDE DEF k
          <6>3. IsFiniteSet(1..k)
            BY <6>2, FS_Interval
          <6> QED BY <6>1, <6>3 DEF k
        <5>5. ProductOf(resolved, 1..l) = resolved[l] * q
          BY <5>3, <5>4, ProductAdd
        <5>6. q \in Nat \ {0}
          <6>1. l - 1 \in 0..Len(resolved)
            BY <5>1
          <6> DEFINE k == l - 1
          <6> HIDE DEF k
          <6>2. k \in 0..Len(resolved) /\ k \in 0..k
            BY <6>1 DEF k
          <6>3. ProductOf(resolved, 1..k) \in Nat \ {0}
            BY <6>2, Stretches
          <6> QED BY <6>3 DEF k
        <5> QED BY <5>2, <5>5, <5>6 DEF l
      <4>3. p >= 2
        <5> HIDE DEF p, z, q
        <5>1. z >= 2
          BY <4>1, <4>2
        <5>2. z * q >= 2 * q
          BY <4>2, <5>1
        <5> QED BY <4>2, <5>2
      <4> HIDE DEF p, c, N
      <4>4. p * c >= 2 * c
        BY <4>1, <4>3
      <4> QED BY <4>1, <4>4
    <3>3. covered(left) = elems
      <4>1. 0 \in 0..v /\ 0 + 1 = 1
        BY <1>0
      <4>2. covered(0) = N
        <5>1. covered(0) = ProductOf(resolved, 1..v)
          <6> HIDE DEF covered, v
          <6> QED BY <1>3, <4>1
        <5> QED BY <1>1, <5>1
      <4> HIDE DEF covered, left, elems, N
      <4> QED BY <3>1, <3>2, <4>2
    <3> HIDE DEF t, left, covered, elems
    <3> QED BY <1>0, <2>1, <2>2, <3>2, <3>3 DEF Packing
  <2>3. CASE axis > 1
    <3> DEFINE y == strides[axis - 1]
    <3>1. shape[axis - 1] # 1 /\ y = elems /\ y # elems * b
      BY <1>5, <1>6, <2>3 DEF EndsChunk
    <3>2. e = 1 /\ x = 1 /\ elems = 1
      <4>1. b # 1
        <5>1. elems = elems * 1
          BY <1>2
        <5> HIDE DEF elems, y
        <5> QED BY <3>1, <5>1
      <4>2. e = 1 /\ x = 1
        BY <1>1, <4>1
      <4> HIDE DEF e, x, elems
      <4> QED BY <1>2, <4>2
    <3>3. ASSUME NEW d \in (left + 1)..v PROVE resolved[d] = 1
      <4>1. d \in 0..v /\ d > left
        <5> HIDE DEF left, v
        <5> QED BY <1>0, <1>4
      <4>2. d \notin fits
        <5> HIDE DEF fits, v
        <5>1. d \in Int /\ left \in Int
          BY <1>4, <4>1
        <5> QED BY <1>4, <4>1, <5>1
      <4>3. covered(d) >= elems
        <5>1. covered(d) \in Nat \ {0}
          <6> HIDE DEF covered, v
          <6> QED BY <1>3, <4>1
        <5> HIDE DEF covered, elems
        <5> QED BY <3>2, <5>1
      <4> QED BY <4>1, <4>2, <4>3
    <3>4. covered(left) = 1
      <4>1. covered(left) = ProductOf(resolved, (left + 1)..v)
        <5> HIDE DEF covered, v, left
        <5> QED BY <1>3, <1>4
      <4>2. IsFiniteSet((left + 1)..v)
        <5>1. left + 1 \in Int /\ v \in Int
          <6> HIDE DEF left, v
          <6> QED BY <1>0, <1>4
        <5> QED BY <5>1, FS_Interval
      <4> HIDE DEF left, v, covered
      <4> QED BY <3>3, <4>1, <4>2, ProductOnes
    <3>5. ProductOf(resolved, 1..left) = N
      <4>1. ProductOf(resolved, 1..left) \in Nat /\ N = ProductOf(resolved, 1..left) * covered(left)
        <5> HIDE DEF covered, v, left, N
        <5> QED BY <1>3, <1>4
      <4> HIDE DEF left, covered, N
      <4> QED BY <3>4, <4>1
    <3>6. t.base = 1 /\ ~t.failed /\ t.view = left /\ t.elements = 1
      <4> HIDE DEF t, left, covered, elems, y
      <4>1. t.base = y
        BY <2>1, <2>3 DEF y
      <4> QED BY <2>1, <3>1, <3>2, <3>4, <4>1
    <3>7. ProductOf(shape, ((axis - 1) + 1)..n) = 1 /\ axis - 1 # 0
      <4>1. (axis - 1) + 1 = axis
        OBVIOUS
      <4> QED BY <1>2, <2>3, <3>2, <4>1
    <3> HIDE DEF t, left, v
    <3> QED BY <3>5, <3>6, <3>7 DEF Packing
  <2> QED BY <1>0, <2>2, <2>3
<1>7. CASE ~ends
  <2>1. t = [s EXCEPT !.elements = elems]
    BY <1>7 DEF ConsumeAxis
  <2>2. t.view = v /\ t.base = b /\ t.elements = elems /\ t.failed = s.failed
    BY <1>0, <2>1
  <2>3. axis # 1 /\ (shape[axis - 1] # 1 => strides[axis - 1] = elems * b)
    BY <1>7 DEF EndsChunk
  <2>4. axis > 1 /\ (axis - 1) + 1 = axis /\ axis - 1 # 0
    BY <2>3
  <2>5. elems # 1 \/ shape[axis - 1] # 1 => b = 1
    <3> SUFFICES ASSUME elems # 1 \/ shape[axis - 1] # 1 PROVE b = 1
      OBVIOUS
    <3> HIDE DEF elems, e, x, b
    <3>1. CASE elems # 1
      <4>1. e # 1 \/ x # 1
        BY <1>2, <3>1
      <4> QED BY <1>1, <4>1
    <3>2. CASE shape[axis - 1] # 1
      <4>1. elems = elems * b
        BY <1>5, <2>3, <2>4, <3>2
      <4>2. b \in Nat /\ elems \in Nat \ {0}
        BY <1>0, <1>2
      <4>3. b >= 2 => elems * b >= elems * 2
        BY <4>2
      <4>4. b = 0 => elems * b = 0
        BY <4>2
      <4> QED BY <4>1, <4>2, <4>3, <4>4
    <3> QED BY <3>1, <3>2
  <2>6. t.elements = ProductOf(shape, ((axis - 1) + 1)..n)
    BY <1>2, <2>2, <2>4
  <2> HIDE DEF t, elems, b
  <2> QED BY <1>1, <2>2, <2>4, <2>5, <2>6 DEF Packing
<1> QED BY <1>6, <1>7

\* A packed layout has a view of every shape of as many elements.
LEMMA ContiguousViews ==
  ASSUME NEW shape, NEW strides, Layout(shape, strides), layout_is_contiguous(shape, strides),
         NEW resolved \in Seq(Nat), element_count(resolved) = element_count(shape)
  PROVE  reshape_view_strides(shape, strides, resolved) # NoView
<1> DEFINE n == Len(shape)
           R == Len(resolved)
<1>0. /\ shape \in Seq(Nat) /\ strides \in Seq(Nat) /\ n \in Nat /\ R \in Nat
  BY DEF Layout
<1>1. ASSUME NEW found \in Seq(Nat) PROVE found # NoView
  <2> SUFFICES ASSUME found = NoView PROVE FALSE
    OBVIOUS
  <2>1. Len(found) = 1 /\ found[1] = -1
    BY DEF NoView
  <2>2. found[1] \in Nat
    BY <2>1
  <2> QED BY <2>1, <2>2
<1>2. contiguous_strides(resolved) \in Seq(Nat)
  BY ContiguousCompact DEF Layout
<1>3. CASE element_count(shape) = 0
  BY <1>0, <1>1, <1>2, <1>3 DEF reshape_view_strides
<1>4. CASE element_count(shape) # 0 /\ n = 0
  BY <1>1, <1>2, <1>4 DEF reshape_view_strides, compute_reshape_view_strides
<1>5. CASE element_count(shape) # 0 /\ n > 0
  <2>1. NonEmpty(shape) /\ NonEmpty(resolved)
    BY <1>0, <1>5, NonEmptyIs
  <2>2. PICK after :
            /\ after \in [0..Len(shape) -> Consuming(Len(resolved))]
            /\ after[0] = StartConsuming(strides, resolved)
            /\ \A k \in 1..Len(shape) :
                  after[k] = ConsumeAxis(shape, strides, resolved, after[k - 1], Len(shape) + 1 - k)
            /\ compute_reshape_view_strides(shape, strides, resolved)
                 = IF after[Len(shape)].failed \/ after[Len(shape)].view # 0 THEN NoView
                   ELSE after[Len(shape)].out
    BY <1>5, <2>1, Consumption
  <2> DEFINE Holds(k) == Packing(shape, resolved, after[k], n - k)
  <2>3. Holds(0)
    <3>1. /\ after[0].view = R /\ after[0].base = Last(strides) /\ after[0].elements = 1
          /\ after[0].failed = FALSE
      BY <2>2 DEF StartConsuming
    <3>2. n - 0 = n /\ (n + 1)..n = {} /\ n # 0 /\ n \in 1..n
      BY <1>0, <1>5
    <3>3. Last(strides) = strides[n]
      BY DEF Last, Layout
    <3>4. ProductOf(shape, (n + 1)..n) = 1
      <4> HIDE DEF n
      <4> QED BY <3>2, ProductEmpty
    <3>5. shape[n] # 1 => strides[n] = 1
      BY <2>1, <3>2, <3>4, PackedStrides
    <3>6. ProductOf(resolved, 1..R) = ProductOf(shape, 1..n)
      BY <1>0, CountIs
    <3> HIDE DEF n, R
    <3> QED BY <3>1, <3>2, <3>3, <3>4, <3>5, <3>6 DEF Packing, n
  <2>4. ASSUME NEW k \in 1..n, Holds(k - 1) PROVE Holds(k)
    <3> DEFINE axis == n + 1 - k
               s == after[k - 1]
    <3>1. axis \in 1..n /\ n - (k - 1) = axis /\ n - k = axis - 1 /\ k - 1 \in 0..n
      BY <1>0
    <3>2. s \in Consuming(Len(resolved)) /\ after[k] = ConsumeAxis(shape, strides, resolved, s, axis)
      BY <2>2, <3>1
    <3>3. Packing(shape, resolved, s, axis)
      BY <2>4, <3>1
    <3> HIDE DEF axis, s
    <3>4. Packing(shape, resolved, ConsumeAxis(shape, strides, resolved, s, axis), axis - 1)
      BY <2>1, <3>1, <3>2, <3>3, PackedAxis
    <3> QED BY <3>1, <3>2, <3>4
  <2>5. Holds(n)
    <3> DEFINE G == {k \in Nat : k <= n => Holds(k)}
    <3>1. 0 \in G
      BY <2>3
    <3>2. ASSUME NEW k \in Nat, k \in G PROVE k + 1 \in G
      <4> HIDE DEF Holds
      <4> SUFFICES ASSUME k + 1 <= n PROVE Holds(k + 1)
        OBVIOUS
      <4>1. k + 1 \in 1..n /\ (k + 1) - 1 = k /\ Holds(k)
        BY <1>0, <3>2
      <4>2. Holds((k + 1) - 1)
        BY <4>1
      <4> QED BY <2>4, <4>1, <4>2
    <3>3. n \in G
      <4> HIDE DEF G
      <4> QED BY <1>0, <3>1, <3>2, NatSetInduction
    <3> HIDE DEF Holds
    <3> QED BY <1>0, <3>3
  <2>6. ~after[n].failed /\ after[n].view = 0
    <3>1. n - n = 0
      BY <1>0
    <3>2. Packing(shape, resolved, after[n], 0)
      BY <2>5, <3>1
    <3> QED BY <3>2 DEF Packing
  <2>7. after[n].out \in Seq(Nat)
    <3>1. n \in 0..Len(shape)
      BY <1>0
    <3>2. after[n] \in [view : 0..R, base : Nat, elements : Nat \ {0}, failed : BOOLEAN, out : [1..R -> Nat]]
      BY <2>2, <3>1 DEF Consuming
    <3> DEFINE out == after[n].out
    <3>3. out \in [1..R -> Nat]
      BY <3>2
    <3> HIDE DEF out, R
    <3>4. out \in Seq(Nat)
      BY <1>0, <3>3
    <3> QED BY <3>4 DEF out
  <2>8. compute_reshape_view_strides(shape, strides, resolved) = after[n].out
    BY <2>2, <2>6
  <2> QED BY <1>1, <1>5, <2>7, <2>8 DEF reshape_view_strides
<1> QED BY <1>0, <1>3, <1>4, <1>5

-----------------------------------------------------------------------------
(***************************************************************************)
(* New storage: as many values as the result has elements, whichever path  *)
(* reads them and lays them out.                                           *)
(***************************************************************************)
Stored(s, n) == s \in Seq(Range(s)) /\ Len(s) = n

LEMMA FunctionStored ==
  ASSUME NEW n \in Nat, NEW s, DOMAIN s = 1..n, s = [k \in 1..n |-> s[k]]
  PROVE  Stored(s, n)
BY DEF Stored, Range

LEMMA StoredIs ==
  ASSUME NEW n \in Nat, NEW s, Stored(s, n)
  PROVE  DOMAIN s = 1..n /\ s = [k \in 1..n |-> s[k]] /\ s \in Seq(Range(s)) /\ Len(s) = n
<1>1. s \in Seq(Range(s)) /\ Len(s) = n
  BY DEF Stored
<1> QED BY <1>1

LEMMA AllocatedIs ==
  ASSUME NEW t, Allocated(t)
  PROVE  /\ Layout(t.shape, t.strides) /\ t.shape \in Seq(Nat) /\ t.offset \in Nat
         /\ Len(t.shape) \in Nat /\ DOMAIN t.shape = 1..Len(t.shape)
         /\ t.storage \in Seq(Range(t.storage)) /\ Len(t.storage) \in Nat
         /\ elements(t) = element_count(t.shape) /\ elements(t) \in Nat
         /\ NonEmpty(t.shape) => t.offset + Reach(t.shape, t.strides) < Len(t.storage)
<1>1. /\ Layout(t.shape, t.strides) /\ t.shape \in Seq(Nat) /\ t.offset \in Nat
      /\ t.storage \in Seq(Range(t.storage))
  BY DEF Allocated, Layout
<1>2. Len(t.shape) \in Nat /\ DOMAIN t.shape = 1..Len(t.shape) /\ Len(t.storage) \in Nat
  BY <1>1
<1>3. elements(t) = element_count(t.shape) /\ elements(t) \in Nat
  BY <1>1, CountIs DEF elements
<1>4. NonEmpty(t.shape) => t.offset + Reach(t.shape, t.strides) < Len(t.storage)
  BY <1>1, BoundsAre DEF Allocated
<1> QED BY <1>1, <1>2, <1>3, <1>4

LEMMA PhysicalStored ==
  ASSUME NEW t, Allocated(t)
  PROVE  Stored(physical_slice(t), elements(t))
<1> DEFINE a == t.offset
           n == elements(t)
           s == t.storage
           u == SubSeq(s, a + 1, a + n)
<1>1. a \in Nat /\ n \in Nat /\ s \in Seq(Range(s))
  BY AllocatedIs
<1> HIDE DEF a, n, s
<1>2. DOMAIN u = 1..n /\ u = [k \in 1..n |-> u[k]]
  BY <1>1
<1>3. Stored(u, n)
  <2> HIDE DEF u
  <2> QED BY <1>1, <1>2, FunctionStored
<1> QED BY <1>3 DEF physical_slice, a, n, s

LEMMA LogicalStored ==
  ASSUME NEW t, Allocated(t)
  PROVE  Stored(logical_values(t), elements(t))
<1>1. elements(t) \in Nat /\ Stored(physical_slice(t), elements(t))
  BY AllocatedIs, PhysicalStored
<1>2. ASSUME NEW f PROVE Stored([k \in 1..elements(t) |-> f[k]], elements(t))
  <2> DEFINE n == elements(t)
             s == [k \in 1..n |-> f[k]]
  <2>1. DOMAIN s = 1..n /\ s = [k \in 1..n |-> s[k]]
    OBVIOUS
  <2> HIDE DEF s, n
  <2>2. Stored(s, n)
    BY <1>1, <2>1, FunctionStored DEF n
  <2> QED BY <2>2 DEF s, n
<1> DEFINE n == elements(t)
           offsets == OdometerOffsets(t.shape, t.strides, t.offset)
           odometer == [k \in 1..n |-> stored_value(t, offsets[k])]
           strided == [k \in 1..n |-> value_at_strided_linear_index(t, k - 1)]
<1>3. Stored(odometer, n)
  <2>1. DOMAIN odometer = 1..n /\ odometer = [k \in 1..n |-> odometer[k]]
    OBVIOUS
  <2> HIDE DEF odometer
  <2> QED BY <1>1, <2>1, FunctionStored
<1>4. Stored(strided, n)
  <2>1. DOMAIN strided = 1..n /\ strided = [k \in 1..n |-> strided[k]]
    OBVIOUS
  <2> HIDE DEF strided
  <2> QED BY <1>1, <2>1, FunctionStored
<1>5. \/ logical_values(t) = physical_slice(t)
      \/ logical_values(t) = odometer
      \/ logical_values(t) = strided
  BY DEF logical_values
<1> HIDE DEF odometer, strided
<1> QED BY <1>1, <1>3, <1>4, <1>5

LEMMA ScatterStored ==
  ASSUME NEW n \in Nat, NEW data, Stored(data, n), NEW at, NEW values
  PROVE  Stored(Scatter(data, at, values), n)
<1> DEFINE s == Scatter(data, at, values)
<1>1. DOMAIN data = 1..n
  BY StoredIs
<1>2. DOMAIN s = 1..n /\ s = [k \in 1..n |-> s[k]]
  BY <1>1 DEF Scatter
<1> HIDE DEF s
<1>3. Stored(s, n)
  BY <1>2, FunctionStored
<1> QED BY <1>3 DEF s

LEMMA MaterializedStored ==
  ASSUME NEW t, Allocated(t), NEW strides, NEW operation
  PROVE  Stored(materialize_with_strides(t, strides, operation), elements(t))
<1> DEFINE n == elements(t)
           image(values) == [k \in DOMAIN values |-> operation[values[k]]]
<1>1. n \in Nat /\ Stored(physical_slice(t), n) /\ Stored(logical_values(t), n)
  BY AllocatedIs, PhysicalStored, LogicalStored
<1>2. ASSUME NEW values, Stored(values, n) PROVE Stored(image(values), n)
  <2> DEFINE s == image(values)
  <2>1. DOMAIN values = 1..n
    BY <1>1, <1>2, StoredIs
  <2>2. DOMAIN s = 1..n /\ s = [k \in 1..n |-> s[k]]
    BY <2>1
  <2> HIDE DEF s
  <2>3. Stored(s, n)
    BY <1>1, <2>2, FunctionStored
  <2> QED BY <2>3 DEF s
<1>3. Stored(image(logical_values(t)), n) /\ Stored(image(physical_slice(t)), n)
  BY <1>1, <1>2
<1>4. Stored(LaidOut(image(logical_values(t)), t.shape, strides), n)
  <2> HIDE DEF image, n
  <2> QED BY <1>1, <1>3, ScatterStored DEF LaidOut
<1>5. \/ materialize_with_strides(t, strides, operation) = image(logical_values(t))
      \/ materialize_with_strides(t, strides, operation) = image(physical_slice(t))
      \/ materialize_with_strides(t, strides, operation)
           = LaidOut(image(logical_values(t)), t.shape, strides)
  BY DEF materialize_with_strides
<1> HIDE DEF image, n
<1> QED BY <1>3, <1>4, <1>5 DEF n

LEMMA ZippedStored ==
  ASSUME NEW n \in Nat, NEW left, Stored(left, n), NEW right, NEW sign
  PROVE  Stored(Zipped(left, right, sign), n)
<1> DEFINE s == Zipped(left, right, sign)
<1>1. DOMAIN left = 1..n
  BY StoredIs
<1>2. DOMAIN s = 1..n /\ s = [k \in 1..n |-> s[k]]
  BY <1>1 DEF Zipped
<1> HIDE DEF s
<1>3. Stored(s, n)
  BY <1>2, FunctionStored
<1> QED BY <1>3 DEF s

(***************************************************************************)
(* The two ways to a tensor: another layout over the same storage, or new  *)
(* storage with a layout it fills.                                         *)
(***************************************************************************)
LEMMA ViewAllocated ==
  ASSUME NEW t, Allocated(t), NEW shape, NEW strides, Layout(shape, strides), NEW offset \in Nat,
         validate_view_bounds(shape, strides, offset, Len(t.storage)), NEW mapping
  PROVE  Allocated(RecordedView(t, shape, strides, offset, mapping))
<1> DEFINE pull == record_transform(t, mapping, element_count(shape))
           r == ViewOf(t, shape, strides, offset, pull)
<1>1. DOMAIN t = Fields
  BY DEF Allocated
<1> HIDE DEF pull
<1>2. /\ DOMAIN r = Fields /\ r.shape = shape /\ r.strides = strides /\ r.offset = offset
      /\ r.storage = t.storage
  BY <1>1 DEF ViewOf, Fields
<1> HIDE DEF r
<1>3. Allocated(r)
  BY <1>2 DEF Allocated, Layout
<1> QED BY <1>3 DEF RecordedView, r, pull

LEMMA SameReachAllocated ==
  ASSUME NEW t, Allocated(t), NEW shape, NEW strides, Layout(shape, strides),
         NonEmpty(shape) => NonEmpty(t.shape) /\ Reach(shape, strides) = Reach(t.shape, t.strides),
         NEW mapping
  PROVE  Allocated(RecordedView(t, shape, strides, t.offset, mapping))
<1>1. NonEmpty(shape) => t.offset + Reach(shape, strides) < Len(t.storage)
  BY AllocatedIs
<1>2. validate_view_bounds(shape, strides, t.offset, Len(t.storage))
  BY <1>1, BoundsAre
<1> QED BY <1>2, AllocatedIs, ViewAllocated

LEMMA FilledBounds ==
  ASSUME NEW shape, NEW strides, LaysOut(shape, strides)
  PROVE  validate_view_bounds(shape, strides, 0, element_count(shape))
<1>1. Layout(shape, strides) /\ shape \in Seq(Nat)
  BY DEF LaysOut, Layout
<1>2. element_count(shape) \in Nat
  BY <1>1, CountIs
<1>3. NonEmpty(shape) => 0 + Reach(shape, strides) < element_count(shape)
  <2>1. NonEmpty(shape) => Reach(shape, strides) = element_count(shape) - 1
    BY DEF LaysOut, Compact
  <2> QED BY <1>2, <2>1
<1> QED BY <1>1, <1>3, BoundsAre

LEMMA OwnedAllocated ==
  ASSUME NEW t, Allocated(t), NEW shape, NEW strides, LaysOut(shape, strides),
         NEW data, Stored(data, element_count(shape)), NEW pull
  PROVE  Allocated(from_owned_parts(t, data, shape, strides, pull))
<1> DEFINE r == from_owned_parts(t, data, shape, strides, pull)
<1>1. DOMAIN t = Fields
  BY DEF Allocated
<1>2. /\ DOMAIN r = Fields /\ r.shape = shape /\ r.strides = strides /\ r.offset = 0
      /\ r.storage = data
  BY <1>1 DEF from_owned_parts, Fields
<1> HIDE DEF r
<1>3. data \in Seq(Range(data)) /\ Len(data) = element_count(shape)
  BY DEF Stored
<1>4. validate_view_bounds(shape, strides, 0, element_count(shape))
  BY FilledBounds
<1>5. Allocated(r)
  BY <1>2, <1>3, <1>4 DEF Allocated, LaysOut, Layout
<1> QED BY <1>5 DEF r

LEMMA AliasAllocated == ASSUME NEW t, Allocated(t) PROVE Allocated(metadata_alias(t))
BY AllocatedIs, SameReachAllocated DEF metadata_alias

-----------------------------------------------------------------------------
(***************************************************************************)
(* The layouts chosen for copies and results.                              *)
(***************************************************************************)
LEMMA ContiguousIs ==
  ASSUME NEW shape, NEW strides, Layout(shape, strides), layout_is_contiguous(shape, strides)
  PROVE  Compact(shape, strides)
<1> DEFINE order == RowMajor(Len(shape))
<1>1. shape \in Seq(Nat) /\ Len(shape) \in Nat
  BY DEF Layout
<1>2. CASE element_count(shape) = 0
  BY <1>1, <1>2, NonEmptyIs DEF Compact
<1>3. CASE layout_is_contiguous_in_order(shape, strides, order)
  <2>1. Permutation(order, Len(shape))
    BY <1>1, RowMajorPermutes
  <2> HIDE DEF order
  <2> QED BY <1>3, <2>1, ContiguousReach
<1> QED BY <1>2, <1>3 DEF layout_is_contiguous

LEMMA ChannelsLastLays ==
  ASSUME NEW shape \in Seq(Nat), Len(shape) = 4
  PROVE  LaysOut(shape, strides_in_physical_order(shape, ChannelsLast))
<1> DEFINE order == ChannelsLast
<1>1. Permutation(order, Len(shape))
  BY ChannelsLastPermutes
<1> HIDE DEF order
<1>2. LaysOut(shape, strides_in_physical_order(shape, order))
  BY <1>1, PhysicalCompact DEF LaysOut
<1> QED BY <1>2 DEF order

LEMMA ChosenLays ==
  ASSUME NEW t, Allocated(t)
  PROVE  /\ LaysOut(t.shape, contiguous_strides(t.shape))
         /\ is_dense(t) => LaysOut(t.shape, t.strides)
         /\ is_channels_last(t) => Len(t.shape) = 4
         /\ LaysOut(t.shape, preserve_format_strides(t))
         /\ LaysOut(t.shape, unary_output_strides(t))
<1>1. LaysOut(t.shape, contiguous_strides(t.shape))
  BY AllocatedIs, ContiguousCompact DEF LaysOut
<1>2. ASSUME is_dense(t) PROVE LaysOut(t.shape, t.strides)
  BY <1>2, AllocatedIs, DenseCompact DEF LaysOut, is_dense
<1>3. ASSUME is_channels_last(t) PROVE Len(t.shape) = 4
  BY <1>3, ChannelsLastPermutes DEF is_channels_last, layout_is_contiguous_in_order
<1>4. \A operands : LaysOut(t.shape, elementwise_output_strides(t.shape, operands))
  BY AllocatedIs, ElementwiseFresh
<1>5. LaysOut(t.shape, preserve_format_strides(t))
  BY <1>2, <1>4 DEF preserve_format_strides
<1>6. is_channels_last(t) => LaysOut(t.shape, strides_in_physical_order(t.shape, ChannelsLast))
  BY <1>3, AllocatedIs, ChannelsLastLays
<1>7. LaysOut(t.shape, unary_output_strides(t))
  BY <1>1, <1>2, <1>4, <1>6 DEF unary_output_strides
<1> QED BY <1>1, <1>2, <1>3, <1>5, <1>7

(***************************************************************************)
(* Views that only drop, add or exchange axes.                             *)
(***************************************************************************)
LEMMA EmbeddedReach ==
  ASSUME NEW shape, NEW strides, Layout(shape, strides),
         NEW shape1, NEW strides1, Layout(shape1, strides1),
         NEW m, \A d \in 1..Len(shape) : /\ m[d] \in 1..Len(shape1)
                                         /\ shape1[m[d]] = shape[d] /\ strides1[m[d]] = strides[d],
         \A d, g \in 1..Len(shape) : m[d] = m[g] => d = g,
         \A g \in 1..Len(shape1) : (\A d \in 1..Len(shape) : m[d] # g) => shape1[g] = 1
  PROVE  /\ Reach(shape1, strides1) = Reach(shape, strides)
         /\ NonEmpty(shape1) <=> NonEmpty(shape)
<1> DEFINE D == 1..Len(shape)
           E == 1..Len(shape1)
           v == Spans(shape, strides)
           w == Spans(shape1, strides1)
           image == {m[d] : d \in D}
<1>1. /\ IsFiniteSet(D) /\ \A d \in D : v[d] = (shape[d] - 1) * strides[d] /\ v[d] \in Int
      /\ IsFiniteSet(E) /\ \A g \in E : w[g] = (shape1[g] - 1) * strides1[g] /\ w[g] \in Int
  BY SpansNat
<1>2. image \in SUBSET E
  OBVIOUS
<1>3. \A d \in D : v[d] = w[m[d]] /\ w[m[d]] \in Int
  <2> HIDE DEF v, w
  <2> QED BY <1>1
<1>4. SumOf(v, D) = SumOf(w, image)
  <2>1. \A i, j \in D : m[i] = m[j] => i = j
    OBVIOUS
  <2> HIDE DEF D, v, w
  <2>2. SumOf([d \in D |-> w[m[d]]], D) = SumOf(w, {m[d] : d \in D})
    BY <1>1, <1>3, <2>1, SumImage
  <2>3. SumOf([d \in D |-> w[m[d]]], D) = SumOf(v, D)
    <3> DEFINE u == [d \in D |-> w[m[d]]]
    <3>1. \A d \in D : u[d] = v[d] /\ v[d] \in Int
      BY <1>1, <1>3
    <3> HIDE DEF u
    <3>2. SumOf(u, D) = SumOf(v, D)
      BY <1>1, <3>1, SumSame
    <3> QED BY <3>2 DEF u
  <2> QED BY <2>2, <2>3
<1>5. SumOf(w, E) = SumOf(w, image)
  <2>1. ASSUME NEW g \in E \ image PROVE w[g] = 0
    <3>1. \A d \in D : m[d] # g
      BY <2>1
    <3>2. shape1[g] = 1
      BY <3>1
    <3>3. strides1[g] \in Nat
      <4>1. \A d \in 1..Len(strides1) : strides1[d] \in Nat
        BY DEF Layout
      <4>2. Len(strides1) = Len(shape1)
        BY DEF Layout
      <4> QED BY <4>1, <4>2
    <3>4. w[g] = (shape1[g] - 1) * strides1[g]
      BY <1>1
    <3> QED BY <3>2, <3>3, <3>4
  <2>2. \A g \in E : w[g] \in Int
    BY <1>1
  <2> HIDE DEF E, w, image
  <2> QED BY <1>1, <1>2, <2>1, <2>2, SumRest
<1>6. NonEmpty(shape1) <=> NonEmpty(shape)
  <2>1. ASSUME NonEmpty(shape1) PROVE NonEmpty(shape)
    BY <2>1 DEF NonEmpty
  <2>2. ASSUME NonEmpty(shape), NEW g \in 1..Len(shape1) PROVE shape1[g] # 0
    <3>1. CASE \E d \in 1..Len(shape) : m[d] = g
      BY <2>2, <3>1 DEF NonEmpty
    <3>2. CASE \A d \in 1..Len(shape) : m[d] # g
      BY <3>2
    <3> QED BY <3>1, <3>2
  <2> QED BY <2>1, <2>2 DEF NonEmpty
<1> QED BY <1>4, <1>5, <1>6 DEF Reach

LEMMA PermutedReach ==
  ASSUME NEW shape, NEW strides, Layout(shape, strides), NEW s, NEW u, Layout(s, u),
         Len(s) = Len(shape), NEW order, Permutation(order, Len(shape)),
         \A d \in 1..Len(shape) : s[d] = shape[order[d]] /\ u[d] = strides[order[d]]
  PROVE  Reach(s, u) = Reach(shape, strides) /\ (NonEmpty(s) <=> NonEmpty(shape))
<1>1. \A d \in 1..Len(s) : /\ order[d] \in 1..Len(shape)
                           /\ shape[order[d]] = s[d] /\ strides[order[d]] = u[d]
  BY DEF Permutation
<1>2. \A d, g \in 1..Len(s) : order[d] = order[g] => d = g
  BY DEF Permutation
<1>3. \A g \in 1..Len(shape) : (\A d \in 1..Len(s) : order[d] # g) => shape[g] = 1
  <2>1. \A g \in 1..Len(shape) : \E d \in 1..Len(shape) : order[d] = g
    BY DEF Permutation
  <2> QED BY <2>1
<1> QED BY <1>1, <1>2, <1>3, EmbeddedReach

LEMMA FunctionSeq ==
  ASSUME NEW n \in Nat, NEW s, DOMAIN s = 1..n, s = [k \in 1..n |-> s[k]],
         \A k \in 1..n : s[k] \in Nat
  PROVE  s \in Seq(Nat) /\ Len(s) = n
<1>1. s \in [1..n -> Nat]
  OBVIOUS
<1> QED BY <1>1

LEMMA LayoutIs ==
  ASSUME NEW shape, NEW strides, Layout(shape, strides)
  PROVE  /\ shape \in Seq(Nat) /\ strides \in Seq(Nat) /\ Len(strides) = Len(shape) /\ Len(shape) \in Nat
         /\ DOMAIN shape = 1..Len(shape) /\ DOMAIN strides = 1..Len(shape)
         /\ \A d \in 1..Len(shape) : shape[d] \in Nat /\ strides[d] \in Nat
<1>1. shape \in Seq(Nat) /\ strides \in Seq(Nat) /\ Len(strides) = Len(shape)
  BY DEF Layout
<1>2. \A d \in 1..Len(shape) : shape[d] \in Nat
  BY <1>1
<1>3. \A d \in 1..Len(strides) : strides[d] \in Nat
  BY <1>1
<1> QED BY <1>1, <1>2, <1>3

LEMMA PickedLayout ==
  ASSUME NEW shape, NEW strides, Layout(shape, strides), NEW k \in Nat, NEW m,
         \A d \in 1..k : m[d] \in 1..Len(shape)
  PROVE  LET s == [d \in 1..k |-> shape[m[d]]]
             u == [d \in 1..k |-> strides[m[d]]]
         IN  /\ Layout(s, u) /\ Len(s) = k /\ DOMAIN s = 1..k /\ DOMAIN u = 1..k
             /\ \A d \in 1..k : s[d] = shape[m[d]] /\ u[d] = strides[m[d]]
<1> DEFINE s == [d \in 1..k |-> shape[m[d]]]
           u == [d \in 1..k |-> strides[m[d]]]
<1>0. \A d \in 1..k : s[d] = shape[m[d]] /\ u[d] = strides[m[d]]
  OBVIOUS
<1>1. DOMAIN s = 1..k /\ s = [d \in 1..k |-> s[d]] /\ \A d \in 1..k : s[d] \in Nat
  BY LayoutIs
<1>2. DOMAIN u = 1..k /\ u = [d \in 1..k |-> u[d]] /\ \A d \in 1..k : u[d] \in Nat
  BY LayoutIs
<1> HIDE DEF s, u
<1>3. s \in Seq(Nat) /\ Len(s) = k /\ u \in Seq(Nat) /\ Len(u) = k
  BY <1>1, <1>2, FunctionSeq
<1>4. Layout(s, u)
  BY <1>3 DEF Layout
<1> QED BY <1>0, <1>1, <1>2, <1>3, <1>4 DEF s, u

LEMMA PermutedAllocated ==
  ASSUME NEW t, Allocated(t), NEW dimensions \in [1..Len(t.shape) -> 1..Len(t.shape)],
         NEW r \in permute_axes(t, dimensions)
  PROVE  Allocated(r)
<1> DEFINE n == Len(t.shape)
           s == [d \in 1..n |-> t.shape[dimensions[d]]]
           u == [d \in 1..n |-> t.strides[dimensions[d]]]
           mapping == [kind |-> "permute", dimensions |-> dimensions]
<1>0. n \in Nat /\ DOMAIN dimensions = 1..n /\ Layout(t.shape, t.strides)
  BY AllocatedIs
<1>1. /\ \A p, q \in 1..n : dimensions[p] = dimensions[q] => p = q
      /\ r = RecordedView(t, s, u, t.offset, mapping)
  BY <1>0 DEF permute_axes, When, IsInjective
<1>2. Permutation(dimensions, n)
  BY <1>0, <1>1, InjectionPermutes
<1>a. \A d \in 1..n : dimensions[d] \in 1..n
  OBVIOUS
<1> HIDE DEF s, u, mapping
<1>3. /\ Layout(s, u) /\ Len(s) = n
      /\ \A d \in 1..n : s[d] = t.shape[dimensions[d]] /\ u[d] = t.strides[dimensions[d]]
  <2> DEFINE sh == t.shape
             st == t.strides
             m == dimensions
             k == n
             p == [d \in 1..k |-> sh[m[d]]]
             q == [d \in 1..k |-> st[m[d]]]
  <2>1. Layout(sh, st) /\ k \in Nat /\ \A d \in 1..k : m[d] \in 1..Len(sh)
    BY <1>0, <1>a
  <2> HIDE DEF sh, st, m, k
  <2>2. Layout(p, q) /\ Len(p) = k /\ \A d \in 1..k : p[d] = sh[m[d]] /\ q[d] = st[m[d]]
    BY <2>1, PickedLayout
  <2> QED BY <2>2 DEF p, q, sh, st, m, k, s, u
<1>6. Reach(s, u) = Reach(t.shape, t.strides) /\ (NonEmpty(s) <=> NonEmpty(t.shape))
  <2> DEFINE sh == t.shape
             st == t.strides
  <2>1. /\ Layout(sh, st) /\ Len(s) = Len(sh) /\ Permutation(dimensions, Len(sh))
        /\ \A d \in 1..Len(sh) : s[d] = sh[dimensions[d]] /\ u[d] = st[dimensions[d]]
    BY <1>0, <1>2, <1>3
  <2> HIDE DEF sh, st
  <2>2. Reach(s, u) = Reach(sh, st) /\ (NonEmpty(s) <=> NonEmpty(sh))
    BY <1>3, <2>1, PermutedReach
  <2> QED BY <2>2 DEF sh, st
<1> QED BY <1>1, <1>3, <1>6, SameReachAllocated

LEMMA JoinedIs ==
  ASSUME NEW X, NEW s \in Seq(X), NEW u \in Seq(X)
  PROVE  /\ s \o u \in Seq(X) /\ Len(s \o u) = Len(s) + Len(u)
         /\ \A d \in 1..(Len(s) + Len(u)) : (s \o u)[d] = IF d <= Len(s) THEN s[d] ELSE u[d - Len(s)]
OBVIOUS

LEMMA InsertedIs ==
  ASSUME NEW s \in Seq(Nat), NEW i \in 1..(Len(s) + 1), NEW x \in Nat
  PROVE  /\ InsertAt(s, i, x) \in Seq(Nat) /\ Len(InsertAt(s, i, x)) = Len(s) + 1
         /\ \A d \in 1..(Len(s) + 1) :
              InsertAt(s, i, x)[d] = IF d < i THEN s[d] ELSE IF d = i THEN x ELSE s[d - 1]
<1> DEFINE a == SubSeq(s, 1, i - 1)
           b == SubSeq(s, i, Len(s))
           c == a \o <<x>>
<1>1. /\ a \in Seq(Nat) /\ Len(a) = i - 1 /\ \A d \in 1..(i - 1) : a[d] = s[d]
  OBVIOUS
<1>2. b \in Seq(Nat) /\ Len(b) = Len(s) + 1 - i /\ \A d \in (i + 1)..(Len(s) + 1) : b[d - i] = s[d - 1]
  OBVIOUS
<1> HIDE DEF a, b
<1>3. c \in Seq(Nat) /\ Len(c) = i /\ \A d \in 1..i : c[d] = IF d < i THEN s[d] ELSE x
  BY <1>1
<1> HIDE DEF c
<1>4. InsertAt(s, i, x) = c \o b
  BY DEF InsertAt, a, b, c
<1>5. /\ c \o b \in Seq(Nat) /\ Len(c \o b) = Len(s) + 1
      /\ \A d \in 1..(Len(s) + 1) : (c \o b)[d] = IF d <= i THEN c[d] ELSE b[d - i]
  <2>1. /\ c \o b \in Seq(Nat) /\ Len(c \o b) = Len(c) + Len(b)
        /\ \A d \in 1..(Len(c) + Len(b)) :
              (c \o b)[d] = IF d <= Len(c) THEN c[d] ELSE b[d - Len(c)]
    BY <1>2, <1>3, JoinedIs
  <2>2. Len(c) = i /\ Len(c) + Len(b) = Len(s) + 1
    BY <1>2, <1>3
  <2> QED BY <2>1, <2>2
<1> DEFINE e == c \o b
<1>6. ASSUME NEW d \in 1..(Len(s) + 1)
      PROVE  e[d] = IF d < i THEN s[d] ELSE IF d = i THEN x ELSE s[d - 1]
  <2>0. e[d] = IF d <= i THEN c[d] ELSE b[d - i]
    BY <1>5
  <2> HIDE DEF e
  <2>1. CASE d <= i
    <3>1. d \in 1..i /\ e[d] = c[d]
      BY <2>0, <2>1
    <3>2. c[d] = IF d < i THEN s[d] ELSE x
      BY <1>3, <3>1
    <3> QED BY <2>1, <3>1, <3>2
  <2>2. CASE d > i
    <3>1. d \in (i + 1)..(Len(s) + 1) /\ ~(d <= i) /\ ~(d < i) /\ d # i
      BY <2>2
    <3>2. b[d - i] = s[d - 1]
      BY <1>2, <3>1
    <3>3. e[d] = b[d - i]
      BY <2>0, <3>1
    <3> QED BY <3>1, <3>2, <3>3
  <2> QED BY <2>1, <2>2
<1>7. InsertAt(s, i, x) = e /\ e \in Seq(Nat) /\ Len(e) = Len(s) + 1
  BY <1>4, <1>5
<1> HIDE DEF e
<1> QED BY <1>6, <1>7

LEMMA UnsqueezedAllocated ==
  ASSUME NEW t, Allocated(t), NEW axis \in 1..(Len(t.shape) + 1)
  PROVE  Allocated(unsqueeze_axis(t, axis))
<1> DEFINE n == Len(t.shape)
           step == IF axis = n + 1 THEN 1 ELSE t.strides[axis] * t.shape[axis]
           s == InsertAt(t.shape, axis, 1)
           u == InsertAt(t.strides, axis, step)
           m == [d \in 1..n |-> IF d < axis THEN d ELSE d + 1]
<1>0. /\ n \in Nat /\ t.shape \in Seq(Nat) /\ t.strides \in Seq(Nat) /\ Len(t.strides) = n
      /\ \A d \in 1..n : t.shape[d] \in Nat /\ t.strides[d] \in Nat
      /\ Layout(t.shape, t.strides)
  BY AllocatedIs, LayoutIs
<1>1. step \in Nat
  BY <1>0
<1> HIDE DEF step
<1>2. /\ s \in Seq(Nat) /\ Len(s) = n + 1
      /\ \A d \in 1..(n + 1) : s[d] = IF d < axis THEN t.shape[d] ELSE IF d = axis THEN 1 ELSE t.shape[d - 1]
  <2> DEFINE sh == t.shape
  <2>1. sh \in Seq(Nat) /\ axis \in 1..(Len(sh) + 1) /\ 1 \in Nat /\ n = Len(sh)
    BY <1>0
  <2> HIDE DEF sh, n
  <2>2. /\ InsertAt(sh, axis, 1) \in Seq(Nat) /\ Len(InsertAt(sh, axis, 1)) = n + 1
        /\ \A d \in 1..(n + 1) :
             InsertAt(sh, axis, 1)[d] = IF d < axis THEN sh[d] ELSE IF d = axis THEN 1 ELSE sh[d - 1]
    BY <2>1, InsertedIs
  <2> QED BY <2>2 DEF sh
<1>3. /\ u \in Seq(Nat) /\ Len(u) = n + 1
      /\ \A d \in 1..(n + 1) : u[d] = IF d < axis THEN t.strides[d] ELSE IF d = axis THEN step ELSE t.strides[d - 1]
  <2> DEFINE st == t.strides
  <2>1. st \in Seq(Nat) /\ axis \in 1..(Len(st) + 1) /\ step \in Nat /\ n = Len(st)
    BY <1>0, <1>1
  <2> HIDE DEF st, n
  <2>2. /\ InsertAt(st, axis, step) \in Seq(Nat) /\ Len(InsertAt(st, axis, step)) = n + 1
        /\ \A d \in 1..(n + 1) :
             InsertAt(st, axis, step)[d] = IF d < axis THEN st[d] ELSE IF d = axis THEN step ELSE st[d - 1]
    BY <2>1, InsertedIs
  <2> QED BY <2>2 DEF st
<1>4. unsqueeze_axis(t, axis) = RecordedView(t, s, u, t.offset, Identity)
  BY DEF unsqueeze_axis, unsqueezed_strides, step
<1> HIDE DEF s, u
<1>5. Layout(s, u)
  BY <1>2, <1>3 DEF Layout
<1>6. \A d \in 1..n : /\ m[d] \in 1..Len(s) /\ s[m[d]] = t.shape[d] /\ u[m[d]] = t.strides[d]
                      /\ m[d] # axis
  <2> SUFFICES ASSUME NEW d \in 1..n
               PROVE  /\ m[d] \in 1..Len(s) /\ s[m[d]] = t.shape[d] /\ u[m[d]] = t.strides[d]
                      /\ m[d] # axis
    OBVIOUS
  <2>1. CASE d < axis
    <3>1. m[d] = d /\ d \in 1..(n + 1)
      BY <2>1
    <3> QED BY <1>2, <1>3, <2>1, <3>1
  <2>2. CASE ~(d < axis)
    <3>1. m[d] = d + 1 /\ d + 1 \in 1..(n + 1) /\ ~(d + 1 < axis) /\ d + 1 # axis /\ (d + 1) - 1 = d
      BY <2>2
    <3> QED BY <1>2, <1>3, <3>1
  <2> QED BY <2>1, <2>2
<1>7. \A d, g \in 1..n : m[d] = m[g] => d = g
  OBVIOUS
<1>8. ASSUME NEW g \in 1..Len(s), \A d \in 1..n : m[d] # g PROVE s[g] = 1
  <2>1. CASE g < axis
    <3>1. g \in 1..n /\ m[g] = g
      BY <1>0, <2>1
    <3> QED BY <1>8, <3>1
  <2>2. CASE g > axis
    <3>1. g - 1 \in 1..n /\ m[g - 1] = g
      BY <1>0, <1>2, <2>2
    <3> QED BY <1>8, <3>1
  <2>3. CASE g = axis
    BY <1>2, <2>3
  <2> QED BY <1>0, <1>2, <2>1, <2>2, <2>3
<1> HIDE DEF m
<1>9. Reach(s, u) = Reach(t.shape, t.strides) /\ (NonEmpty(s) <=> NonEmpty(t.shape))
  <2> DEFINE sh == t.shape
             st == t.strides
  <2>1. /\ Layout(sh, st)
        /\ \A d \in 1..Len(sh) : m[d] \in 1..Len(s) /\ s[m[d]] = sh[d] /\ u[m[d]] = st[d]
        /\ \A d, g \in 1..Len(sh) : m[d] = m[g] => d = g
        /\ \A g \in 1..Len(s) : (\A d \in 1..Len(sh) : m[d] # g) => s[g] = 1
    BY <1>0, <1>6, <1>7, <1>8
  <2> HIDE DEF sh, st
  <2>2. Reach(s, u) = Reach(sh, st) /\ (NonEmpty(s) <=> NonEmpty(sh))
    BY <1>5, <2>1, EmbeddedReach
  <2> QED BY <2>2 DEF sh, st
<1> QED BY <1>4, <1>5, <1>9, SameReachAllocated

-----------------------------------------------------------------------------
(***************************************************************************)
(* The axes of a set in order, and the views that keep some of the axes.   *)
(***************************************************************************)
LEMMA RanksOf ==
  ASSUME NEW n \in Nat, NEW S \in SUBSET (1..n)
  PROVE  /\ IsFiniteSet(S) /\ Cardinality(S) \in Nat
         /\ \A x, y \in S : x < y => Cardinality(S \cap 1..x) < Cardinality(S \cap 1..y)
         /\ \A i \in 1..Cardinality(S) : \E x \in S : Cardinality(S \cap 1..x) = i
         /\ \A x \in S : Cardinality(S \cap 1..x) \in 1..Cardinality(S)
<1> DEFINE R(m) == Cardinality(S \cap 1..m)
<1>1. IsFiniteSet(S) /\ Cardinality(S) \in Nat
  <2>1. IsFiniteSet(1..n)
    BY FS_Interval
  <2> QED BY <2>1, FS_Subset, FS_CardinalityType
<1>2. \A m \in Nat : IsFiniteSet(S \cap 1..m) /\ R(m) \in Nat
  <2>1. \A m \in Nat : IsFiniteSet(S \cap 1..m)
    <3> TAKE m \in Nat
    <3>1. S \cap 1..m \in SUBSET S
      OBVIOUS
    <3> QED BY <1>1, <3>1, FS_Subset
  <2> QED BY <2>1, FS_CardinalityType
<1>3. \A a, b \in Nat : a <= b => R(a) <= R(b)
  <2> SUFFICES ASSUME NEW a \in Nat, NEW b \in Nat, a <= b PROVE R(a) <= R(b)
    OBVIOUS
  <2>1. S \cap 1..a \in SUBSET (S \cap 1..b)
    OBVIOUS
  <2> QED BY <1>2, <2>1, FS_Subset
<1>4. \A m \in Nat : /\ m + 1 \in S => R(m + 1) = R(m) + 1
                     /\ m + 1 \notin S => R(m + 1) = R(m)
  <2> TAKE m \in Nat
  <2>1. ASSUME m + 1 \in S PROVE R(m + 1) = R(m) + 1
    <3>1. S \cap 1..(m + 1) = (S \cap 1..m) \cup {m + 1} /\ m + 1 \notin S \cap 1..m
      BY <2>1
    <3> DEFINE B == S \cap 1..m
    <3>2. IsFiniteSet(B)
      BY <1>2
    <3> HIDE DEF B
    <3>3. Cardinality(B \cup {m + 1}) = Cardinality(B) + 1
      BY <3>1, <3>2, FS_AddElement DEF B
    <3> QED BY <3>1, <3>3 DEF B
  <2>2. ASSUME m + 1 \notin S PROVE R(m + 1) = R(m)
    <3>1. S \cap 1..(m + 1) = S \cap 1..m
      BY <2>2
    <3> QED BY <3>1
  <2> QED BY <2>1, <2>2
<1>5. R(0) = 0
  <2>1. S \cap 1..0 = {}
    OBVIOUS
  <2> QED BY <2>1, FS_EmptySet
<1>6. R(n) = Cardinality(S)
  <2>1. S \cap 1..n = S
    OBVIOUS
  <2> QED BY <2>1
<1> HIDE DEF R
<1>7. ASSUME NEW x \in S, NEW y \in S, x < y PROVE R(x) < R(y)
  <2>1. x \in Nat /\ y - 1 \in Nat /\ x <= y - 1 /\ (y - 1) + 1 = y
    BY <1>7
  <2>2. R(x) <= R(y - 1)
    BY <1>3, <2>1
  <2>3. R((y - 1) + 1) = R(y - 1) + 1
    BY <1>4, <2>1
  <2>4. R(y) = R(y - 1) + 1
    BY <2>1, <2>3
  <2>5. R(x) \in Nat /\ R(y - 1) \in Nat
    BY <1>2, <2>1
  <2> QED BY <2>2, <2>4, <2>5
<1> DEFINE G == {m \in Nat : \A i \in 1..R(m) : \E x \in S : R(x) = i}
<1>8. 0 \in G
  BY <1>5
<1>9. ASSUME NEW m \in Nat, m \in G PROVE m + 1 \in G
  <2> SUFFICES ASSUME NEW i \in 1..R(m + 1) PROVE \E x \in S : R(x) = i
    OBVIOUS
  <2>1. CASE i \in 1..R(m)
    BY <1>9, <2>1
  <2>2. CASE i \notin 1..R(m)
    <3>1. R(m) \in Nat /\ R(m + 1) # R(m)
      BY <1>2, <2>2
    <3>2. m + 1 \in S /\ R(m + 1) = R(m) + 1
      BY <1>4, <3>1
    <3>3. R(m + 1) = i
      BY <2>2, <3>1, <3>2
    <3> QED BY <3>2, <3>3
  <2> QED BY <2>1, <2>2
<1> HIDE DEF G
<1>10. n \in G
  BY <1>8, <1>9, NatSetInduction
<1>11. \A i \in 1..Cardinality(S) : \E x \in S : R(x) = i
  BY <1>6, <1>10 DEF G
<1>12. ASSUME NEW x \in S PROVE R(x) \in 1..Cardinality(S)
  <2>1. x \in Nat /\ x <= n /\ x - 1 \in Nat /\ (x - 1) + 1 = x
    OBVIOUS
  <2>2. R((x - 1) + 1) = R(x - 1) + 1
    BY <1>4, <2>1
  <2>3. R(x) = R(x - 1) + 1 /\ R(x) <= R(n)
    BY <1>3, <2>1, <2>2
  <2>4. R(x) \in Nat /\ R(x - 1) \in Nat /\ R(n) \in Nat
    BY <1>2, <2>1
  <2> QED BY <1>6, <2>3, <2>4
<1> QED BY <1>1, <1>7, <1>11, <1>12 DEF R

LEMMA AscendingIs ==
  ASSUME NEW n \in Nat, NEW S \in SUBSET (1..n)
  PROVE  LET a == Ascending(S) IN
         /\ Cardinality(S) \in Nat /\ DOMAIN a = 1..Cardinality(S)
         /\ \A k \in 1..Cardinality(S) : a[k] \in S
         /\ \A k, l \in 1..Cardinality(S) : a[k] = a[l] => k = l
         /\ \A x \in S : \E k \in 1..Cardinality(S) : a[k] = x
<1> DEFINE a == Ascending(S)
           c == Cardinality(S)
           R(x) == Cardinality(S \cap 1..x)
<1>1. /\ c \in Nat
      /\ \A x, y \in S : x < y => R(x) < R(y)
      /\ \A i \in 1..c : \E x \in S : R(x) = i
      /\ \A x \in S : R(x) \in 1..c
  BY RanksOf
<1>2. DOMAIN a = 1..c /\ \A k \in 1..c : a[k] = CHOOSE x \in S : R(x) = k
  BY DEF Ascending
<1> HIDE DEF a, c, R
<1>3. \A k \in 1..c : a[k] \in S /\ R(a[k]) = k
  BY <1>1, <1>2
<1>4. \A x, y \in S : R(x) = R(y) => x = y
  <2> SUFFICES ASSUME NEW x \in S, NEW y \in S, R(x) = R(y) PROVE x = y
    OBVIOUS
  <2>1. x \in Nat /\ y \in Nat /\ R(x) \in Nat /\ R(y) \in Nat
    BY <1>1
  <2>2. ~(x < y) /\ ~(y < x)
    <3>1. x < y => R(x) < R(y)
      BY <1>1
    <3>2. y < x => R(y) < R(x)
      BY <1>1
    <3> QED BY <2>1, <3>1, <3>2
  <2> QED BY <2>1, <2>2
<1>5. \A x \in S : R(x) \in 1..c /\ a[R(x)] = x
  BY <1>1, <1>3, <1>4
<1> QED BY <1>1, <1>2, <1>3, <1>5 DEF a, c

Embedding(m, c, n) ==
  (\A d \in 1..c : m[d] \in 1..n) /\ (\A d, g \in 1..c : m[d] = m[g] => d = g)

LEMMA PickedReach ==
  ASSUME NEW shape, NEW strides, Layout(shape, strides), NEW c \in Nat, NEW m,
         Embedding(m, c, Len(shape)),
         \A g \in 1..Len(shape) : (\A d \in 1..c : m[d] # g) => shape[g] = 1,
         NEW s, NEW u, Layout(s, u), Len(s) = c,
         \A d \in 1..c : s[d] = shape[m[d]] /\ u[d] = strides[m[d]]
  PROVE  Reach(s, u) = Reach(shape, strides) /\ (NonEmpty(s) <=> NonEmpty(shape))
<1>3. \A d \in 1..Len(s) : m[d] \in 1..Len(shape) /\ shape[m[d]] = s[d] /\ strides[m[d]] = u[d]
  BY DEF Embedding
<1>4. \A d, g \in 1..Len(s) : m[d] = m[g] => d = g
  BY DEF Embedding
<1>5. \A g \in 1..Len(shape) : (\A d \in 1..Len(s) : m[d] # g) => shape[g] = 1
  OBVIOUS
<1>6. Reach(shape, strides) = Reach(s, u) /\ (NonEmpty(shape) <=> NonEmpty(s))
  BY <1>3, <1>4, <1>5, EmbeddedReach
<1> QED BY <1>6

LEMMA SqueezedAllocated ==
  ASSUME NEW t, Allocated(t), NEW selected
  PROVE  Allocated(squeeze_selected(t, selected))
<1> DEFINE n == Len(t.shape)
           S == {d \in DOMAIN t.shape : d \notin selected \/ t.shape[d] # 1}
           m == Ascending(S)
           c == Cardinality(S)
           s == [k \in 1..c |-> t.shape[m[k]]]
           u == [k \in 1..c |-> t.strides[m[k]]]
<1>0. n \in Nat /\ S \in SUBSET (1..n) /\ Layout(t.shape, t.strides) /\ DOMAIN t.shape = 1..n
  BY AllocatedIs
<1>s. \A d \in 1..n : d \notin S => t.shape[d] = 1
  BY <1>0
<1>1. squeeze_selected(t, selected)
        = RecordedView(t, [k \in DOMAIN m |-> t.shape[m[k]]], [k \in DOMAIN m |-> t.strides[m[k]]],
                       t.offset, Identity)
  BY DEF squeeze_selected, Remaining
<1> HIDE DEF S
<1>2. /\ c \in Nat /\ DOMAIN m = 1..c
      /\ \A k \in 1..c : m[k] \in S
      /\ \A k, l \in 1..c : m[k] = m[l] => k = l
      /\ \A x \in S : \E k \in 1..c : m[k] = x
  BY <1>0, AscendingIs
<1>3. squeeze_selected(t, selected) = RecordedView(t, s, u, t.offset, Identity)
  BY <1>1, <1>2
<1>4. \A k \in 1..c : m[k] \in 1..n
  BY <1>0, <1>2
<1>5. \A g \in 1..n : (\A d \in 1..c : m[d] # g) => t.shape[g] = 1
  BY <1>2, <1>s
<1> HIDE DEF m, c
<1> HIDE DEF s, u
<1>6. /\ Layout(s, u) /\ Len(s) = c
      /\ \A d \in 1..c : s[d] = t.shape[m[d]] /\ u[d] = t.strides[m[d]]
  <2> DEFINE sh == t.shape
             st == t.strides
             p == [k \in 1..c |-> sh[m[k]]]
             q == [k \in 1..c |-> st[m[k]]]
  <2>1. Layout(sh, st) /\ c \in Nat /\ \A d \in 1..c : m[d] \in 1..Len(sh)
    BY <1>0, <1>2, <1>4
  <2> HIDE DEF sh, st
  <2>2. Layout(p, q) /\ Len(p) = c /\ \A d \in 1..c : p[d] = sh[m[d]] /\ q[d] = st[m[d]]
    BY <2>1, PickedLayout
  <2> QED BY <2>2 DEF p, q, sh, st, s, u
<1>7. Reach(s, u) = Reach(t.shape, t.strides) /\ (NonEmpty(s) <=> NonEmpty(t.shape))
  <2> DEFINE sh == t.shape
             st == t.strides
  <2>1. /\ Layout(sh, st) /\ c \in Nat /\ Layout(s, u) /\ Len(s) = c
        /\ Embedding(m, c, Len(sh))
        /\ \A g \in 1..Len(sh) : (\A d \in 1..c : m[d] # g) => sh[g] = 1
        /\ \A d \in 1..c : s[d] = sh[m[d]] /\ u[d] = st[m[d]]
    BY <1>0, <1>2, <1>4, <1>5, <1>6 DEF Embedding
  <2> HIDE DEF sh, st
  <2>2. Reach(s, u) = Reach(sh, st) /\ (NonEmpty(s) <=> NonEmpty(sh))
    BY <2>1, PickedReach
  <2> QED BY <2>2 DEF sh, st
<1> QED BY <1>3, <1>6, <1>7, SameReachAllocated

(***************************************************************************)
(* transpose and its relatives permute the axes.                           *)
(***************************************************************************)
LEMMA NormalizedDimension ==
  ASSUME NEW rank \in Nat, NEW dimension \in Int,
         NEW axis \in normalize_transpose_dimension(dimension, rank)
  PROVE  axis \in Nat /\ axis >= 1 /\ axis <= (IF rank = 0 THEN 1 ELSE rank)
<1> DEFINE e == Max({rank, 1})
<1>1. e = IF rank = 0 THEN 1 ELSE rank
  BY DEF Max
<1>2. /\ dimension \in (-e)..(e - 1)
      /\ axis = (IF dimension < 0 THEN dimension + e ELSE dimension) + 1
  BY DEF normalize_transpose_dimension
<1> HIDE DEF e
<1> QED BY <1>1, <1>2

LEMMA TransposedAllocated ==
  ASSUME NEW t, Allocated(t), NEW dim0 \in Int, NEW dim1 \in Int, NEW r \in transpose(t, dim0, dim1)
  PROVE  Allocated(r)
<1> DEFINE n == Len(t.shape)
<1>0. n \in Nat
  BY AllocatedIs
<1>1. PICK first \in normalize_transpose_dimension(dim0, n),
           second \in normalize_transpose_dimension(dim1, n) :
             r \in permute_axes(t, Swapped(n, first, second))
  BY DEF transpose
<1>2. \A d \in 1..n : first \in 1..n /\ second \in 1..n
  BY <1>0, NormalizedDimension
<1>3. Swapped(n, first, second) \in [1..n -> 1..n]
  BY <1>2 DEF Swapped
<1> QED BY <1>1, <1>3, PermutedAllocated

LEMMA ReversedAllocated ==
  ASSUME NEW t, Allocated(t), NEW r \in reverse_dimensions(t)
  PROVE  Allocated(r)
<1>1. Len(t.shape) \in Nat
  BY AllocatedIs
<1>2. RowMajor(Len(t.shape)) \in [1..Len(t.shape) -> 1..Len(t.shape)]
  BY <1>1 DEF RowMajor
<1> QED BY <1>2, PermutedAllocated DEF reverse_dimensions

LEMMA MatrixTransposedAllocated ==
  ASSUME NEW t, Allocated(t), NEW r \in matrix_transpose(t)
  PROVE  Allocated(r)
<1>1. Len(t.shape) \in Nat
  BY AllocatedIs
<1>2. CASE Len(t.shape) = 0
  BY <1>2, AliasAllocated DEF matrix_transpose
<1>3. CASE Len(t.shape) = 1
  BY <1>3 DEF matrix_transpose
<1>4. CASE Len(t.shape) \notin {0, 1}
  <2> DEFINE first == -2
             second == -1
  <2>1. first \in Int /\ second \in Int
    OBVIOUS
  <2>2. r \in transpose(t, first, second)
    BY <1>4 DEF matrix_transpose
  <2> HIDE DEF first, second
  <2> QED BY <2>1, <2>2, TransposedAllocated
<1> QED BY <1>2, <1>3, <1>4

-----------------------------------------------------------------------------
(***************************************************************************)
(* Slices and selections: the bounds are checked before the view is made,  *)
(* and the offset they are checked at is a natural number.                 *)
(***************************************************************************)
LEMMA StepsNat == ASSUME NEW a \in Nat, NEW b \in Nat, NEW c \in Nat PROVE a + b * c \in Nat
<1>1. b * c \in Nat
  OBVIOUS
<1> HIDE <1>1
<1> QED BY <1>1

LEMMA SlicedAllocated ==
  ASSUME NEW t, Allocated(t), NEW dimension \in 1..Len(t.shape), NEW start \in Nat,
         NEW length \in Nat, NEW r \in slice_dimension(t, dimension, start, length)
  PROVE  Allocated(r)
<1> DEFINE n == Len(t.shape)
           s == [t.shape EXCEPT ![dimension] = length]
           offset == checked_offset(t, dimension, start)
           mapping == [kind |-> "slice", dimension |-> dimension, start |-> start, length |-> length]
<1>1. /\ validate_view_bounds(s, t.strides, offset, Len(t.storage))
      /\ r = RecordedView(t, s, t.strides, offset, mapping)
  BY DEF slice_dimension, When
<1>2. /\ n \in Nat /\ t.shape \in Seq(Nat) /\ t.strides \in Seq(Nat) /\ Len(t.strides) = n
      /\ t.offset \in Nat /\ t.strides[dimension] \in Nat
  BY AllocatedIs, LayoutIs
<1>3. s \in Seq(Nat) /\ Len(s) = n
  BY <1>2
<1>4. offset \in Nat
  BY <1>2, StepsNat DEF checked_offset
<1> HIDE DEF s, offset, mapping
<1>5. Layout(s, t.strides)
  BY <1>2, <1>3 DEF Layout
<1> QED BY <1>1, <1>4, <1>5, ViewAllocated

LEMMA TotalNat == ASSUME NEW s \in Seq(Nat) PROVE Total(s) \in Nat
<1>1. DOMAIN s = 1..Len(s) /\ Len(s) \in Nat /\ \A k \in 1..Len(s) : s[k] \in Nat
  OBVIOUS
<1>2. IsFiniteSet(1..Len(s))
  BY <1>1, FS_Interval
<1> QED BY <1>1, <1>2, TotalIs, SumType

LEMMA QuotientIs ==
  ASSUME NEW a \in Nat, NEW b \in Nat \ {0}
  PROVE  /\ a \div b \in Nat /\ b * (a \div b) <= a /\ a < b * (a \div b) + b
OBVIOUS

\* What is left of an extent for the k-th piece of this width.
LEMMA PieceLength ==
  ASSUME NEW size \in Nat, NEW width \in Nat \ {0}, NEW k \in 1..((size + width - 1) \div width)
  PROVE  Min({width, size - width * (k - 1)}) \in Nat
<1> DEFINE q == (size + width - 1) \div width
           a == width * q
           b == width * k
<1>1. size + width - 1 \in Nat
  OBVIOUS
<1>2. q \in Nat /\ a <= size + width - 1
  BY <1>1, QuotientIs
<1> HIDE DEF q
<1>3. k \in Nat /\ k <= q
  BY <1>2 DEF q
<1>4. b <= a /\ a \in Nat /\ b \in Nat
  <2>1. \A i, j \in Nat : i <= j => width * i <= width * j
    <3> SUFFICES ASSUME NEW i \in Nat, NEW j \in Nat, i <= j PROVE width * i <= width * j
      OBVIOUS
    <3>1. PICK e \in Nat : j = i + e
      <4>1. j - i \in Nat /\ j = i + (j - i)
        OBVIOUS
      <4> QED BY <4>1
    <3>2. width * j = width * i + width * e
      BY <3>1
    <3>3. width * e \in Nat /\ width * i \in Nat
      OBVIOUS
    <3> HIDE <3>1
    <3> QED BY <3>2, <3>3
  <2>2. width * q \in Nat /\ width * k \in Nat
    BY <1>2, <1>3
  <2> QED BY <1>2, <1>3, <2>1, <2>2
<1>5. width * (k - 1) = b - width
  BY <1>3
<1> HIDE DEF a, b
<1>6. size - width * (k - 1) \in Nat
  BY <1>2, <1>4, <1>5
<1> DEFINE left == size - width * (k - 1)
<1> HIDE DEF left
<1>7. left \in Nat
  BY <1>6 DEF left
<1>8. Min({width, left}) \in Nat
  <2>1. \E x \in {width, left} : \A y \in {width, left} : x <= y
    BY <1>7
  <2> QED BY <1>7, <2>1 DEF Min
<1> QED BY <1>8 DEF left

LEMMA SplitLengths ==
  ASSUME NEW size \in Nat, NEW width \in Nat \ {0}
  PROVE  split_lengths(size, width) \in Seq(Nat)
<1> DEFINE c == IF size = 0 THEN 1 ELSE (size + width - 1) \div width
           s == split_lengths(size, width)
<1>1. c \in Nat
  <2>1. size + width - 1 \in Nat
    OBVIOUS
  <2> QED BY <2>1, QuotientIs
<1>2. ASSUME NEW k \in 1..c PROVE Min({width, size - width * (k - 1)}) \in Nat
  <2>1. CASE size # 0
    BY <2>1, PieceLength
  <2>2. CASE size = 0
    <3>1. size - width * (k - 1) = 0
      BY <2>2
    <3>2. Min({width, 0}) \in Nat
      BY DEF Min
    <3> QED BY <3>1, <3>2
  <2> QED BY <2>1, <2>2
<1>3. s = [k \in 1..c |-> Min({width, size - width * (k - 1)})]
  BY DEF split_lengths
<1> HIDE DEF c
<1>4. s \in [1..c -> Nat]
  BY <1>2, <1>3
<1> HIDE DEF s
<1>5. s \in Seq(Nat)
  BY <1>1, <1>4
<1> QED BY <1>5 DEF s

LEMMA ChunkLengths ==
  ASSUME NEW size \in Nat, NEW chunks \in Nat \ {0}
  PROVE  chunk_lengths(size, chunks) \in Seq(Nat)
<1> DEFINE width == (size + chunks - 1) \div chunks
           c == IF size = 0 THEN chunks ELSE (size + width - 1) \div width
           s == chunk_lengths(size, chunks)
<1>0. /\ size + chunks - 1 \in Nat /\ width \in Nat
      /\ chunks * width <= size + chunks - 1 /\ size + chunks - 1 < chunks * width + chunks
  <2>1. size + chunks - 1 \in Nat
    OBVIOUS
  <2> QED BY <2>1, QuotientIs
<1>s. s = [k \in 1..c |-> Min({width, size - width * (k - 1)})]
  BY DEF chunk_lengths
<1> HIDE DEF s, width
<1>1. size # 0 => width # 0
  BY <1>0
<1>2. c \in Nat
  <2>1. CASE size = 0
    BY <2>1
  <2>2. CASE size # 0
    <3>1. size + width - 1 \in Nat /\ width \in Nat \ {0}
      BY <1>0, <1>1, <2>2
    <3>2. (size + width - 1) \div width \in Nat
      BY <3>1, QuotientIs
    <3> QED BY <2>2, <3>2
  <2> QED BY <2>1, <2>2
<1>3. ASSUME NEW k \in 1..c PROVE Min({width, size - width * (k - 1)}) \in Nat
  <2>1. CASE size # 0
    BY <1>0, <1>1, <2>1, PieceLength
  <2>2. CASE size = 0
    <3>1. width = 0
      <4>1. CASE width # 0
        <5>1. chunks * width >= chunks
          BY <1>0, <4>1
        <5>2. chunks * width \in Nat
          BY <1>0
        <5> DEFINE p == chunks * width
        <5> HIDE DEF p
        <5>3. p \in Nat /\ p >= chunks /\ p <= chunks - 1
          BY <1>0, <2>2, <5>1, <5>2 DEF p
        <5> QED BY <5>3
      <4> QED BY <4>1
    <3>2. size - width * (k - 1) = 0
      BY <2>2, <3>1
    <3>3. Min({0, 0}) \in Nat
      BY DEF Min
    <3> QED BY <3>1, <3>2, <3>3
  <2> QED BY <2>1, <2>2
<1> HIDE DEF c
<1>4. s \in [1..c -> Nat]
  BY <1>3, <1>s
<1>5. s \in Seq(Nat)
  BY <1>2, <1>4
<1> QED BY <1>5 DEF s

LEMMA PartitionAllocated ==
  ASSUME NEW t, Allocated(t), NEW dimension \in 1..Len(t.shape), NEW lengths \in Seq(Nat),
         NEW k \in DOMAIN lengths, NEW r \in partition_dimension(t, dimension, lengths, k)
  PROVE  Allocated(r)
<1>1. SubSeq(lengths, 1, k - 1) \in Seq(Nat) /\ lengths[k] \in Nat
  OBVIOUS
<1>2. Total(SubSeq(lengths, 1, k - 1)) \in Nat
  BY <1>1, TotalNat
<1> QED BY <1>1, <1>2, SlicedAllocated DEF partition_dimension

LEMMA SelectedAllocated ==
  ASSUME NEW t, Allocated(t), NEW dimension \in 1..Len(t.shape), NEW index \in Int,
         NEW r \in select_dimension(t, dimension, index)
  PROVE  Allocated(r)
<1> DEFINE n == Len(t.shape)
           at == IF index < 0 THEN t.shape[dimension] + index ELSE index
           s == RemoveAt(t.shape, dimension)
           u == RemoveAt(t.strides, dimension)
           offset == checked_offset(t, dimension, at)
           mapping == [kind |-> "select", dimension |-> dimension, index |-> at]
<1>1. /\ at \in Linear(t.shape[dimension])
      /\ validate_view_bounds(s, u, offset, Len(t.storage))
      /\ r = RecordedView(t, s, u, offset, mapping)
  BY DEF select_dimension, When
<1>2. /\ n \in Nat /\ t.shape \in Seq(Nat) /\ t.strides \in Seq(Nat) /\ Len(t.strides) = n
      /\ t.offset \in Nat /\ t.strides[dimension] \in Nat
      /\ dimension \in DOMAIN t.shape /\ dimension \in DOMAIN t.strides
  BY AllocatedIs, LayoutIs
<1>3. s \in Seq(Nat) /\ Len(s) = n - 1 /\ u \in Seq(Nat) /\ Len(u) = n - 1
  <2> DEFINE sh == t.shape
             st == t.strides
  <2>1. sh \in Seq(Nat) /\ st \in Seq(Nat) /\ dimension \in DOMAIN sh /\ dimension \in DOMAIN st
    BY <1>2
  <2> HIDE DEF sh, st
  <2>2. /\ RemoveAt(sh, dimension) \in Seq(Nat) /\ Len(RemoveAt(sh, dimension)) = Len(sh) - 1
        /\ RemoveAt(st, dimension) \in Seq(Nat) /\ Len(RemoveAt(st, dimension)) = Len(st) - 1
    BY <2>1, RemovedAt
  <2> QED BY <1>2, <2>2 DEF sh, st
<1>4. at \in Nat
  BY <1>1 DEF Linear
<1> HIDE DEF at, s, u, mapping
<1>5. offset \in Nat
  BY <1>2, <1>4, StepsNat DEF checked_offset
<1>6. Layout(s, u)
  BY <1>3 DEF Layout
<1> HIDE DEF offset
<1> QED BY <1>1, <1>5, <1>6, ViewAllocated

LEMMA LeadingIs ==
  ASSUME NEW shape \in Seq(Nat), NEW strides \in Seq(Nat), Len(strides) = Len(shape),
         NEW n \in Nat, n <= Len(shape)
  PROVE  LET s == SubSeq(shape, n + 1, Len(shape))
             u == SubSeq(strides, n + 1, Len(shape))
             leading == SubSeq(strides, 1, n)
         IN  /\ s \in Seq(Nat) /\ u \in Seq(Nat) /\ Len(s) = Len(shape) - n /\ Len(u) = Len(shape) - n
             /\ leading \in Seq(Nat) /\ Len(leading) = n
OBVIOUS

LEMMA IndexedAllocated ==
  ASSUME NEW t, Allocated(t), NEW indices \in Seq(Int), Len(indices) <= Len(t.shape),
         NEW r \in index_dimensions(t, indices)
  PROVE  Allocated(r)
<1> DEFINE n == Len(indices)
           at == [d \in 1..n |-> IF indices[d] < 0 THEN t.shape[d] + indices[d] ELSE indices[d]]
           s == SubSeq(t.shape, n + 1, Len(t.shape))
           u == SubSeq(t.strides, n + 1, Len(t.shape))
           leading == SubSeq(t.strides, 1, n)
           w == [axis \in DOMAIN leading |-> at[axis] * leading[axis]]
           offset == Address(leading, t.offset, at)
           prefix == FoldLeft(LAMBDA index, d : index * t.shape[d] + at[d], 0, [d \in 1..n |-> d])
           mapping == [kind |-> "index", start |-> prefix * element_count(s)]
<1>1. /\ \A d \in 1..n : at[d] \in Linear(t.shape[d])
      /\ validate_view_bounds(s, u, offset, Len(t.storage))
      /\ r = RecordedView(t, s, u, offset, mapping)
  BY DEF index_dimensions, When
<1>2. /\ n \in Nat /\ t.shape \in Seq(Nat) /\ t.strides \in Seq(Nat) /\ Len(t.strides) = Len(t.shape)
      /\ t.offset \in Nat /\ Len(t.shape) \in Nat
  BY AllocatedIs, LayoutIs
<1>n. n <= Len(t.shape)
  OBVIOUS
<1>a. ASSUME NEW d \in 1..n PROVE at[d] \in Nat
  <2> HIDE DEF at
  <2>1. at[d] \in Linear(t.shape[d])
    BY <1>1
  <2> QED BY <2>1 DEF Linear
<1> HIDE DEF n, at, prefix, mapping
<1>3. /\ s \in Seq(Nat) /\ u \in Seq(Nat) /\ Len(s) = Len(t.shape) - n /\ Len(u) = Len(t.shape) - n
      /\ leading \in Seq(Nat) /\ Len(leading) = n
  BY <1>2, <1>n, LeadingIs
<1>4. \A d \in 1..n : at[d] \in Nat
  BY <1>a
<1> HIDE DEF s, u, leading
<1>6. DOMAIN leading = 1..n /\ \A d \in 1..n : leading[d] \in Nat
  BY <1>3
<1>7. DOMAIN w = 1..n /\ \A d \in 1..n : w[d] \in Nat
  BY <1>4, <1>6
<1>8. offset = t.offset + Total(w)
  BY DEF Address
<1> HIDE DEF w, offset
<1>9. Total(w) \in Nat
  <2>1. IsFiniteSet(1..n)
    BY <1>2, FS_Interval
  <2> QED BY <1>7, <2>1, TotalIs, SumType
<1>10. offset \in Nat /\ Layout(s, u)
  BY <1>2, <1>3, <1>8, <1>9 DEF Layout
<1> QED BY <1>1, <1>10, ViewAllocated

-----------------------------------------------------------------------------
(***************************************************************************)
(* Copies.                                                                 *)
(***************************************************************************)
LEMMA PackedAllocated ==
  ASSUME NEW t, Allocated(t), NEW strides, LaysOut(t.shape, strides)
  PROVE  LET r == Packed(t, strides)
         IN  Allocated(r) /\ r.shape = t.shape /\ Len(r.storage) = elements(t)
<1> DEFINE data == materialize_with_strides(t, strides, Copied)
           pull == record_transform(t, Identity, elements(t))
           r == from_owned_parts(t, data, t.shape, strides, pull)
<1>1. Packed(t, strides) = r
  BY DEF Packed
<1>2. Stored(data, element_count(t.shape)) /\ elements(t) = element_count(t.shape) /\ elements(t) \in Nat
  BY AllocatedIs, MaterializedStored
<1>3. DOMAIN t = Fields
  BY DEF Allocated
<1>4. r.shape = t.shape /\ r.storage = data
  BY <1>3 DEF from_owned_parts, Fields
<1> HIDE DEF data, pull
<1>5. Allocated(r)
  BY <1>2, OwnedAllocated
<1>6. Len(data) = elements(t)
  BY <1>2 DEF Stored
<1> QED BY <1>1, <1>4, <1>5, <1>6

LEMMA AliasIs ==
  ASSUME NEW t, Allocated(t)
  PROVE  /\ Allocated(metadata_alias(t)) /\ metadata_alias(t).shape = t.shape
         /\ metadata_alias(t).storage = t.storage
<1>1. DOMAIN t = Fields
  BY DEF Allocated
<1>2. metadata_alias(t).shape = t.shape /\ metadata_alias(t).storage = t.storage
  BY <1>1 DEF metadata_alias, RecordedView, ViewOf, Fields
<1> QED BY <1>2, AliasAllocated

LEMMA FormatLays ==
  ASSUME NEW t, Allocated(t), NEW format, format = "channels_last" => Len(t.shape) = 4
  PROVE  LaysOut(t.shape, format_strides(t, format))
<1>1. CASE format = "channels_last"
  BY <1>1, AllocatedIs, ChannelsLastLays DEF format_strides
<1>2. CASE format # "channels_last"
  BY <1>2, ChosenLays DEF format_strides
<1> QED BY <1>1, <1>2

LEMMA ContiguousStorage ==
  ASSUME NEW t, Allocated(t), is_contiguous(t)
  PROVE  elements(t) <= Len(t.storage)
<1>1. Compact(t.shape, t.strides)
  BY AllocatedIs, ContiguousIs DEF is_contiguous
<1>2. /\ elements(t) = element_count(t.shape) /\ elements(t) \in Nat /\ t.offset \in Nat
      /\ Len(t.storage) \in Nat
      /\ NonEmpty(t.shape) => t.offset + Reach(t.shape, t.strides) < Len(t.storage)
      /\ NonEmpty(t.shape) <=> element_count(t.shape) # 0
  BY AllocatedIs, NonEmptyIs
<1>3. CASE NonEmpty(t.shape)
  BY <1>1, <1>2, <1>3 DEF Compact
<1>4. CASE ~NonEmpty(t.shape)
  BY <1>2, <1>4
<1> QED BY <1>3, <1>4

LEMMA ContiguousAllocated ==
  ASSUME NEW t, Allocated(t), NEW format, NEW reuse, NEW r \in try_contiguous_impl(t, format, reuse)
  PROVE  /\ Allocated(r) /\ r.shape = t.shape
         /\ format = "contiguous" => elements(t) <= Len(r.storage)
<1>1. format = "channels_last" => Len(t.shape) = 4
  BY DEF try_contiguous_impl
<1>2. \/ has_format(t, format) /\ r = metadata_alias(t)
      \/ r = Packed(t, format_strides(t, format))
  BY DEF try_contiguous_impl, When
<1>3. CASE has_format(t, format) /\ r = metadata_alias(t)
  <2>1. format = "contiguous" => is_contiguous(t)
    BY <1>3 DEF has_format
  <2> QED BY <1>3, <2>1, AliasIs, ContiguousStorage
<1>4. CASE r = Packed(t, format_strides(t, format))
  <2>1. Allocated(r) /\ r.shape = t.shape /\ Len(r.storage) = elements(t)
    BY <1>1, <1>4, FormatLays, PackedAllocated
  <2>2. elements(t) \in Nat
    BY AllocatedIs
  <2> QED BY <2>1, <2>2
<1> QED BY <1>2, <1>3, <1>4

LEMMA ClonedAllocated ==
  ASSUME NEW t, Allocated(t), NEW format, NEW r \in try_clone_with_memory_format(t, format)
  PROVE  Allocated(r)
<1> DEFINE strides == IF format = "preserve" THEN preserve_format_strides(t) ELSE format_strides(t, format)
<1>1. (format = "channels_last" => Len(t.shape) = 4) /\ r = Packed(t, strides)
  BY DEF try_clone_with_memory_format, When
<1>2. LaysOut(t.shape, strides)
  BY <1>1, ChosenLays, FormatLays
<1> HIDE DEF strides
<1> QED BY <1>1, <1>2, PackedAllocated

LEMMA CopiedAllocated ==
  ASSUME NEW t, Allocated(t), NEW format, NEW r \in try_copy_with_memory_format(t, format)
  PROVE  Allocated(r)
<1>1. CASE format = "preserve"
  BY <1>1, ClonedAllocated DEF try_copy_with_memory_format
<1>2. CASE format # "preserve"
  BY <1>2, ContiguousAllocated DEF try_copy_with_memory_format
<1> QED BY <1>1, <1>2

LEMMA SentAllocated ==
  ASSUME NEW t, Allocated(t), NEW r \in try_copy_cpu_to_cuda(t)
  PROVE  Allocated(r)
<1> DEFINE strides == preserve_format_strides(t)
           data == IF has_dense_slice(t) THEN physical_slice(t)
                   ELSE materialize_with_strides(t, strides, Copied)
           s == from_owned_parts(t, data, t.shape, strides, <<>>)
<1>1. r = [s EXCEPT !.device = "cuda", !.owned = FALSE]
  BY DEF try_copy_cpu_to_cuda, When
<1>2. LaysOut(t.shape, strides)
  BY ChosenLays
<1> HIDE DEF strides
<1>3. Stored(data, element_count(t.shape))
  BY AllocatedIs, PhysicalStored, MaterializedStored
<1> HIDE DEF data
<1>4. Allocated(s)
  BY <1>2, <1>3, OwnedAllocated
<1> HIDE DEF s
<1>5. DOMAIN s = Fields
  BY <1>4 DEF Allocated
<1>6. /\ DOMAIN r = Fields /\ r.shape = s.shape /\ r.strides = s.strides /\ r.offset = s.offset
      /\ r.storage = s.storage
  BY <1>1, <1>5 DEF Fields
<1> QED BY <1>4, <1>6 DEF Allocated

LEMMA ReturnedAllocated ==
  ASSUME NEW t, Allocated(t), NEW r \in try_copy_cuda_to_cpu(t)
  PROVE  Allocated(r)
<1> DEFINE strides == preserve_format_strides(t)
           arrived(data) == [t EXCEPT !.device = "cpu", !.owned = TRUE, !.storage = data,
                                      !.strides = strides, !.offset = 0]
           n == elements(t)
<1>1. LaysOut(t.shape, strides)
  BY ChosenLays
<1>2. n = element_count(t.shape) /\ n \in Nat
  BY AllocatedIs
<1>3. ASSUME NEW data, Stored(data, n) PROVE Allocated(arrived(data))
  <2> DEFINE s == arrived(data)
  <2>1. DOMAIN t = Fields
    BY DEF Allocated
  <2> HIDE DEF strides
  <2>2. /\ DOMAIN s = Fields /\ s.shape = t.shape /\ s.strides = strides /\ s.offset = 0
        /\ s.storage = data
    BY <2>1 DEF Fields
  <2> HIDE DEF s
  <2>3. data \in Seq(Range(data)) /\ Len(data) = element_count(t.shape)
    BY <1>2, <1>3 DEF Stored
  <2>4. validate_view_bounds(t.shape, strides, 0, element_count(t.shape))
    BY <1>1, FilledBounds
  <2>5. Allocated(s)
    BY <1>1, <2>2, <2>3, <2>4 DEF Allocated, LaysOut, Layout
  <2> QED BY <2>5 DEF s
<1>4. Stored(physical_slice(t), n)
  BY PhysicalStored
<1>5. ASSUME NEW order PROVE Stored(copy_cuda_packed(t, order), n)
  <2> DEFINE s == copy_cuda_packed(t, order)
  <2>1. DOMAIN s = 1..n /\ s = [k \in 1..n |-> s[k]]
    BY DEF copy_cuda_packed
  <2> HIDE DEF s, n
  <2>2. Stored(s, n)
    BY <1>2, <2>1, FunctionStored
  <2> QED BY <2>2 DEF s
<1>6. \/ r \in try_clone_with_memory_format(t, "preserve")
      \/ r = arrived(physical_slice(t))
      \/ \E order : r = arrived(copy_cuda_packed(t, order))
  BY DEF try_copy_cuda_to_cpu
<1> HIDE DEF arrived, n
<1> QED BY <1>3, <1>4, <1>5, <1>6, ClonedAllocated

-----------------------------------------------------------------------------
(***************************************************************************)
(* Reshapes: a view when the strides allow one, otherwise a packed copy.   *)
(***************************************************************************)
LEMMA ResolvedShape ==
  ASSUME NEW requested \in Seq(Int), NEW n \in Nat, NEW shape \in resolve_reshape_shape(requested, n)
  PROVE  shape \in Seq(Nat) /\ element_count(shape) = n
<1> DEFINE rank == Len(requested)
           inferred == {axis \in DOMAIN requested : requested[axis] = -1}
           factors == [axis \in DOMAIN requested |-> IF axis \in inferred THEN 1 ELSE requested[axis]]
           given == Product(factors)
           resolved == [axis \in DOMAIN requested |->
                          IF axis \in inferred THEN n \div given ELSE requested[axis]]
<1>1. /\ \A axis \in DOMAIN requested : ~(requested[axis] < -1)
      /\ inferred = {} \/ given # 0
      /\ shape = resolved /\ element_count(shape) = n
  BY DEF resolve_reshape_shape
<1>2. rank \in Nat /\ DOMAIN requested = 1..rank /\ \A d \in 1..rank : requested[d] \in Int
  OBVIOUS
<1>a. ASSUME NEW d \in 1..rank
      PROVE  /\ requested[d] >= -1 /\ (d \in inferred <=> requested[d] = -1)
             /\ factors[d] = IF d \in inferred THEN 1 ELSE requested[d]
             /\ resolved[d] = IF d \in inferred THEN n \div given ELSE requested[d]
  <2>1. d \in DOMAIN requested /\ requested[d] \in Int
    BY <1>2
  <2>2. ~(requested[d] < -1)
    BY <1>1, <2>1
  <2>3. d \in inferred <=> requested[d] = -1
    BY <2>1
  <2> HIDE DEF inferred
  <2>4. factors[d] = IF d \in inferred THEN 1 ELSE requested[d]
    BY <2>1
  <2> HIDE DEF given
  <2>5. resolved[d] = IF d \in inferred THEN n \div given ELSE requested[d]
    BY <2>1
  <2> QED BY <2>1, <2>2, <2>3, <2>4, <2>5
<1>4. /\ DOMAIN factors = 1..rank
      /\ DOMAIN resolved = 1..rank /\ resolved = [d \in 1..rank |-> resolved[d]]
  BY <1>2
<1>b. inferred = {} \/ given # 0
  BY <1>1
<1>c. shape = resolved /\ element_count(shape) = n
  BY <1>1
<1> HIDE DEF resolved, factors, given, rank, inferred
<1>3. \A d \in 1..rank : factors[d] \in Nat
  BY <1>2, <1>a
<1>5. given \in Nat
  <2>1. IsFiniteSet(1..rank)
    BY <1>2, FS_Interval
  <2> QED BY <1>3, <1>4, <2>1, ProductIs, ProductType DEF given
<1>6. given # 0 => n \div given \in Nat
  BY <1>5, QuotientIs
<1>7. \A d \in 1..rank : resolved[d] \in Nat
  BY <1>2, <1>6, <1>a, <1>b
<1>8. resolved \in Seq(Nat)
  BY <1>2, <1>4, <1>7, FunctionSeq
<1> QED BY <1>8, <1>c

\* Views of a shape with no element where the tensor has none.
LEMMA ReshapedAllocated ==
  ASSUME NEW t, Allocated(t), NEW shape \in Seq(Nat), NonEmpty(shape) <=> NonEmpty(t.shape),
         Len(t.shape) = 0 => element_count(shape) = 1,
         NEW r \in RecordedReshape(t, shape)
  PROVE  Allocated(r)
<1> DEFINE strides == reshape_view_strides(t.shape, t.strides, shape)
<1>1. strides # NoView /\ r = RecordedView(t, shape, strides, t.offset, Identity)
  BY DEF RecordedReshape, When
<1>2. Layout(t.shape, t.strides) /\ (NonEmpty(t.shape) <=> element_count(t.shape) # 0)
  BY AllocatedIs, NonEmptyIs
<1>3. CASE ~NonEmpty(t.shape)
  <2>1. strides = (IF shape = t.shape THEN t.strides ELSE contiguous_strides(shape))
    BY <1>2, <1>3 DEF reshape_view_strides
  <2>2. Layout(shape, contiguous_strides(shape))
    BY ContiguousCompact
  <2> HIDE DEF strides
  <2>3. Layout(shape, strides)
    BY <1>2, <2>1, <2>2
  <2> QED BY <1>1, <1>3, <2>3, SameReachAllocated
<1>4. CASE NonEmpty(t.shape)
  <2> DEFINE sh == t.shape
             st == t.strides
             found == compute_reshape_view_strides(sh, st, shape)
  <2>1. strides = found
    BY <1>2, <1>4 DEF reshape_view_strides
  <2>2. /\ Layout(sh, st) /\ NonEmpty(sh) /\ NonEmpty(shape)
        /\ Len(sh) = 0 => element_count(shape) = 1
        /\ found # NoView
    BY <1>1, <1>2, <1>4, <2>1
  <2> HIDE DEF strides, sh, st
  <2>3. Layout(shape, found) /\ Reach(shape, found) = Reach(sh, st)
    BY <2>2, ComputedView
  <2> HIDE DEF found
  <2>4. Layout(shape, strides) /\ Reach(shape, strides) = Reach(t.shape, t.strides)
    BY <2>1, <2>3 DEF sh, st
  <2> QED BY <1>1, <1>4, <2>4, SameReachAllocated
<1> QED BY <1>3, <1>4

LEMMA SameCount ==
  ASSUME NEW t, Allocated(t), NEW shape \in Seq(Nat), element_count(shape) = elements(t)
  PROVE  /\ NonEmpty(shape) <=> NonEmpty(t.shape)
         /\ Len(t.shape) = 0 => element_count(shape) = 1
<1>1. t.shape \in Seq(Nat) /\ elements(t) = element_count(t.shape)
  BY AllocatedIs
<1>2. (NonEmpty(shape) <=> element_count(shape) # 0) /\ (NonEmpty(t.shape) <=> element_count(t.shape) # 0)
  BY <1>1, NonEmptyIs
<1>3. Len(t.shape) = 0 => element_count(t.shape) = 1
  <2> SUFFICES ASSUME Len(t.shape) = 0 PROVE element_count(t.shape) = 1
    OBVIOUS
  <2>1. 1..Len(t.shape) = {}
    OBVIOUS
  <2>2. element_count(t.shape) = ProductOf(t.shape, 1..Len(t.shape))
    BY <1>1, CountIs
  <2> QED BY <2>1, <2>2, ProductEmpty
<1> QED BY <1>1, <1>2, <1>3

LEMMA RepackedAllocated ==
  ASSUME NEW t, Allocated(t), NEW shape \in Seq(Nat), element_count(shape) = elements(t),
         NEW r \in reshape_resolved(t, shape)
  PROVE  Allocated(r)
<1>1. CASE reshape_view_strides(t.shape, t.strides, shape) # NoView
  BY <1>1, SameCount, ReshapedAllocated DEF reshape_resolved
<1>2. CASE reshape_view_strides(t.shape, t.strides, shape) = NoView
  <2>1. PICK packed \in try_contiguous(t, "contiguous") :
               r = [packed EXCEPT !.shape = shape, !.strides = contiguous_strides(shape), !.offset = 0]
    BY <1>2 DEF reshape_resolved
  <2>2. Allocated(packed) /\ elements(t) <= Len(packed.storage)
    BY ContiguousAllocated DEF try_contiguous
  <2>3. DOMAIN packed = Fields /\ packed.storage \in Seq(Range(packed.storage))
    BY <2>2 DEF Allocated
  <2>4. /\ DOMAIN r = Fields /\ r.shape = shape /\ r.strides = contiguous_strides(shape)
        /\ r.offset = 0 /\ r.storage = packed.storage
    BY <2>1, <2>3 DEF Fields
  <2> DEFINE strides == contiguous_strides(shape)
             stored == Len(packed.storage)
  <2>5. Layout(shape, strides) /\ Compact(shape, strides)
    BY ContiguousCompact
  <2>6. stored \in Nat /\ element_count(shape) <= stored /\ element_count(shape) \in Nat
    BY <2>2, <2>3, CountIs
  <2> HIDE DEF strides, stored
  <2>7. NonEmpty(shape) => 0 + Reach(shape, strides) < stored
    BY <2>5, <2>6 DEF Compact
  <2>8. validate_view_bounds(shape, strides, 0, stored)
    BY <2>5, <2>7, BoundsAre
  <2> QED BY <2>3, <2>4, <2>5, <2>8 DEF Allocated, Layout, strides, stored
<1> QED BY <1>1, <1>2

LEMMA ReshapeAllocated ==
  ASSUME NEW t, Allocated(t), NEW request \in Seq(Int), NEW r \in reshape(t, request)
  PROVE  Allocated(r)
<1>1. PICK shape \in resolve_reshape_shape(request, elements(t)) : r \in reshape_resolved(t, shape)
  BY DEF reshape
<1>2. shape \in Seq(Nat) /\ element_count(shape) = elements(t)
  BY AllocatedIs, ResolvedShape
<1> QED BY <1>1, <1>2, RepackedAllocated

LEMMA ViewedAllocated ==
  ASSUME NEW t, Allocated(t), NEW request \in Seq(Int), NEW r \in view(t, request)
  PROVE  Allocated(r)
<1>1. PICK shape \in resolve_reshape_shape(request, elements(t)) : r \in RecordedReshape(t, shape)
  BY DEF view
<1>2. shape \in Seq(Nat) /\ element_count(shape) = elements(t)
  BY AllocatedIs, ResolvedShape
<1> QED BY <1>1, <1>2, SameCount, ReshapedAllocated

LEMMA ProductNat == ASSUME NEW s \in Seq(Nat) PROVE Product(s) \in Nat
BY CountIs DEF element_count

LEMMA CollapsedIs ==
  ASSUME NEW shape \in Seq(Nat), NEW start \in 1..Len(shape), NEW end \in 1..Len(shape), start <= end
  PROVE  CollapsedShape(shape, start, end) \in Seq(Nat)
<1> DEFINE a == SubSeq(shape, 1, start - 1)
           b == SubSeq(shape, start, end)
           c == SubSeq(shape, end + 1, Len(shape))
<1>1. a \in Seq(Nat) /\ b \in Seq(Nat) /\ c \in Seq(Nat)
  OBVIOUS
<1> HIDE DEF a, b, c
<1>2. Product(b) \in Nat
  BY <1>1, ProductNat
<1> DEFINE p == Product(b)
<1> HIDE DEF p
<1>3. a \o <<p>> \o c \in Seq(Nat)
  BY <1>1, <1>2 DEF p
<1> QED BY <1>3 DEF CollapsedShape, a, b, c, p

LEMMA CollapseAllocated ==
  ASSUME NEW t, Allocated(t), NEW start \in Nat, start >= 1, NEW end \in Nat, end >= 1,
         start <= IF Len(t.shape) = 0 THEN 1 ELSE Len(t.shape),
         end <= IF Len(t.shape) = 0 THEN 1 ELSE Len(t.shape),
         NEW r \in collapse_dimensions(t, start, end)
  PROVE  Allocated(r)
<1>0. Len(t.shape) \in Nat /\ t.shape \in Seq(Nat)
  BY AllocatedIs
<1>1. CASE start > end
  <2>1. start # end /\ Len(t.shape) # 0
    BY <1>1
  <2> QED BY <1>1, <2>1 DEF collapse_dimensions
<1>2. CASE start <= end /\ Len(t.shape) = 0
  <2>1. ~(start > end)
    BY <1>2
  <2>2. r \in reshape(t, <<1>>)
    BY <1>2, <2>1 DEF collapse_dimensions
  <2>3. <<1>> \in Seq(Int)
    OBVIOUS
  <2> QED BY <2>2, <2>3, ReshapeAllocated
<1>3. CASE start = end /\ Len(t.shape) > 0
  <2>1. ~(start > end) /\ Len(t.shape) # 0
    BY <1>0, <1>3
  <2>2. r = metadata_alias(t)
    BY <1>3, <2>1 DEF collapse_dimensions
  <2> QED BY <2>2, AliasIs
<1>4. CASE start < end /\ Len(t.shape) > 0
  <2>1. ~(start > end) /\ start # end /\ Len(t.shape) # 0
    BY <1>0, <1>4
  <2>2. r \in reshape(t, CollapsedShape(t.shape, start, end))
    BY <2>1 DEF collapse_dimensions
  <2>3. start \in 1..Len(t.shape) /\ end \in 1..Len(t.shape) /\ start <= end
    BY <1>0, <1>4
  <2>4. CollapsedShape(t.shape, start, end) \in Seq(Nat)
    BY <1>0, <2>3, CollapsedIs
  <2>5. CollapsedShape(t.shape, start, end) \in Seq(Int)
    <3> DEFINE s == CollapsedShape(t.shape, start, end)
    <3>1. s \in Seq(Nat)
      BY <2>4
    <3> HIDE DEF s
    <3>2. s \in Seq(Int)
      BY <3>1
    <3> QED BY <3>2 DEF s
  <2> QED BY <2>2, <2>5, ReshapeAllocated
<1>5. start > end \/ start = end \/ start < end
  OBVIOUS
<1> QED BY <1>0, <1>1, <1>2, <1>3, <1>4, <1>5

LEMMA FlattenedAllocated ==
  ASSUME NEW t, Allocated(t), NEW start_dim \in Int, NEW end_dim \in Int,
         NEW r \in flatten(t, start_dim, end_dim)
  PROVE  Allocated(r)
<1>1. PICK start \in normalize_transpose_dimension(start_dim, Len(t.shape)),
           end \in normalize_transpose_dimension(end_dim, Len(t.shape)) :
             r \in collapse_dimensions(t, start, end)
  BY DEF flatten
<1>2. Len(t.shape) \in Nat
  BY AllocatedIs
<1>3. /\ start \in Nat /\ start >= 1 /\ end \in Nat /\ end >= 1
      /\ start <= IF Len(t.shape) = 0 THEN 1 ELSE Len(t.shape)
      /\ end <= IF Len(t.shape) = 0 THEN 1 ELSE Len(t.shape)
  BY <1>1, <1>2, NormalizedDimension
<1> QED BY <1>1, <1>3, CollapseAllocated

LEMMA RaveledAllocated ==
  ASSUME NEW t, Allocated(t), NEW r \in ravel(t)
  PROVE  Allocated(r)
<1>1. PICK packed \in try_contiguous(t, "contiguous") :
             r \in IF Len(packed.shape) = 1 THEN {metadata_alias(packed)} ELSE flatten(packed, 0, -1)
  BY DEF ravel
<1>2. Allocated(packed)
  BY ContiguousAllocated DEF try_contiguous
<1>3. CASE Len(packed.shape) = 1
  BY <1>1, <1>2, <1>3, AliasIs
<1>4. CASE Len(packed.shape) # 1
  BY <1>1, <1>2, <1>4, FlattenedAllocated
<1> QED BY <1>3, <1>4

LEMMA UnflattenedAllocated ==
  ASSUME NEW t, Allocated(t), NEW axis \in 1..Len(t.shape), NEW request \in Seq(Int),
         NEW r \in unflatten(t, axis, request)
  PROVE  Allocated(r)
<1> DEFINE a == SubSeq(t.shape, 1, axis - 1)
           c == SubSeq(t.shape, axis + 1, Len(t.shape))
<1>1. PICK split \in resolve_reshape_shape(request, t.shape[axis]) :
             r \in RecordedReshape(t, a \o split \o c)
  BY DEF unflatten
<1>0. t.shape \in Seq(Nat) /\ Len(t.shape) \in Nat /\ t.shape[axis] \in Nat
  BY AllocatedIs, LayoutIs
<1>2. split \in Seq(Nat) /\ element_count(split) = t.shape[axis]
  BY <1>0, <1>1, ResolvedShape
<1>3. NonEmpty(split) <=> t.shape[axis] # 0
  BY <1>2, NonEmptyIs
<1>4. /\ a \in Seq(Nat) /\ c \in Seq(Nat)
      /\ NonEmpty(t.shape) <=> NonEmpty(a) /\ t.shape[axis] # 0 /\ NonEmpty(c)
  <2> DEFINE sh == t.shape
             n == Len(sh)
  <2>0. sh \in Seq(Nat) /\ n \in Nat /\ axis \in 1..n
    BY <1>0
  <2> HIDE DEF sh
  <2>1. a = SubSeq(sh, 1, axis - 1) /\ c = SubSeq(sh, axis + 1, n)
    BY DEF sh
  <2> HIDE DEF a, c
  <2>2. a \in Seq(Nat) /\ Len(a) = axis - 1 /\ \A d \in 1..(axis - 1) : a[d] = sh[d]
    BY <2>0, <2>1
  <2>3. c \in Seq(Nat) /\ Len(c) = n - axis /\ \A d \in (axis + 1)..n : c[d - axis] = sh[d]
    BY <2>0, <2>1
  <2>4. \A k \in 1..(n - axis) : k + axis \in (axis + 1)..n /\ (k + axis) - axis = k
    BY <2>0
  <2>5. \A k \in 1..(n - axis) : c[k] = sh[k + axis]
    <3> TAKE k \in 1..(n - axis)
    <3>1. c[(k + axis) - axis] = sh[k + axis] /\ (k + axis) - axis = k
      BY <2>3, <2>4
    <3> QED BY <3>1
  <2> HIDE DEF n
  <2>6. ASSUME NonEmpty(sh) PROVE NonEmpty(a) /\ sh[axis] # 0 /\ NonEmpty(c)
    <3>1. \A d \in 1..n : sh[d] # 0
      BY <2>6 DEF NonEmpty, n
    <3>2. \A d \in 1..(axis - 1) : d \in 1..n
      BY <2>0
    <3>3. \A k \in 1..(n - axis) : k + axis \in 1..n
      BY <2>0
    <3> QED BY <2>0, <2>2, <2>3, <2>5, <3>1, <3>2, <3>3 DEF NonEmpty
  <2>7. ASSUME NonEmpty(a), sh[axis] # 0, NonEmpty(c) PROVE NonEmpty(sh)
    <3>1. ASSUME NEW d \in 1..n PROVE sh[d] # 0
      <4>1. CASE d < axis
        <5>1. d \in 1..(axis - 1)
          BY <2>0, <4>1
        <5> QED BY <2>2, <2>7, <5>1 DEF NonEmpty
      <4>2. CASE d > axis
        <5>1. d \in (axis + 1)..n /\ d - axis \in 1..(n - axis)
          BY <2>0, <4>2
        <5> QED BY <2>3, <2>7, <5>1 DEF NonEmpty
      <4>3. CASE d = axis
        BY <2>7, <4>3
      <4> QED BY <2>0, <4>1, <4>2, <4>3
    <3> QED BY <3>1 DEF NonEmpty, n
  <2> QED BY <2>2, <2>3, <2>6, <2>7 DEF sh
<1> HIDE DEF a, c
<1>5. \A x, y \in Seq(Nat) : x \o y \in Seq(Nat) /\ (NonEmpty(x \o y) <=> NonEmpty(x) /\ NonEmpty(y))
  <2> SUFFICES ASSUME NEW x \in Seq(Nat), NEW y \in Seq(Nat)
               PROVE  x \o y \in Seq(Nat) /\ (NonEmpty(x \o y) <=> NonEmpty(x) /\ NonEmpty(y))
    OBVIOUS
  <2> DEFINE z == x \o y
  <2>1. /\ z \in Seq(Nat) /\ Len(z) = Len(x) + Len(y)
        /\ \A d \in 1..(Len(x) + Len(y)) : z[d] = IF d <= Len(x) THEN x[d] ELSE y[d - Len(x)]
    BY JoinedIs
  <2>2. Len(x) \in Nat /\ Len(y) \in Nat
    OBVIOUS
  <2>3. \A d \in 1..Len(x) : d \in 1..Len(z) /\ z[d] = x[d]
    <3>1. \A d \in 1..Len(x) : d \in 1..(Len(x) + Len(y)) /\ d <= Len(x)
      BY <2>2
    <3> HIDE DEF z
    <3> QED BY <2>1, <3>1
  <2>4. \A d \in 1..Len(y) : d + Len(x) \in 1..Len(z) /\ z[d + Len(x)] = y[d]
    <3> TAKE d \in 1..Len(y)
    <3>1. /\ d + Len(x) \in 1..(Len(x) + Len(y)) /\ ~(d + Len(x) <= Len(x))
          /\ (d + Len(x)) - Len(x) = d
      BY <2>2
    <3> HIDE DEF z
    <3>2. z[d + Len(x)] = y[(d + Len(x)) - Len(x)]
      BY <2>1, <3>1
    <3> QED BY <2>1, <3>1, <3>2
  <2> HIDE DEF z
  <2>5. ASSUME NonEmpty(z) PROVE NonEmpty(x) /\ NonEmpty(y)
    BY <2>3, <2>4, <2>5 DEF NonEmpty
  <2>6. ASSUME NonEmpty(x), NonEmpty(y), NEW d \in 1..Len(z) PROVE z[d] # 0
    <3>1. CASE d <= Len(x)
      <4>1. d \in 1..Len(x)
        BY <2>2, <3>1
      <4> QED BY <2>3, <2>6, <4>1 DEF NonEmpty
    <3>2. CASE ~(d <= Len(x))
      <4>1. d \in 1..(Len(x) + Len(y)) /\ d - Len(x) \in 1..Len(y)
        BY <2>1, <2>2, <3>2
      <4>2. z[d] = y[d - Len(x)]
        BY <2>1, <3>2, <4>1
      <4> QED BY <2>6, <4>1, <4>2 DEF NonEmpty
    <3> QED BY <3>1, <3>2
  <2>7. NonEmpty(z) <=> NonEmpty(x) /\ NonEmpty(y)
    BY <2>5, <2>6 DEF NonEmpty
  <2> QED BY <2>1, <2>7 DEF z
<1> DEFINE joined == a \o split \o c
<1>6. joined \in Seq(Nat) /\ (NonEmpty(joined) <=> NonEmpty(t.shape))
  <2>1. a \o split \in Seq(Nat) /\ (NonEmpty(a \o split) <=> NonEmpty(a) /\ NonEmpty(split))
    BY <1>2, <1>4, <1>5
  <2>2. joined \in Seq(Nat) /\ (NonEmpty(joined) <=> NonEmpty(a \o split) /\ NonEmpty(c))
    BY <1>4, <1>5, <2>1
  <2> QED BY <1>3, <1>4, <2>1, <2>2
<1>7. Len(t.shape) # 0
  BY <1>0
<1> HIDE DEF joined
<1>8. r \in RecordedReshape(t, joined)
  BY <1>1 DEF joined
<1> QED BY <1>6, <1>7, <1>8, ReshapedAllocated

-----------------------------------------------------------------------------
(***************************************************************************)
(* Elementwise results: a layout that fills its storage, and a value for   *)
(* every element of it.                                                    *)
(***************************************************************************)
Filled(out) == LaysOut(out.shape, out.strides) /\ Stored(out.data, element_count(out.shape))

LEMMA SameShapeLays ==
  ASSUME NEW l, Allocated(l), NEW r
  PROVE  LaysOut(l.shape, same_shape_elementwise_output_strides(l, r))
<1>1. is_channels_last(l) => LaysOut(l.shape, strides_in_physical_order(l.shape, ChannelsLast))
  BY AllocatedIs, ChosenLays, ChannelsLastLays
<1>2. \A operands : LaysOut(l.shape, elementwise_output_strides(l.shape, operands))
  BY AllocatedIs, ElementwiseFresh
<1> QED BY <1>1, <1>2, ChosenLays DEF same_shape_elementwise_output_strides

LEMMA PhysicalZipStored ==
  ASSUME NEW l, Allocated(l), NEW r, NEW sign
  PROVE  Stored(PhysicalZip(l, r, sign), elements(l))
BY AllocatedIs, PhysicalStored, ZippedStored DEF PhysicalZip

LEMMA ZipFilled ==
  ASSUME NEW l, Allocated(l), NEW r, NEW sign, NEW strides, LaysOut(l.shape, strides)
  PROVE  Filled(zip_map_with_strides(l, r, sign, strides))
<1> DEFINE n == element_count(l.shape)
           zipped == Zipped(logical_values(l), logical_values(r), sign)
           laid == LaidOut(zipped, l.shape, strides)
           data == zip_map_with_strides(l, r, sign, strides).data
<1>1. n \in Nat /\ elements(l) = n
  BY AllocatedIs
<1>2. Stored(PhysicalZip(l, r, sign), n)
  BY <1>1, PhysicalZipStored
<1>3. Stored(zipped, n)
  BY <1>1, LogicalStored, ZippedStored
<1>4. Stored(laid, n)
  BY <1>1, <1>3, ScatterStored DEF LaidOut
<1>5. /\ data = PhysicalZip(l, r, sign) \/ data = laid
      /\ zip_map_with_strides(l, r, sign, strides).shape = l.shape
      /\ zip_map_with_strides(l, r, sign, strides).strides = strides
  BY DEF zip_map_with_strides
<1> HIDE DEF laid
<1> QED BY <1>2, <1>4, <1>5 DEF Filled

LEMMA BroadcastShapeIs ==
  ASSUME NEW l, Allocated(l), NEW r, Allocated(r),
         \A d \in DOMAIN BroadcastShape(l, r) : BroadcastShape(l, r)[d] # -1
  PROVE  /\ BroadcastShape(l, r) \in Seq(Nat)
         /\ Len(l.shape) = 0 => BroadcastShape(l, r) = r.shape
         /\ Len(r.shape) = 0 => BroadcastShape(l, r) = l.shape
<1> DEFINE a == l.shape
           b == r.shape
           m == Len(a)
           n == Len(b)
           rank == Max({m, n})
           s == BroadcastShape(l, r)
<1>1. /\ a \in Seq(Nat) /\ b \in Seq(Nat) /\ m \in Nat /\ n \in Nat
      /\ \A d \in 1..m : a[d] \in Nat
      /\ \A d \in 1..n : b[d] \in Nat
  BY AllocatedIs, LayoutIs
<1>2. /\ DOMAIN s = 1..rank /\ s = [d \in 1..rank |-> s[d]]
      /\ \A d \in 1..rank : s[d] # -1
      /\ \A d \in 1..rank : s[d] = broadcast_dimension(aligned_dimension(a, rank, d), aligned_dimension(b, rank, d))
  BY DEF BroadcastShape
<1>3. rank = IF m <= n THEN n ELSE m
  BY <1>1 DEF Max
<1>4. a = [d \in 1..m |-> a[d]] /\ b = [d \in 1..n |-> b[d]]
  BY <1>1
<1>a. \A d \in 1..rank : /\ aligned_dimension(a, rank, d) = IF d <= rank - m THEN 1 ELSE a[d - (rank - m)]
                         /\ aligned_dimension(b, rank, d) = IF d <= rank - n THEN 1 ELSE b[d - (rank - n)]
  BY DEF aligned_dimension
<1> HIDE DEF a, b, m, n, rank, s
<1>5. \A d \in 1..rank : aligned_dimension(a, rank, d) \in Nat /\ aligned_dimension(b, rank, d) \in Nat
  <2> TAKE d \in 1..rank
  <2> DEFINE x == d - (rank - m)
             y == d - (rank - n)
  <2>1. ~(d <= rank - m) => x \in 1..m
    BY <1>1, <1>3
  <2>2. ~(d <= rank - n) => y \in 1..n
    BY <1>1, <1>3
  <2>3. /\ aligned_dimension(a, rank, d) = IF d <= rank - m THEN 1 ELSE a[x]
        /\ aligned_dimension(b, rank, d) = IF d <= rank - n THEN 1 ELSE b[y]
    BY <1>a
  <2> HIDE DEF x, y
  <2>4. (~(d <= rank - m) => a[x] \in Nat) /\ (~(d <= rank - n) => b[y] \in Nat)
    BY <1>1, <2>1, <2>2
  <2> QED BY <2>3, <2>4
<1>6. \A d \in 1..rank : s[d] \in Nat
  BY <1>2, <1>5 DEF broadcast_dimension
<1>7. rank \in Nat
  BY <1>1, <1>3
<1>8. s \in Seq(Nat)
  BY <1>2, <1>6, <1>7, FunctionSeq
<1>9. ASSUME m = 0 PROVE s = b
  <2>1. rank = n
    BY <1>1, <1>3, <1>9
  <2>2. \A d \in 1..n : s[d] = b[d]
    <3> TAKE d \in 1..n
    <3>1. d <= rank - m /\ ~(d <= rank - n) /\ d - (rank - n) = d
      BY <1>1, <1>9, <2>1
    <3>2. aligned_dimension(a, rank, d) = 1 /\ aligned_dimension(b, rank, d) = b[d]
      BY <1>a, <2>1, <3>1
    <3> QED BY <1>2, <2>1, <3>2 DEF broadcast_dimension
  <2> QED BY <1>2, <1>4, <2>1, <2>2
<1>10. ASSUME n = 0 PROVE s = a
  <2>1. rank = m
    BY <1>1, <1>3, <1>10
  <2>2. \A d \in 1..m : s[d] = a[d]
    <3> TAKE d \in 1..m
    <3>1. d <= rank - n /\ ~(d <= rank - m) /\ d - (rank - m) = d
      BY <1>1, <1>10, <2>1
    <3>2. aligned_dimension(b, rank, d) = 1 /\ aligned_dimension(a, rank, d) = a[d]
      BY <1>a, <2>1, <3>1
    <3> QED BY <1>2, <2>1, <3>2 DEF broadcast_dimension
  <2> QED BY <1>2, <1>4, <2>1, <2>2
<1> QED BY <1>8, <1>9, <1>10 DEF s, a, b, m, n

LEMMA RankZeroStored ==
  ASSUME NEW l, Allocated(l), NEW r, Allocated(r), NEW plan, NEW sign,
         Len(l.shape) = 0 => plan.shape = r.shape,
         Len(l.shape) # 0 => plan.shape = l.shape
  PROVE  Stored(zip_map_rank_zero(l, r, plan, sign), element_count(plan.shape))
<1>1. elements(l) = element_count(l.shape) /\ elements(r) = element_count(r.shape)
  BY AllocatedIs
<1>2. CASE Len(l.shape) = 0
  <2>1. \E f : zip_map_rank_zero(l, r, plan, sign) = materialize_with_strides(r, plan.strides, f)
    BY <1>2 DEF zip_map_rank_zero
  <2> QED BY <1>1, <1>2, <2>1, MaterializedStored
<1>3. CASE Len(l.shape) # 0
  <2>1. \E f : zip_map_rank_zero(l, r, plan, sign) = materialize_with_strides(l, plan.strides, f)
    BY <1>3 DEF zip_map_rank_zero
  <2> QED BY <1>1, <1>3, <2>1, MaterializedStored
<1> QED BY <1>2, <1>3

LEMMA BroadcastStored ==
  ASSUME NEW l, NEW r, NEW plan, plan.shape \in Seq(Nat), NEW sign
  PROVE  /\ Stored(materialize_broadcast(l, r, plan, sign), element_count(plan.shape))
         /\ Stored(Zipped(RowValues(l, plan), RowValues(r, plan), sign), element_count(plan.shape))
<1> DEFINE n == element_count(plan.shape)
           left == BroadcastOffsets(l, plan.shape)
           right == BroadcastOffsets(r, plan.shape)
           values == [k \in DOMAIN left |-> Op(stored_value(l, left[k]), stored_value(r, right[k]), sign)]
           laid == LaidOut(values, plan.shape, plan.strides)
           rows == RowValues(l, plan)
<1>1. n \in Nat
  BY CountIs
<1>2. materialize_broadcast(l, r, plan, sign) = values \/ materialize_broadcast(l, r, plan, sign) = laid
  BY DEF materialize_broadcast
<1>3. DOMAIN left = 1..n
  BY DEF BroadcastOffsets
<1>4. DOMAIN rows = 1..n /\ rows = [k \in 1..n |-> rows[k]]
  BY DEF RowValues
<1> HIDE DEF n, left, right, rows
<1>5. DOMAIN values = 1..n /\ values = [k \in 1..n |-> values[k]]
  BY <1>3
<1> HIDE DEF values
<1>6. Stored(values, n) /\ Stored(rows, n)
  BY <1>1, <1>4, <1>5, FunctionStored
<1>7. Stored(laid, n)
  BY <1>1, <1>6, ScatterStored DEF LaidOut
<1>8. Stored(Zipped(rows, RowValues(r, plan), sign), n)
  BY <1>1, <1>6, ZippedStored
<1> HIDE DEF laid
<1> QED BY <1>2, <1>6, <1>7, <1>8 DEF n, rows

LEMMA PlannedFilled ==
  ASSUME NEW l, Allocated(l), NEW r, Allocated(r), NEW sign,
         \A d \in DOMAIN BroadcastShape(l, r) : BroadcastShape(l, r)[d] # -1
  PROVE  Filled(zip_map_broadcast(l, r, sign))
<1> DEFINE plan == BroadcastPlan(l, r)
           out == zip_map_planned(l, r, sign, plan)
           n == element_count(plan.shape)
<1>1. /\ plan.shape = BroadcastShape(l, r)
      /\ plan.strides = elementwise_output_strides(plan.shape, <<Operand(l), Operand(r)>>)
  BY DEF BroadcastPlan, PlanFor
<1> HIDE DEF plan
<1>2. /\ plan.shape \in Seq(Nat)
      /\ Len(l.shape) = 0 => plan.shape = r.shape
      /\ Len(r.shape) = 0 => plan.shape = l.shape
  BY <1>1, BroadcastShapeIs
<1>3. LaysOut(plan.shape, plan.strides)
  BY <1>1, <1>2, ElementwiseFresh
<1>4. /\ Stored(materialize_broadcast(l, r, plan, sign), n)
      /\ Stored(Zipped(RowValues(l, plan), RowValues(r, plan), sign), n)
  BY <1>2, BroadcastStored
<1>5. out.shape = plan.shape /\ out.strides = plan.strides
  BY DEF zip_map_planned
<1>6. \/ n = 0 /\ out.data = <<>>
      \/ out.data = Zipped(RowValues(l, plan), RowValues(r, plan), sign)
      \/ (Len(l.shape) = 0) # (Len(r.shape) = 0) /\ out.data = zip_map_rank_zero(l, r, plan, sign)
      \/ out.data = materialize_broadcast(l, r, plan, sign)
  BY DEF zip_map_planned
<1> HIDE DEF out
<1>7. Stored(out.data, n)
  <2>1. CASE n = 0 /\ out.data = <<>>
    <3>1. Stored(<<>>, 0)
      BY DEF Stored
    <3> QED BY <2>1, <3>1
  <2>2. CASE (Len(l.shape) = 0) # (Len(r.shape) = 0) /\ out.data = zip_map_rank_zero(l, r, plan, sign)
    <3>1. Len(l.shape) # 0 => Len(r.shape) = 0
      BY <2>2
    <3>2. Len(l.shape) # 0 => plan.shape = l.shape
      BY <1>2, <3>1
    <3> QED BY <1>2, <2>2, <3>2, RankZeroStored
  <2> QED BY <1>4, <1>6, <2>1, <2>2
<1>8. Filled(out)
  BY <1>3, <1>5, <1>7 DEF Filled
<1> QED BY <1>8 DEF zip_map_broadcast, out, plan

LEMMA ZipMapFilled ==
  ASSUME NEW l, Allocated(l), NEW r, Allocated(r), NEW sign,
         \A d \in DOMAIN BroadcastShape(l, r) : BroadcastShape(l, r)[d] # -1
  PROVE  Filled(zip_map(l, r, sign))
<1>1. CASE subtracts_matching_dense(l, r, sign)
  <2> DEFINE out == [data |-> PhysicalZip(l, r, sign), shape |-> l.shape, strides |-> l.strides]
  <2>1. zip_map(l, r, sign) = out
    BY <1>1 DEF zip_map
  <2>2. is_dense(l)
    BY <1>1 DEF subtracts_matching_dense
  <2>3. out.data = PhysicalZip(l, r, sign) /\ out.shape = l.shape /\ out.strides = l.strides
    OBVIOUS
  <2>4. LaysOut(l.shape, l.strides) /\ elements(l) = element_count(l.shape)
    BY <2>2, ChosenLays, AllocatedIs
  <2>5. Stored(PhysicalZip(l, r, sign), element_count(l.shape))
    BY <2>4, PhysicalZipStored
  <2> HIDE DEF out
  <2> QED BY <2>1, <2>3, <2>4, <2>5 DEF Filled
<1>2. CASE ~subtracts_matching_dense(l, r, sign) /\ l.shape = r.shape
  <2>1. zip_map(l, r, sign) = zip_map_with_strides(l, r, sign, same_shape_elementwise_output_strides(l, r))
    BY <1>2 DEF zip_map, zip_map_same_shape
  <2> QED BY <2>1, SameShapeLays, ZipFilled
<1>3. CASE ~subtracts_matching_dense(l, r, sign) /\ l.shape # r.shape
  BY <1>3, PlannedFilled DEF zip_map
<1> QED BY <1>1, <1>2, <1>3

LEMMA AddedAllocated ==
  ASSUME NEW a, Allocated(a), NEW b
  PROVE  Allocated(AddedOnDevice(a, b))
<1> DEFINE columns == Last(b.shape)
           right == IF a.shape = b.shape THEN physical_slice(b)
                    ELSE [k \in 1..elements(a) |-> physical_slice(b)[((k - 1) % columns) + 1]]
           strides == IF a.shape = b.shape THEN contiguous_strides(a.shape)
                      ELSE elementwise_output_strides(a.shape, <<Operand(a), Operand(b)>>)
           data == Zipped(physical_slice(a), right, 1)
<1>1. AddedOnDevice(a, b) = from_owned_parts(a, data, a.shape, strides, <<>>)
  BY DEF AddedOnDevice
<1>2. LaysOut(a.shape, strides)
  BY AllocatedIs, ChosenLays, ElementwiseFresh
<1> HIDE DEF right, strides
<1>3. Stored(data, element_count(a.shape))
  BY AllocatedIs, PhysicalStored, ZippedStored
<1> HIDE DEF data
<1> QED BY <1>1, <1>2, <1>3, OwnedAllocated

LEMMA CombinedAllocated ==
  ASSUME NEW l, Allocated(l), NEW r, Allocated(r), NEW sign, NEW result \in add_subtract(l, r, sign)
  PROVE  Allocated(result)
<1>1. result \in add_cuda(l, r) \/ result \in add_subtract_cpu(l, r, sign)
  BY DEF add_subtract
<1>2. CASE result \in add_cuda(l, r)
  <2>1. result = AddedOnDevice(r, l) \/ result = AddedOnDevice(l, r)
    BY <1>2 DEF add_cuda, When
  <2> QED BY <2>1, AddedAllocated
<1>3. CASE result \in add_subtract_cpu(l, r, sign)
  <2> DEFINE out == zip_map(l, r, sign)
             pull == BothPulls(l, r, add_subtract_backward(l, out.shape, 1),
                               add_subtract_backward(r, out.shape, sign), element_count(out.shape))
  <2>1. /\ \A d \in DOMAIN BroadcastShape(l, r) : BroadcastShape(l, r)[d] # -1
        /\ result = from_owned_parts(l, out.data, out.shape, out.strides, pull)
    BY <1>3 DEF add_subtract_cpu, When, RecordedSum
  <2>2. Filled(out)
    BY <2>1, ZipMapFilled
  <2> HIDE DEF out, pull
  <2> QED BY <2>1, <2>2, OwnedAllocated DEF Filled
<1> QED BY <1>1, <1>2, <1>3

LEMMA MultipliedAllocated ==
  ASSUME NEW t, Allocated(t), NEW factor, NEW strides, LaysOut(t.shape, strides),
         NEW r \in Multiplied(t, factor, strides)
  PROVE  Allocated(r)
<1>1. \E f, pull : r = from_owned_parts(t, materialize_with_strides(t, strides, f), t.shape, strides, pull)
  BY DEF Multiplied, When
<1>2. PICK f, pull : r = from_owned_parts(t, materialize_with_strides(t, strides, f), t.shape, strides, pull)
  BY <1>1
<1>3. Stored(materialize_with_strides(t, strides, f), element_count(t.shape))
  BY AllocatedIs, MaterializedStored
<1> QED BY <1>2, <1>3, OwnedAllocated

LEMMA ScaledAllocated ==
  ASSUME NEW t, Allocated(t), NEW r, r \in negate(t) \/ r \in mul_scalar(t, 2)
  PROVE  Allocated(r)
<1>1. LaysOut(t.shape, unary_output_strides(t))
  BY ChosenLays
<1>2. LaysOut(t.shape, elementwise_output_strides(t.shape, <<Operand(t)>>))
  BY AllocatedIs, ElementwiseFresh
<1> QED BY <1>1, <1>2, MultipliedAllocated DEF negate, mul_scalar

-----------------------------------------------------------------------------
(***************************************************************************)
(* Sequences put one after the other.                                      *)
(***************************************************************************)
LEMMA StoredWithin ==
  ASSUME NEW n \in Nat, NEW s, Stored(s, n), NEW V, \A k \in 1..n : s[k] \in V
  PROVE  s \in Seq(V) /\ Len(s) = n
<1>1. s \in [1..n -> V]
  BY StoredIs
<1> QED BY <1>1

LEMMA SeqStored ==
  ASSUME NEW V, NEW s \in Seq(V)
  PROVE  Stored(s, Len(s))
<1>1. Len(s) \in Nat /\ DOMAIN s = 1..Len(s) /\ s = [k \in 1..Len(s) |-> s[k]]
  OBVIOUS
<1> QED BY <1>1, FunctionStored

LEMMA JoinStored ==
  ASSUME NEW m \in Nat, NEW s, Stored(s, m), NEW n \in Nat, NEW u, Stored(u, n)
  PROVE  Stored(s \o u, m + n)
<1> DEFINE V == {s[k] : k \in 1..m} \cup {u[k] : k \in 1..n}
           z == s \o u
<1>1. s \in Seq(V) /\ Len(s) = m
  <2>1. \A k \in 1..m : s[k] \in V
    OBVIOUS
  <2> HIDE DEF V
  <2> QED BY <2>1, StoredWithin
<1>2. u \in Seq(V) /\ Len(u) = n
  <2>1. \A k \in 1..n : u[k] \in V
    OBVIOUS
  <2> HIDE DEF V
  <2> QED BY <2>1, StoredWithin
<1> HIDE DEF V
<1>3. z \in Seq(V) /\ Len(z) = m + n
  BY <1>1, <1>2
<1> HIDE DEF z
<1>4. Stored(z, m + n)
  BY <1>3, SeqStored
<1> QED BY <1>4 DEF z

LEMMA FlattenStored ==
  ASSUME NEW n \in Nat, NEW w \in Nat, NEW seqs, DOMAIN seqs = 1..n, seqs = [i \in 1..n |-> seqs[i]],
         \A i \in 1..n : Stored(seqs[i], w)
  PROVE  Stored(FlattenSeq(seqs), n * w)
<1> DEFINE V == UNION {{seqs[i][k] : k \in 1..w} : i \in 1..n}
<1>1. ASSUME NEW i \in 1..n PROVE seqs[i] \in Seq(V) /\ Len(seqs[i]) = w
  <2>1. \A k \in 1..w : seqs[i][k] \in V
    OBVIOUS
  <2> HIDE DEF V
  <2> QED BY <2>1, StoredWithin
<1> HIDE DEF V
<1>2. seqs \in Seq(Seq(V)) /\ Len(seqs) = n
  <2>1. seqs \in [1..n -> Seq(V)]
    BY <1>1
  <2> QED BY <2>1
<1>3. CASE n = 0
  <2>1. FlattenSeq(seqs) = seqs
    BY <1>2, <1>3 DEF FlattenSeq
  <2>2. Stored(seqs, n)
    BY FunctionStored
  <2> QED BY <1>3, <2>1, <2>2
<1>4. CASE n # 0
  <2>1. PICK whole : /\ FlattenSeq(seqs) = whole[n]
                     /\ \A i \in 1..n : whole[i] = IF i = 1 THEN seqs[i] ELSE whole[i - 1] \o seqs[i]
    <3>1. \E whole : /\ FlattenSeq(seqs) = whole[Len(seqs)]
                     /\ \A i \in 1..Len(seqs) :
                          whole[i] = IF i = 1 THEN seqs[i] ELSE whole[i - 1] \o seqs[i]
      BY <1>2, <1>4, FlattenSteps
    <3> QED BY <1>2, <3>1
  <2> DEFINE G == {i \in Nat : i \in 1..n => Stored(whole[i], i * w)}
  <2>2. 0 \in G
    OBVIOUS
  <2>3. ASSUME NEW i \in Nat, i \in G PROVE i + 1 \in G
    <3> SUFFICES ASSUME i + 1 \in 1..n PROVE Stored(whole[i + 1], (i + 1) * w)
      OBVIOUS
    <3>1. CASE i = 0
      <4>1. whole[i + 1] = seqs[1] /\ (i + 1) * w = w /\ 1 \in 1..n
        BY <2>1, <3>1
      <4> QED BY <4>1
    <3>2. CASE i # 0
      <4>1. i \in 1..n /\ i + 1 # 1 /\ (i + 1) - 1 = i
        BY <3>2
      <4>2. whole[i + 1] = whole[i] \o seqs[i + 1]
        BY <2>1, <4>1
      <4>3. Stored(whole[i], i * w) /\ Stored(seqs[i + 1], w)
        BY <2>3, <4>1
      <4> DEFINE p == i * w
      <4>4. p \in Nat /\ (i + 1) * w = p + w
        OBVIOUS
      <4> HIDE DEF p
      <4>5. Stored(whole[i] \o seqs[i + 1], p + w)
        BY <4>3, <4>4, JoinStored DEF p
      <4> QED BY <4>2, <4>4, <4>5
    <3> QED BY <3>1, <3>2
  <2> HIDE DEF G
  <2>4. n \in G
    BY <2>2, <2>3, NatSetInduction
  <2>5. n \in 1..n
    BY <1>4
  <2> QED BY <2>1, <2>4, <2>5 DEF G
<1> QED BY <1>3, <1>4

LEMMA FlattenTwo ==
  ASSUME NEW m \in Nat, NEW n \in Nat, NEW seqs, DOMAIN seqs = 1..2, seqs = [i \in 1..2 |-> seqs[i]],
         Stored(seqs[1], m), Stored(seqs[2], n)
  PROVE  Stored(FlattenSeq(seqs), m + n)
<1> DEFINE V == {seqs[1][k] : k \in 1..m} \cup {seqs[2][k] : k \in 1..n}
<1>1. seqs[1] \in Seq(V)
  <2>1. \A k \in 1..m : seqs[1][k] \in V
    OBVIOUS
  <2> HIDE DEF V
  <2> QED BY <2>1, StoredWithin
<1>2. seqs[2] \in Seq(V)
  <2>1. \A k \in 1..n : seqs[2][k] \in V
    OBVIOUS
  <2> HIDE DEF V
  <2> QED BY <2>1, StoredWithin
<1> HIDE DEF V
<1>3. seqs \in Seq(Seq(V)) /\ Len(seqs) = 2
  <2>1. \A i \in 1..2 : i = 1 \/ i = 2
    OBVIOUS
  <2>2. seqs \in [1..2 -> Seq(V)]
    BY <1>1, <1>2, <2>1
  <2> QED BY <2>2
<1>4. PICK whole : /\ FlattenSeq(seqs) = whole[2]
                   /\ \A i \in 1..2 : whole[i] = IF i = 1 THEN seqs[i] ELSE whole[i - 1] \o seqs[i]
  <2>1. Len(seqs) # 0
    BY <1>3
  <2>2. \E whole : /\ FlattenSeq(seqs) = whole[Len(seqs)]
                    /\ \A i \in 1..Len(seqs) :
                         whole[i] = IF i = 1 THEN seqs[i] ELSE whole[i - 1] \o seqs[i]
    BY <1>3, <2>1, FlattenSteps
  <2> QED BY <1>3, <2>2
<1>5. FlattenSeq(seqs) = seqs[1] \o seqs[2]
  <2>1. 1 \in 1..2 /\ 2 \in 1..2 /\ 2 # 1 /\ 2 - 1 = 1
    OBVIOUS
  <2>2. whole[1] = seqs[1] /\ whole[2] = whole[1] \o seqs[2]
    BY <1>4, <2>1
  <2> QED BY <1>4, <2>2
<1>6. Stored(seqs[1] \o seqs[2], m + n)
  BY JoinStored
<1> QED BY <1>5, <1>6

(***************************************************************************)
(* Joins and sums.                                                         *)
(***************************************************************************)

\* The count of a shape, about one of its axes: that of the outer axes, the
\* extent, that of the inner ones.
LEMMA SplitCount ==
  ASSUME NEW shape \in Seq(Nat), NEW d \in 1..Len(shape)
  PROVE  /\ ProductOf(shape, 1..(d - 1)) \in Nat /\ ProductOf(shape, (d + 1)..Len(shape)) \in Nat
         /\ element_count(shape) = ProductOf(shape, 1..(d - 1))
                                     * (shape[d] * ProductOf(shape, (d + 1)..Len(shape)))
<1> DEFINE n == Len(shape)
           low == 1..(d - 1)
           high == (d + 1)..n
<1>1. /\ n \in Nat /\ d \in 1..n /\ d \notin high /\ low \cap (high \cup {d}) = {}
      /\ 1..n = low \cup (high \cup {d})
      /\ \A x \in 1..n : shape[x] \in Nat
  OBVIOUS
<1>2. IsFiniteSet(low) /\ IsFiniteSet(high)
  <2>1. 1 \in Int /\ d - 1 \in Int /\ d + 1 \in Int /\ n \in Int
    BY <1>1
  <2> QED BY <2>1, FS_Interval
<1>3. IsFiniteSet(high \cup {d})
  BY <1>2, FS_AddElement
<1> HIDE DEF low, high
<1>4. ProductOf(shape, 1..n) = ProductOf(shape, low) * ProductOf(shape, high \cup {d})
  <2> DEFINE upper == high \cup {d}
  <2>1. IsFiniteSet(upper) /\ low \cap upper = {} /\ 1..n = low \cup upper
        /\ \A x \in low \cup upper : shape[x] \in Nat
    BY <1>1, <1>3
  <2> HIDE DEF upper
  <2>2. ProductOf(shape, low \cup upper) = ProductOf(shape, low) * ProductOf(shape, upper)
    BY <1>2, <2>1, ProductApart
  <2> QED BY <2>1, <2>2 DEF upper
<1>5. ProductOf(shape, high \cup {d}) = shape[d] * ProductOf(shape, high)
  BY <1>1, <1>2, ProductAdd
<1>6. ProductOf(shape, low) \in Nat /\ ProductOf(shape, high) \in Nat
  BY <1>1, <1>2, ProductType
<1>7. element_count(shape) = ProductOf(shape, 1..n)
  BY CountIs
<1> QED BY <1>4, <1>5, <1>6, <1>7 DEF low, high

\* The count of a vector and of a matrix.
LEMMA SmallCounts ==
  ASSUME NEW shape \in Seq(Nat)
  PROVE  /\ Len(shape) = 0 => element_count(shape) = 1
         /\ Len(shape) = 1 => element_count(shape) = shape[1]
         /\ Len(shape) = 2 => element_count(shape) = shape[1] * shape[2]
<1>a. \A x \in 1..Len(shape) : shape[x] \in Nat
  OBVIOUS
<1>1. ASSUME Len(shape) = 0 PROVE element_count(shape) = 1
  <2>1. 1..Len(shape) = {}
    BY <1>1
  <2> QED BY <2>1, CountIs, ProductEmpty
<1>2. ASSUME Len(shape) = 1 PROVE element_count(shape) = shape[1]
  <2>1. 1 \in 1..Len(shape) /\ shape[1] \in Nat
    BY <1>a, <1>2
  <2>2. 1..(1 - 1) = {} /\ (1 + 1)..Len(shape) = {}
    BY <1>2
  <2>3. element_count(shape) = ProductOf(shape, {}) * (shape[1] * ProductOf(shape, {}))
    BY <2>1, <2>2, SplitCount
  <2>4. ProductOf(shape, {}) = 1
    BY ProductEmpty
  <2> QED BY <2>1, <2>2, <2>3, <2>4
<1>3. ASSUME Len(shape) = 2 PROVE element_count(shape) = shape[1] * shape[2]
  <2>1. 1 \in 1..Len(shape) /\ shape[1] \in Nat /\ shape[2] \in Nat
    BY <1>a, <1>3
  <2>2. 1..(1 - 1) = {} /\ (1 + 1)..Len(shape) = {2}
    BY <1>3
  <2>3. element_count(shape) = ProductOf(shape, {}) * (shape[1] * ProductOf(shape, {2}))
    BY <2>1, <2>2, SplitCount
  <2>4. ProductOf(shape, {}) = 1
    BY ProductEmpty
  <2>5. ProductOf(shape, {2}) = shape[2] * ProductOf(shape, {})
    <3> DEFINE none == {}
    <3>1. IsFiniteSet(none) /\ 2 \notin none /\ \A x \in none \cup {2} : shape[x] \in Nat
      BY <2>1, FS_EmptySet
    <3>2. none \cup {2} = {2}
      OBVIOUS
    <3> HIDE DEF none
    <3>3. ProductOf(shape, none \cup {2}) = shape[2] * ProductOf(shape, none)
      BY <3>1, ProductAdd
    <3> QED BY <3>2, <3>3 DEF none
  <2> QED BY <2>1, <2>2, <2>3, <2>4, <2>5
<1> QED BY <1>1, <1>2, <1>3

LEMMA PieceStored ==
  ASSUME NEW s, NEW size \in Nat, NEW b \in Nat \ {0}
  PROVE  Stored(SubSeq(s, (b - 1) * size + 1, b * size), size)
<1> DEFINE a == (b - 1) * size
<1>1. a \in Nat /\ b * size = a + size
  <2>1. b * size = (b - 1) * size + size
    OBVIOUS
  <2>2. b - 1 \in Nat
    OBVIOUS
  <2> QED BY <2>1, <2>2
<1> HIDE DEF a
<1> DEFINE z == SubSeq(s, a + 1, a + size)
<1>2. DOMAIN z = 1..size /\ z = [k \in 1..size |-> z[k]]
  BY <1>1
<1> HIDE DEF z
<1>3. Stored(z, size)
  BY <1>2, FunctionStored
<1> QED BY <1>1, <1>3 DEF z, a

LEMMA BlocksStored ==
  ASSUME NEW x, NEW y, NEW m \in Nat, NEW n \in Nat, NEW outer \in Nat
  PROVE  Stored(Blocks(<<x, y>>, <<m, n>>, outer), outer * (m + n))
<1> DEFINE piece(b) == [k \in DOMAIN <<x, y>> |->
                          SubSeq(<<x, y>>[k], (b - 1) * <<m, n>>[k] + 1, b * <<m, n>>[k])]
           block == [b \in 1..outer |-> FlattenSeq(piece(b))]
<1>1. ASSUME NEW b \in 1..outer PROVE Stored(FlattenSeq(piece(b)), m + n)
  <2> DEFINE p == piece(b)
  <2>1. /\ DOMAIN p = 1..2 /\ p = [i \in 1..2 |-> p[i]]
        /\ p[1] = SubSeq(x, (b - 1) * m + 1, b * m) /\ p[2] = SubSeq(y, (b - 1) * n + 1, b * n)
    <3>1. DOMAIN <<x, y>> = 1..2 /\ 1 \in 1..2 /\ 2 \in 1..2
      OBVIOUS
    <3> QED BY <3>1
  <2> HIDE DEF p
  <2>2. Stored(p[1], m) /\ Stored(p[2], n)
    <3>1. b \in Nat \ {0}
      OBVIOUS
    <3>2. Stored(SubSeq(x, (b - 1) * m + 1, b * m), m)
      BY <3>1, PieceStored
    <3>3. Stored(SubSeq(y, (b - 1) * n + 1, b * n), n)
      BY <3>1, PieceStored
    <3> QED BY <2>1, <3>2, <3>3
  <2>3. Stored(FlattenSeq(p), m + n)
    BY <2>1, <2>2, FlattenTwo
  <2> QED BY <2>3 DEF p
<1> HIDE DEF piece
<1>2. DOMAIN block = 1..outer /\ block = [b \in 1..outer |-> block[b]]
      /\ \A b \in 1..outer : Stored(block[b], m + n)
  BY <1>1
<1>3. Blocks(<<x, y>>, <<m, n>>, outer) = FlattenSeq(block)
  BY DEF Blocks, block, piece
<1> HIDE DEF block
<1>4. m + n \in Nat
  OBVIOUS
<1> HIDE DEF piece
<1>5. Stored(FlattenSeq(block), outer * (m + n))
  BY <1>2, <1>4, FlattenStored
<1> QED BY <1>3, <1>5

LEMMA RowStored ==
  ASSUME NEW t, Allocated(t), Len(t.shape) # 0, NEW row
  PROVE  Stored(RowOf(t, row), t.shape[Len(t.shape)]) /\ t.shape[Len(t.shape)] \in Nat
<1> DEFINE s == RowOf(t, row)
           n == t.shape[Len(t.shape)]
<1>1. n \in Nat
  BY AllocatedIs
<1>2. DOMAIN s = 1..n /\ s = [k \in 1..n |-> s[k]]
  BY DEF RowOf, Last
<1> HIDE DEF s, n
<1>3. Stored(s, n)
  BY <1>1, <1>2, FunctionStored
<1> QED BY <1>1, <1>3 DEF s, n

LEMMA RowsStored ==
  ASSUME NEW t, Allocated(t), Len(t.shape) \in 1..2
  PROVE  Stored(RowsOf(t), elements(t))
<1>0. Len(t.shape) # 0
  <2> DEFINE n == Len(t.shape)
  <2>1. n \in 1..2
    OBVIOUS
  <2> HIDE DEF n
  <2>2. n # 0
    BY <2>1
  <2> QED BY <2>2 DEF n
<1> DEFINE sh == t.shape
<1>1. sh \in Seq(Nat) /\ elements(t) = element_count(sh) /\ Len(sh) \in 1..2
  BY AllocatedIs
<1>2. ASSUME NEW row PROVE Stored(RowOf(t, row), sh[Len(sh)]) /\ sh[Len(sh)] \in Nat
  BY <1>0, RowStored
<1>3. RowsOf(t) = IF Len(sh) = 1 THEN RowOf(t, 0)
                  ELSE FlattenSeq([row \in 1..sh[1] |-> RowOf(t, row - 1)])
  BY DEF RowsOf
<1> HIDE DEF sh
<1>4. CASE Len(sh) = 1
  <2>1. element_count(sh) = sh[1]
    BY <1>1, <1>4, SmallCounts
  <2> QED BY <1>1, <1>2, <1>3, <1>4, <2>1
<1>5. CASE Len(sh) = 2
  <2> DEFINE rows == [row \in 1..sh[1] |-> RowOf(t, row - 1)]
  <2>1. element_count(sh) = sh[1] * sh[2] /\ sh[1] \in Nat /\ sh[2] \in Nat
    BY <1>1, <1>5, SmallCounts
  <2>2. DOMAIN rows = 1..sh[1] /\ rows = [i \in 1..sh[1] |-> rows[i]]
        /\ \A i \in 1..sh[1] : Stored(rows[i], sh[2])
    BY <1>2, <1>5
  <2>3. RowsOf(t) = FlattenSeq(rows)
    BY <1>3, <1>5
  <2> HIDE DEF rows
  <2>4. Stored(FlattenSeq(rows), sh[1] * sh[2])
    BY <2>1, <2>2, FlattenStored
  <2> QED BY <1>1, <2>1, <2>3, <2>4
<1> QED BY <1>1, <1>4, <1>5

LEMMA JoinedStored ==
  ASSUME NEW l, Allocated(l), NEW r, Allocated(r), Len(l.shape) = Len(r.shape),
         NEW dimension \in 1..Len(l.shape), NEW shape \in Seq(Nat), Len(shape) = Len(l.shape),
         shape[dimension] = l.shape[dimension] + r.shape[dimension],
         \A d \in 1..Len(l.shape) : d # dimension => shape[d] = l.shape[d] /\ shape[d] = r.shape[d]
  PROVE  Stored(materialize_concat(l, r, dimension, shape), element_count(shape))
<1> DEFINE ls == l.shape
           rs == r.shape
           rank == Len(shape)
           count == element_count(shape)
           tail == SubSeq(shape, dimension + 1, rank)
           head == SubSeq(shape, 1, dimension - 1)
           inner == Product(tail)
           outer == Product(head)
           readable == (l.owned \/ has_contiguous_slice(l)) /\ (r.owned \/ has_contiguous_slice(r))
           first == rank <= 2 /\ dimension = 1 /\ readable
           second == rank = 2 /\ dimension = 2 /\ readable
           third == /\ rank = 3 /\ dimension = 3
                    /\ (l.owned \/ elements(l) = 0) /\ (r.owned \/ elements(r) = 0)
           rows == [row \in 1..shape[1] |-> RowOf(l, row - 1) \o RowOf(r, row - 1)]
           deep == materialize_concat_rank_3_depth(l, r, shape)
           flat == RowsOf(l) \o RowsOf(r)
           blocks == Blocks(<<logical_values(l), logical_values(r)>>,
                            <<ls[dimension] * inner, rs[dimension] * inner>>, outer)
           result == materialize_concat(l, r, dimension, shape)
<1>1. result = IF count = 0 THEN <<>> ELSE
               CASE first -> flat [] second -> FlattenSeq(rows) [] third -> deep [] OTHER -> blocks
  BY DEF materialize_concat
<1>2. /\ ls \in Seq(Nat) /\ rs \in Seq(Nat) /\ Len(ls) = rank /\ Len(rs) = rank /\ rank \in Nat
      /\ dimension \in 1..rank /\ count \in Nat
      /\ elements(l) = element_count(ls) /\ elements(r) = element_count(rs)
      /\ elements(l) \in Nat /\ elements(r) \in Nat
      /\ shape[dimension] = ls[dimension] + rs[dimension]
      /\ \A d \in 1..rank : d # dimension => shape[d] = ls[d] /\ shape[d] = rs[d]
      /\ \A d \in 1..rank : shape[d] \in Nat /\ ls[d] \in Nat /\ rs[d] \in Nat
  <2>1. /\ ls \in Seq(Nat) /\ rs \in Seq(Nat) /\ elements(l) = element_count(ls)
        /\ elements(r) = element_count(rs) /\ elements(l) \in Nat /\ elements(r) \in Nat
    BY AllocatedIs
  <2>2. count \in Nat
    BY CountIs
  <2>3. Len(ls) = rank /\ Len(rs) = rank /\ rank \in Nat /\ dimension \in 1..rank
    OBVIOUS
  <2>4. \A d \in 1..rank : shape[d] \in Nat
    OBVIOUS
  <2> HIDE DEF count, ls, rs
  <2>5. \A d \in 1..Len(ls) : ls[d] \in Nat
    BY <2>1
  <2>6. \A d \in 1..Len(rs) : rs[d] \in Nat
    BY <2>1
  <2> HIDE DEF rank
  <2>7. \A d \in 1..rank : d # dimension => shape[d] = ls[d] /\ shape[d] = rs[d]
    BY DEF ls, rs, rank
  <2>8. shape[dimension] = ls[dimension] + rs[dimension]
    BY DEF ls, rs
  <2> QED BY <2>1, <2>2, <2>3, <2>4, <2>5, <2>6, <2>7, <2>8
<1>3. ASSUME NEW row, rank # 0 PROVE Stored(RowOf(l, row), ls[rank]) /\ Stored(RowOf(r, row), rs[rank])
  <2>1. Len(l.shape) # 0 /\ Len(r.shape) # 0 /\ Len(l.shape) = rank /\ Len(r.shape) = rank
    BY <1>3
  <2> QED BY <2>1, RowStored
<1>4. rank \in 1..2 => Stored(RowsOf(l), elements(l)) /\ Stored(RowsOf(r), elements(r))
  <2>1. Len(l.shape) = rank /\ Len(r.shape) = rank
    OBVIOUS
  <2> QED BY <2>1, RowsStored
<1>5. Stored(deep, count)
  <2>1. DOMAIN deep = 1..count /\ deep = [k \in 1..count |-> deep[k]]
    BY DEF materialize_concat_rank_3_depth
  <2> HIDE DEF deep, count
  <2> QED BY <1>2, <2>1, FunctionStored
<1>6. /\ outer = ProductOf(shape, 1..(dimension - 1)) /\ outer \in Nat
      /\ inner = ProductOf(shape, (dimension + 1)..rank) /\ inner \in Nat
      /\ count = outer * (shape[dimension] * inner)
  <2>1. outer = ProductOf(shape, (0 + 1)..(dimension - 1))
    <3>1. DOMAIN head = 1..((dimension - 1) - 0) /\ \A k \in 1..((dimension - 1) - 0) : head[k] = shape[0 + k]
      OBVIOUS
    <3>2. dimension - 1 \in Nat /\ 0 \in Nat /\ \A d \in (0 + 1)..(dimension - 1) : shape[d] \in Nat
      OBVIOUS
    <3> HIDE DEF head
    <3> QED BY <3>1, <3>2, ShiftedProduct
  <2>2. inner = ProductOf(shape, (dimension + 1)..rank)
    <3>1. DOMAIN tail = 1..(rank - dimension) /\ \A k \in 1..(rank - dimension) : tail[k] = shape[dimension + k]
      OBVIOUS
    <3>2. dimension \in Nat /\ rank \in Nat /\ \A d \in (dimension + 1)..rank : shape[d] \in Nat
      OBVIOUS
    <3> HIDE DEF tail
    <3> QED BY <3>1, <3>2, ShiftedProduct
  <2>3. (0 + 1)..(dimension - 1) = 1..(dimension - 1)
    OBVIOUS
  <2> HIDE DEF outer, inner
  <2> QED BY <1>2, <2>1, <2>2, <2>3, SplitCount
<1>7. Stored(blocks, count)
  <2> DEFINE m == ls[dimension] * inner
             n == rs[dimension] * inner
  <2>1. m \in Nat /\ n \in Nat /\ m + n = shape[dimension] * inner
    <3> DEFINE a == ls[dimension]
               b == rs[dimension]
               c == shape[dimension]
    <3>1. a \in Nat /\ b \in Nat /\ c = a + b
      BY <1>2
    <3> HIDE DEF a, b, c, inner
    <3>2. a * inner \in Nat /\ b * inner \in Nat /\ a * inner + b * inner = c * inner
      BY <1>6, <3>1
    <3> QED BY <3>2 DEF a, b, c
  <2> HIDE DEF m, n, outer
  <2>2. Stored(Blocks(<<logical_values(l), logical_values(r)>>, <<m, n>>, outer), outer * (m + n))
    BY <1>6, <2>1, BlocksStored
  <2> QED BY <1>6, <2>1, <2>2 DEF m, n
<1> HIDE DEF ls, rs, blocks, deep, flat, readable, rank, count, outer, inner, result, tail, head
<1>8. first => Stored(flat, count)
  <2> SUFFICES ASSUME first PROVE Stored(flat, count)
    OBVIOUS
  <2>1. rank \in 1..2 /\ dimension = 1
    BY <1>2
  <2>2. Stored(flat, elements(l) + elements(r))
    BY <1>2, <1>4, <2>1, JoinStored DEF flat
  <2>3. elements(l) + elements(r) = count
    <3>1. CASE rank = 1
      <4>1. elements(l) = ls[1] /\ elements(r) = rs[1] /\ count = shape[1]
        BY <1>2, <3>1, SmallCounts DEF count, rank
      <4> QED BY <1>2, <2>1, <4>1
    <3>2. CASE rank = 2
      <4>1. elements(l) = ls[1] * ls[2] /\ elements(r) = rs[1] * rs[2] /\ count = shape[1] * shape[2]
        BY <1>2, <3>2, SmallCounts DEF count, rank
      <4>2. shape[1] = ls[1] + rs[1] /\ ls[2] = shape[2] /\ rs[2] = shape[2]
            /\ shape[2] \in Nat /\ ls[1] \in Nat /\ rs[1] \in Nat
        <5>1. 1 \in 1..rank /\ 2 \in 1..rank /\ 2 # dimension
          BY <2>1, <3>2
        <5> QED BY <1>2, <2>1, <5>1
      <4>3. \A a, b, c \in Nat : a * c + b * c = (a + b) * c
        OBVIOUS
      <4> QED BY <4>1, <4>2, <4>3
    <3> QED BY <2>1, <3>1, <3>2
  <2> QED BY <2>2, <2>3
<1>9. second => Stored(FlattenSeq(rows), count)
  <2> SUFFICES ASSUME second PROVE Stored(FlattenSeq(rows), count)
    OBVIOUS
  <2>1. rank = 2 /\ dimension = 2 /\ 1 \in 1..rank /\ 2 \in 1..rank /\ shape[1] \in Nat
        /\ ls[2] \in Nat /\ rs[2] \in Nat /\ shape[2] = ls[2] + rs[2]
    BY <1>2
  <2>2. ASSUME NEW i \in 1..shape[1] PROVE Stored(rows[i], shape[2])
    <3>1. Stored(RowOf(l, i - 1), ls[2]) /\ Stored(RowOf(r, i - 1), rs[2])
      BY <1>3, <2>1
    <3>2. Stored(RowOf(l, i - 1) \o RowOf(r, i - 1), ls[2] + rs[2])
      BY <2>1, <3>1, JoinStored
    <3> QED BY <2>1, <3>2
  <2>3. DOMAIN rows = 1..shape[1] /\ rows = [i \in 1..shape[1] |-> rows[i]]
    OBVIOUS
  <2> HIDE DEF rows
  <2>4. shape[2] \in Nat
    BY <2>1
  <2>5. Stored(FlattenSeq(rows), shape[1] * shape[2])
    BY <2>1, <2>2, <2>3, <2>4, FlattenStored
  <2>6. count = shape[1] * shape[2]
    BY <2>1, SmallCounts DEF rank, count
  <2> QED BY <2>5, <2>6
<1> HIDE DEF first, second, third, rows
<1>10. CASE count = 0
  <2>1. result = <<>>
    BY <1>1, <1>10
  <2>2. Stored(<<>>, 0)
    BY DEF Stored
  <2> QED BY <1>10, <2>1, <2>2 DEF result, count
<1>11. CASE count # 0
  <2>1. result = CASE first -> flat [] second -> FlattenSeq(rows) [] third -> deep [] OTHER -> blocks
    BY <1>1, <1>11
  <2>2. Stored(result, count)
    BY <1>5, <1>7, <1>8, <1>9, <2>1
  <2> QED BY <2>2 DEF result, count
<1> QED BY <1>10, <1>11

LEMMA CatAllocated ==
  ASSUME NEW l, Allocated(l), NEW r, Allocated(r), NEW dimension \in 1..Len(l.shape),
         NEW result \in cat(l, r, dimension)
  PROVE  Allocated(result)
<1> DEFINE ls == l.shape
           rs == r.shape
           shape == [ls EXCEPT ![dimension] = @ + rs[dimension]]
           data == materialize_concat(l, r, dimension, shape)
           pull == concat_pull(l, r, dimension, shape)
<1>1. /\ result = from_owned_parts(l, data, shape, contiguous_strides(shape), pull)
      /\ Len(ls) = Len(rs) /\ \A d \in DOMAIN ls : d # dimension => ls[d] = rs[d]
  BY DEF cat, When
<1>2. ls \in Seq(Nat) /\ rs \in Seq(Nat) /\ dimension \in 1..Len(ls)
  BY AllocatedIs
<1>3. /\ shape \in Seq(Nat) /\ Len(shape) = Len(ls)
      /\ shape[dimension] = ls[dimension] + rs[dimension]
      /\ \A d \in 1..Len(ls) : d # dimension => shape[d] = ls[d] /\ shape[d] = rs[d]
  <2>1. ls[dimension] \in Nat /\ rs[dimension] \in Nat
    BY <1>1, <1>2
  <2>2. DOMAIN ls = 1..Len(ls) /\ Len(ls) \in Nat /\ \A d \in 1..Len(ls) : ls[d] \in Nat
    BY <1>2
  <2> HIDE DEF ls, rs
  <2>3. /\ DOMAIN shape = 1..Len(ls)
        /\ shape[dimension] = ls[dimension] + rs[dimension]
        /\ \A d \in 1..Len(ls) : d # dimension => shape[d] = ls[d]
    BY <1>2, <2>2
  <2>4. shape = [d \in 1..Len(ls) |-> shape[d]]
    BY <2>2
  <2> HIDE DEF shape
  <2>5. \A d \in 1..Len(ls) : shape[d] \in Nat
    BY <2>1, <2>2, <2>3
  <2>6. shape \in Seq(Nat) /\ Len(shape) = Len(ls)
    BY <2>2, <2>3, <2>4, <2>5, FunctionSeq
  <2> QED BY <1>1, <2>2, <2>3, <2>6
<1> HIDE DEF shape, data, pull
<1>4. Stored(data, element_count(shape))
  BY <1>1, <1>3, JoinedStored DEF data
<1>5. LaysOut(shape, contiguous_strides(shape))
  BY <1>3, ContiguousCompact DEF LaysOut
<1> HIDE DEF ls, rs
<1> QED BY <1>1, <1>4, <1>5, OwnedAllocated

LEMMA StackAllocated ==
  ASSUME NEW l, Allocated(l), NEW r, NEW dimension \in 1..(Len(l.shape) + 1),
         NEW result \in stack(l, r, dimension)
  PROVE  Allocated(result)
<1> DEFINE ls == l.shape
           n == Len(ls)
           shape == InsertAt(ls, dimension, 2)
           data == materialize_stack(l, r, dimension)
           tail == SubSeq(ls, dimension, n)
           head == SubSeq(ls, 1, dimension - 1)
           inner == Product(tail)
           outer == Product(head)
<1>1. PICK pull : result = from_owned_parts(l, data, shape, contiguous_strides(shape), pull)
  BY DEF stack, When
<1>2. PICK x, y : data = Blocks(<<x, y>>, <<inner, inner>>, outer)
  BY DEF materialize_stack
<1>3. ls \in Seq(Nat) /\ n \in Nat /\ dimension \in 1..(n + 1)
  BY AllocatedIs
<1> HIDE DEF data, ls
<1>4. /\ shape \in Seq(Nat) /\ Len(shape) = n + 1
      /\ \A d \in 1..(n + 1) :
            shape[d] = IF d < dimension THEN ls[d] ELSE IF d = dimension THEN 2 ELSE ls[d - 1]
  <2>1. 2 \in Nat
    OBVIOUS
  <2> QED BY <1>3, <2>1, InsertedIs
<1> HIDE DEF shape
<1>5. outer = ProductOf(shape, 1..(dimension - 1))
  <2>1. DOMAIN head = 1..((dimension - 1) - 0)
        /\ \A k \in 1..((dimension - 1) - 0) : head[k] = shape[0 + k]
    <3>1. \A k \in 1..(dimension - 1) : shape[k] = ls[k]
      BY <1>3, <1>4
    <3>2. DOMAIN head = 1..(dimension - 1) /\ \A k \in 1..(dimension - 1) : head[k] = ls[k]
      BY <1>3
    <3> HIDE DEF head
    <3> QED BY <3>1, <3>2
  <2>2. dimension - 1 \in Nat /\ 0 \in Nat /\ \A d \in (0 + 1)..(dimension - 1) : shape[d] \in Nat
    BY <1>3, <1>4
  <2>3. (0 + 1)..(dimension - 1) = 1..(dimension - 1)
    OBVIOUS
  <2> HIDE DEF head
  <2>4. Product(head) = ProductOf(shape, (0 + 1)..(dimension - 1))
    BY <2>1, <2>2, ShiftedProduct
  <2> QED BY <2>3, <2>4
<1>6. inner = ProductOf(shape, (dimension + 1)..(n + 1))
  <2>1. DOMAIN tail = 1..((n + 1) - dimension)
        /\ \A k \in 1..((n + 1) - dimension) : tail[k] = shape[dimension + k]
    <3>1. ASSUME NEW k \in 1..((n + 1) - dimension) PROVE shape[dimension + k] = ls[(dimension + k) - 1]
      <4>1. dimension + k \in 1..(n + 1) /\ ~(dimension + k < dimension) /\ dimension + k # dimension
        BY <1>3
      <4> QED BY <1>4, <4>1
    <3>2. DOMAIN tail = 1..((n + 1) - dimension)
          /\ \A k \in 1..((n + 1) - dimension) : tail[k] = ls[(dimension + k) - 1]
      BY <1>3
    <3> HIDE DEF tail
    <3> QED BY <3>1, <3>2
  <2>2. dimension \in Nat /\ n + 1 \in Nat /\ \A d \in (dimension + 1)..(n + 1) : shape[d] \in Nat
    BY <1>3, <1>4
  <2> HIDE DEF tail
  <2> QED BY <2>1, <2>2, ShiftedProduct
<1> HIDE DEF outer, inner
<1>7. /\ outer \in Nat /\ inner \in Nat
      /\ element_count(shape) = outer * (shape[dimension] * inner)
  BY <1>3, <1>4, <1>5, <1>6, SplitCount
<1>8. shape[dimension] * inner = inner + inner
  BY <1>3, <1>4, <1>7
<1>9. Stored(data, element_count(shape))
  BY <1>2, <1>7, <1>8, BlocksStored
<1>10. LaysOut(shape, contiguous_strides(shape))
  BY <1>4, ContiguousCompact DEF LaysOut
<1> QED BY <1>1, <1>9, <1>10, OwnedAllocated

LEMMA SummedAllocated ==
  ASSUME NEW t, Allocated(t), NEW result \in try_sum(t)
  PROVE  Allocated(result)
<1>1. PICK v, pull : result = from_owned_parts(t, <<v>>, <<>>, <<>>, pull)
  BY DEF try_sum, When
<1>2. LaysOut(<<>>, <<>>)
  <2>1. <<>> \in Seq(Nat) /\ Len(<<>>) = 0
    OBVIOUS
  <2>2. Layout(<<>>, <<>>)
    BY <2>1 DEF Layout
  <2>3. Spans(<<>>, <<>>) = Spans(<<>>, <<>>) /\ 1..Len(<<>>) = {}
    BY <2>1
  <2>4. Reach(<<>>, <<>>) = 0
    BY <2>3, SumEmpty DEF Reach
  <2>5. element_count(<<>>) = 1
    BY <2>1, SmallCounts
  <2> QED BY <2>2, <2>4, <2>5 DEF LaysOut, Compact
<1>3. Stored(<<v>>, 1)
  BY DEF Stored, Range
<1>4. element_count(<<>>) = 1
  <2>1. <<>> \in Seq(Nat) /\ Len(<<>>) = 0
    OBVIOUS
  <2> QED BY <2>1, SmallCounts
<1> QED BY <1>1, <1>2, <1>3, <1>4, OwnedAllocated

LEMMA DimensionSummedAllocated ==
  ASSUME NEW t, Allocated(t), NEW dimension \in 1..2, NEW keepdim,
         NEW result \in sum_rank_two_dimension(t, dimension, keepdim)
  PROVE  Allocated(result)
<1> DEFINE sh == t.shape
           other == 3 - dimension
           shape == reduced_rank_two_sum_shape(sh, dimension, keepdim)
           data == dimension_sum(t, dimension)
<1>1. PICK pull : result = from_owned_parts(t, data, shape, contiguous_strides(shape), pull)
  BY DEF sum_rank_two_dimension, When
<1>2. sh \in Seq(Nat) /\ Len(sh) = 2
  BY AllocatedIs DEF sum_rank_two_dimension, When
<1>3. other \in 1..2 /\ other # dimension /\ (dimension = 1 => other = 2) /\ (dimension = 2 => other = 1)
  OBVIOUS
<1>4. sh[other] \in Nat /\ sh[1] \in Nat /\ sh[2] \in Nat
  BY <1>2, <1>3
<1>5. Stored(data, sh[other])
  <2> DEFINE n == sh[other]
  <2>1. DOMAIN data = 1..n /\ data = [k \in 1..n |-> data[k]]
    BY DEF dimension_sum
  <2> HIDE DEF data, n
  <2>2. Stored(data, n)
    BY <1>4, <2>1, FunctionStored DEF n
  <2> QED BY <2>2 DEF n
<1> HIDE DEF data, sh, other
<1>6. shape \in Seq(Nat) /\ element_count(shape) = sh[other]
  <2>1. CASE keepdim
    <3>1. shape = [sh EXCEPT ![dimension] = 1]
      BY <2>1 DEF reduced_rank_two_sum_shape
    <3>2. /\ shape \in Seq(Nat) /\ Len(shape) = 2
          /\ shape[dimension] = 1 /\ shape[other] = sh[other]
      <4> HIDE DEF shape
      <4> QED BY <1>2, <1>3, <1>4, <3>1
    <3> HIDE DEF shape
    <3>3. element_count(shape) = shape[1] * shape[2]
      BY <3>2, SmallCounts
    <3>4. CASE dimension = 1
      BY <1>3, <1>4, <3>2, <3>3, <3>4
    <3>5. CASE dimension = 2
      BY <1>3, <1>4, <3>2, <3>3, <3>5
    <3> QED BY <3>2, <3>4, <3>5
  <2>2. CASE ~keepdim
    <3>1. shape = <<sh[other]>>
      BY <2>2 DEF reduced_rank_two_sum_shape, other
    <3> HIDE DEF shape
    <3>2. shape \in Seq(Nat) /\ Len(shape) = 1 /\ shape[1] = sh[other]
      BY <1>4, <3>1
    <3> QED BY <3>2, SmallCounts
  <2> QED BY <2>1, <2>2
<1> HIDE DEF shape
<1>7. LaysOut(shape, contiguous_strides(shape))
  BY <1>6, ContiguousCompact DEF LaysOut
<1> QED BY <1>1, <1>5, <1>6, <1>7, OwnedAllocated

(***************************************************************************)
(* The caller.                                                             *)
(***************************************************************************)

\* What every step keeps: both tensors address what they store.
Held == Allocated(tensor) /\ Allocated(kept)

LEMMA ReturnHolds ==
  ASSUME NEW c, NEW results, Return(c, results), Allocated(kept), \A r \in results : Allocated(r)
  PROVE  Held'
<1>1. Allocated(tensor') /\ kept' = kept
  BY DEF Return
<1> QED BY <1>1 DEF Held

LEMMA RequestsAre ==
  ASSUME NEW request \in Requests
  PROVE  request \in Seq(Int)
<1>1. ASSUME NEW shape \in Regroupings PROVE shape \in Seq(Int)
  <2>1. PICK rank \in 0..3 : shape \in [1..rank -> 0..elements(tensor)]
    BY DEF Regroupings, RegroupingsOf
  <2>2. rank \in Nat /\ \A k \in 1..rank : shape[k] \in Int
    BY <2>1
  <2> QED BY <2>1, <2>2
<1>2. CASE request \in Regroupings
  BY <1>1, <1>2
<1>3. CASE request \notin Regroupings
  <2>1. PICK shape \in Regroupings : \E d \in DOMAIN shape : request = [shape EXCEPT ![d] = -1]
    BY <1>3 DEF Requests
  <2>2. shape \in Seq(Int)
    BY <1>1
  <2> QED BY <2>1, <2>2
<1> QED BY <1>2, <1>3

LEMMA StepHolds ==
  ASSUME Held, [Next]_vars
  PROVE  Held'
<1> USE DEF Held
<1>1. /\ DOMAIN tensor.shape = 1..Len(tensor.shape) /\ Len(tensor.shape) \in Nat
      /\ DOMAIN kept.shape = 1..Len(kept.shape) /\ Len(kept.shape) \in Nat
      /\ \A d \in 1..Len(tensor.shape) : tensor.shape[d] \in Nat
  <2>1. tensor.shape \in Seq(Nat) /\ kept.shape \in Seq(Nat)
    BY AllocatedIs
  <2> QED BY <2>1
<1>2. CASE Permute
  <2>1. PICK dimensions, c :
          dimensions \in [Axes -> Axes]
          /\ Return(c, permute_axes(tensor, dimensions))
    BY <1>2 DEF Permute
  <2>2. dimensions \in [1..Len(tensor.shape) -> 1..Len(tensor.shape)]
    BY <2>1, <1>1 DEF Axes
  <2>3. \A r \in permute_axes(tensor, dimensions) : Allocated(r)
    BY <2>1, <2>2, PermutedAllocated
  <2> QED BY <2>1, <2>3, ReturnHolds
<1>3. CASE Transpose
  <2>1. PICK dim0, dim1, c :
          dim0 \in Dimensions /\ dim1 \in Dimensions
          /\ Return(c, transpose(tensor, dim0, dim1))
    BY <1>3 DEF Transpose
  <2>2. \A r \in transpose(tensor, dim0, dim1) : Allocated(r)
    BY <2>1, TransposedAllocated DEF Dimensions
  <2> QED BY <2>1, <2>2, ReturnHolds
<1>4. CASE ReverseDimensions
  <2>1. PICK c : Return(c, reverse_dimensions(tensor))
    BY <1>4 DEF ReverseDimensions
  <2>2. \A r \in reverse_dimensions(tensor) : Allocated(r)
    BY <2>1, ReversedAllocated
  <2> QED BY <2>1, <2>2, ReturnHolds
<1>5. CASE MatrixTranspose
  <2>1. PICK c : Return(c, matrix_transpose(tensor))
    BY <1>5 DEF MatrixTranspose
  <2>2. \A r \in matrix_transpose(tensor) : Allocated(r)
    BY <2>1, MatrixTransposedAllocated
  <2> QED BY <2>1, <2>2, ReturnHolds
<1>6. CASE Ravel
  <2>1. PICK c : Return(c, ravel(tensor))
    BY <1>6 DEF Ravel, Regroup
  <2>2. \A r \in ravel(tensor) : Allocated(r)
    BY <2>1, RaveledAllocated
  <2> QED BY <2>1, <2>2, ReturnHolds
<1>7. CASE ToCuda
  <2>1. PICK c : Return(c, try_copy_cpu_to_cuda(tensor))
    BY <1>7 DEF ToCuda, Same
  <2>2. \A r \in try_copy_cpu_to_cuda(tensor) : Allocated(r)
    BY <2>1, SentAllocated
  <2> QED BY <2>1, <2>2, ReturnHolds
<1>8. CASE ToCpu
  <2>1. PICK c : Return(c, try_copy_cuda_to_cpu(tensor))
    BY <1>8 DEF ToCpu, Same
  <2>2. \A r \in try_copy_cuda_to_cpu(tensor) : Allocated(r)
    BY <2>1, ReturnedAllocated
  <2> QED BY <2>1, <2>2, ReturnHolds
<1>9. CASE Negate
  <2>1. PICK c : Return(c, negate(tensor))
    BY <1>9 DEF Negate
  <2>2. \A r \in negate(tensor) : Allocated(r)
    BY <2>1, ScaledAllocated
  <2> QED BY <2>1, <2>2, ReturnHolds
<1>10. CASE MulScalar
  <2>1. PICK c : Return(c, mul_scalar(tensor, 2))
    BY <1>10 DEF MulScalar
  <2>2. \A r \in mul_scalar(tensor, 2) : Allocated(r)
    BY <2>1, ScaledAllocated
  <2> QED BY <2>1, <2>2, ReturnHolds
<1>11. CASE SumAll
  <2>1. PICK c : Return(c, try_sum(tensor))
    BY <1>11 DEF SumAll
  <2>2. \A r \in try_sum(tensor) : Allocated(r)
    BY <2>1, SummedAllocated
  <2> QED BY <2>1, <2>2, ReturnHolds
<1>12. CASE Alias
  <2>1. PICK c : Return(c, {metadata_alias(tensor)})
    BY <1>12 DEF Alias, Same
  <2>2. \A r \in {metadata_alias(tensor)} : Allocated(r)
    BY <2>1, AliasAllocated
  <2> QED BY <2>1, <2>2, ReturnHolds
<1>13. CASE Unsqueeze
  <2>1. PICK axis, c :
          axis \in 1..(Rank + 1)
          /\ Return(c, {unsqueeze_axis(tensor, axis)})
    BY <1>13 DEF Unsqueeze, Regroup
  <2>2. \A r \in {unsqueeze_axis(tensor, axis)} : Allocated(r)
    BY <2>1, UnsqueezedAllocated DEF Rank
  <2> QED BY <2>1, <2>2, ReturnHolds
<1>14. CASE Squeeze
  <2>1. PICK selected, c :
          selected \in SUBSET Axes
          /\ Return(c, {squeeze_selected(tensor, selected)})
    BY <1>14 DEF Squeeze, Regroup
  <2>2. \A r \in {squeeze_selected(tensor, selected)} : Allocated(r)
    BY <2>1, SqueezedAllocated
  <2> QED BY <2>1, <2>2, ReturnHolds
<1>15. CASE Flatten
  <2>1. PICK start, end, c :
          start \in Dimensions /\ end \in Dimensions
          /\ Return(c, flatten(tensor, start, end))
    BY <1>15 DEF Flatten, Regroup
  <2>2. \A r \in flatten(tensor, start, end) : Allocated(r)
    BY <2>1, FlattenedAllocated DEF Dimensions
  <2> QED BY <2>1, <2>2, ReturnHolds
<1>16. CASE Reshape
  <2>1. PICK request, c :
          request \in Requests
          /\ Return(c, reshape(tensor, request))
    BY <1>16 DEF Reshape
  <2>2. \A r \in reshape(tensor, request) : Allocated(r)
    BY <2>1, RequestsAre, ReshapeAllocated
  <2> QED BY <2>1, <2>2, ReturnHolds
<1>17. CASE View
  <2>1. PICK request, c :
          request \in Requests
          /\ Return(c, view(tensor, request))
    BY <1>17 DEF View
  <2>2. \A r \in view(tensor, request) : Allocated(r)
    BY <2>1, RequestsAre, ViewedAllocated
  <2> QED BY <2>1, <2>2, ReturnHolds
<1>18. CASE Unflatten
  <2>1. PICK axis, first, second, c :
          axis \in Axes /\ first \in 1..Max({1, tensor.shape[axis]}) /\ second \in {-1, 1, 2}
          /\ Return(c, unflatten(tensor, axis, <<first, second>>))
    BY <1>18 DEF Unflatten
  <2>b. first \in Int /\ second \in Int
    BY <2>1
  <2>a. <<first, second>> \in Seq(Int) /\ axis \in 1..Len(tensor.shape)
    BY <1>1, <2>1, <2>b DEF Axes
  <2>2. \A r \in unflatten(tensor, axis, <<first, second>>) : Allocated(r)
    BY <2>1, <2>a, <1>1, UnflattenedAllocated DEF Axes
  <2> QED BY <2>1, <2>2, ReturnHolds
<1>19. CASE Slice
  <2>1. PICK axis, start, length, c :
          axis \in Axes /\ start \in Nat /\ length \in Nat
          /\ Return(c, slice_dimension(tensor, axis, start, length))
    BY <1>19 DEF Slice, SliceCall
  <2>2. \A r \in slice_dimension(tensor, axis, start, length) : Allocated(r)
    BY <2>1, <1>1, SlicedAllocated DEF Axes
  <2> QED BY <2>1, <2>2, ReturnHolds
<1>20. CASE Chunk
  <2>1. PICK axis, chunks, k, c :
          axis \in Axes /\ chunks \in 1..3 /\ k \in DOMAIN chunk_lengths(tensor.shape[axis], chunks)
          /\ Return(c, partition_dimension(tensor, axis, chunk_lengths(tensor.shape[axis], chunks), k))
    BY <1>20 DEF Chunk, Partition
  <2>a. axis \in 1..Len(tensor.shape) /\ chunk_lengths(tensor.shape[axis], chunks) \in Seq(Nat)
    <3>1. chunks \in Nat \ {0}
      BY <2>1
    <3> QED BY <1>1, <2>1, <3>1, ChunkLengths DEF Axes
  <2>2. \A r \in partition_dimension(tensor, axis, chunk_lengths(tensor.shape[axis], chunks), k) : Allocated(r)
    BY <2>1, <2>a, PartitionAllocated
  <2> QED BY <2>1, <2>2, ReturnHolds
<1>21. CASE Split
  <2>1. PICK axis, width, k, c :
          axis \in Axes /\ width \in 1..3 /\ k \in DOMAIN split_lengths(tensor.shape[axis], width)
          /\ Return(c, partition_dimension(tensor, axis, split_lengths(tensor.shape[axis], width), k))
    BY <1>21 DEF Split, Partition
  <2>a. axis \in 1..Len(tensor.shape) /\ split_lengths(tensor.shape[axis], width) \in Seq(Nat)
    <3>1. width \in Nat \ {0}
      BY <2>1
    <3> QED BY <1>1, <2>1, <3>1, SplitLengths DEF Axes
  <2>2. \A r \in partition_dimension(tensor, axis, split_lengths(tensor.shape[axis], width), k) : Allocated(r)
    BY <2>1, <2>a, PartitionAllocated
  <2> QED BY <2>1, <2>2, ReturnHolds
<1>22. CASE Clone
  <2>1. PICK format, c :
          format \in Formats
          /\ Return(c, try_clone_with_memory_format(tensor, format))
    BY <1>22 DEF Clone, Same
  <2>2. \A r \in try_clone_with_memory_format(tensor, format) : Allocated(r)
    BY <2>1, ClonedAllocated
  <2> QED BY <2>1, <2>2, ReturnHolds
<1>23. CASE Contiguous
  <2>1. PICK format, c :
          format \in Formats
          /\ Return(c, try_contiguous_impl(tensor, format, TRUE))
    BY <1>23 DEF Contiguous, Same, try_contiguous
  <2>2. \A r \in try_contiguous_impl(tensor, format, TRUE) : Allocated(r)
    BY <2>1, ContiguousAllocated
  <2> QED BY <2>1, <2>2, ReturnHolds
<1>24. CASE Copy
  <2>1. PICK format, c :
          format \in Formats
          /\ Return(c, try_copy_with_memory_format(tensor, format))
    BY <1>24 DEF Copy, Same
  <2>2. \A r \in try_copy_with_memory_format(tensor, format) : Allocated(r)
    BY <2>1, CopiedAllocated
  <2> QED BY <2>1, <2>2, ReturnHolds
<1>25. CASE Index
  <2>1. PICK axis, index, c :
          axis \in Axes /\ index \in (-tensor.shape[axis])..(tensor.shape[axis] - 1)
          /\ Return(c, IF axis = 1 THEN index_dimensions(tensor, <<index>>)
                    ELSE select_dimension(tensor, axis, index))
    BY <1>25 DEF Index
  <2>a. axis \in 1..Len(tensor.shape) /\ index \in Int
    BY <1>1, <2>1 DEF Axes
  <2>2. axis \in 1..Len(tensor.shape) /\ <<index>> \in Seq(Int) /\ Len(<<index>>) = 1
        /\ 1 <= Len(tensor.shape)
    BY <1>1, <2>a DEF Axes
  <2>3. \A r \in index_dimensions(tensor, <<index>>) : Allocated(r)
    BY <2>1, <2>2, IndexedAllocated
  <2>4. \A r \in select_dimension(tensor, axis, index) : Allocated(r)
    BY <2>1, <2>2, SelectedAllocated
  <2> DEFINE results == IF axis = 1 THEN index_dimensions(tensor, <<index>>)
                        ELSE select_dimension(tensor, axis, index)
  <2>5. Return(c, results) /\ \A r \in results : Allocated(r)
    BY <2>1, <2>3, <2>4
  <2> HIDE DEF results
  <2> QED BY <2>5, ReturnHolds
<1>26. CASE AddSubtract
  <2>1. PICK sign, reversed, c :
          sign \in {1, -1} /\ reversed \in BOOLEAN
          /\ Return(c, add_subtract(IF reversed THEN kept ELSE tensor, IF reversed THEN tensor ELSE kept, sign))
    BY <1>26 DEF AddSubtract
  <2> DEFINE l == IF reversed THEN kept ELSE tensor
             r == IF reversed THEN tensor ELSE kept
  <2>2. Allocated(l) /\ Allocated(r)
    OBVIOUS
  <2>3. Return(c, add_subtract(l, r, sign))
    BY <2>1
  <2> HIDE DEF l, r
  <2>4. \A s \in add_subtract(l, r, sign) : Allocated(s)
    BY <2>1, <2>2, CombinedAllocated
  <2> QED BY <2>3, <2>4, ReturnHolds
<1>27. CASE Cat
  <2>1. PICK axis, reversed, c :
          axis \in Axes /\ reversed \in BOOLEAN
          /\ Return(c, IF ~(axis \in DOMAIN kept.shape) THEN {}
                    ELSE IF reversed THEN cat(kept, tensor, axis) ELSE cat(tensor, kept, axis))
    BY <1>27 DEF Cat
  <2> DEFINE results == IF ~(axis \in DOMAIN kept.shape) THEN {}
                        ELSE IF reversed THEN cat(kept, tensor, axis) ELSE cat(tensor, kept, axis)
  <2>2. axis \in 1..Len(tensor.shape)
    BY <2>1, <1>1 DEF Axes
  <2>3. \A r \in cat(tensor, kept, axis) : Allocated(r)
    BY <2>1, <2>2, CatAllocated
  <2>4. axis \in DOMAIN kept.shape => \A r \in cat(kept, tensor, axis) : Allocated(r)
    BY <2>1, <1>1, CatAllocated
  <2>5. Return(c, results) /\ \A r \in results : Allocated(r)
    BY <2>1, <2>3, <2>4
  <2> HIDE DEF results
  <2> QED BY <2>5, ReturnHolds
<1>28. CASE Stack
  <2>1. PICK axis, reversed, c :
          axis \in 1..(Rank + 1) /\ reversed \in BOOLEAN
          /\ Return(c, IF reversed THEN stack(kept, tensor, axis) ELSE stack(tensor, kept, axis))
    BY <1>28 DEF Stack
  <2> DEFINE results == IF reversed THEN stack(kept, tensor, axis) ELSE stack(tensor, kept, axis)
  <2>2. axis \in 1..(Len(tensor.shape) + 1)
    BY <2>1 DEF Rank
  <2>3. \A r \in stack(tensor, kept, axis) : Allocated(r)
    BY <2>1, <2>2, StackAllocated
  <2>4. ASSUME NEW r \in stack(kept, tensor, axis) PROVE Allocated(r)
    <3>1. kept.shape = tensor.shape
      BY <2>4 DEF stack, When
    <3>2. axis \in 1..(Len(kept.shape) + 1)
      BY <2>2, <3>1
    <3> QED BY <2>4, <3>2, StackAllocated
  <2>5. Return(c, results) /\ \A r \in results : Allocated(r)
    BY <2>1, <2>3, <2>4
  <2> HIDE DEF results
  <2> QED BY <2>5, ReturnHolds
<1>29. CASE SumDimension
  <2>1. PICK axis, keepdim, c :
          axis \in Axes /\ keepdim \in BOOLEAN
          /\ Rank = 2 /\ Return(c, sum_rank_two_dimension(tensor, axis, keepdim))
    BY <1>29 DEF SumDimension
  <2>2. axis \in 1..2
    BY <1>1, <2>1 DEF Axes, Rank
  <2>3. \A r \in sum_rank_two_dimension(tensor, axis, keepdim) : Allocated(r)
    BY <2>1, <2>2, DimensionSummedAllocated
  <2> QED BY <2>1, <2>3, ReturnHolds
<1>30. CASE Keep
  BY <1>30 DEF Keep
<1>31. CASE UNCHANGED vars
  BY <1>31 DEF vars
<1> QED
  BY <1>2, <1>3, <1>4, <1>5, <1>6, <1>7, <1>8, <1>9, <1>10, <1>11, <1>12, <1>13, <1>14, <1>15,
     <1>16, <1>17, <1>18, <1>19, <1>20, <1>21, <1>22, <1>23, <1>24, <1>25, <1>26, <1>27, <1>28,
     <1>29, <1>30, <1>31 DEF Next

-----------------------------------------------------------------------------
(***************************************************************************)
(* Where a tensor lives: no operator gives a tensor of the device a        *)
(* history, and only a transfer moves one.                                 *)
(***************************************************************************)
Sited(t) == DOMAIN t = Fields /\ Resident(t)

LEMMA ViewSited ==
  ASSUME NEW t, Sited(t), NEW shape, NEW strides, NEW offset, NEW mapping
  PROVE  Sited(RecordedView(t, shape, strides, offset, mapping))
<1> DEFINE r == RecordedView(t, shape, strides, offset, mapping)
<1>1. DOMAIN r = Fields /\ r.device = t.device /\ r.tracked = t.tracked
  BY DEF Sited, RecordedView, ViewOf, Fields
<1> HIDE DEF r
<1>2. Sited(r)
  BY <1>1 DEF Sited, Resident
<1> QED BY <1>2 DEF r

LEMMA OwnedSited ==
  ASSUME NEW t, Sited(t), NEW data, NEW shape, NEW strides, NEW pull
  PROVE  Sited(from_owned_parts(t, data, shape, strides, pull))
<1> DEFINE r == from_owned_parts(t, data, shape, strides, pull)
<1>1. DOMAIN r = Fields /\ r.device = t.device /\ r.tracked = t.tracked
  BY DEF Sited, from_owned_parts, Fields
<1> HIDE DEF r
<1>2. Sited(r)
  BY <1>1 DEF Sited, Resident
<1> QED BY <1>2 DEF r

LEMMA AliasSited == ASSUME NEW t, Sited(t) PROVE Sited(metadata_alias(t))
BY ViewSited DEF metadata_alias

LEMMA PackedSited == ASSUME NEW t, Sited(t), NEW strides PROVE Sited(Packed(t, strides))
BY OwnedSited DEF Packed

\* The views.
LEMMA ViewsSited ==
  ASSUME NEW t, Sited(t)
  PROVE  /\ \A dimensions : \A r \in permute_axes(t, dimensions) : Sited(r)
         /\ \A r \in reverse_dimensions(t) : Sited(r)
         /\ \A dim0, dim1 : \A r \in transpose(t, dim0, dim1) : Sited(r)
         /\ \A r \in matrix_transpose(t) : Sited(r)
         /\ \A axis : Sited(unsqueeze_axis(t, axis))
         /\ \A selected : Sited(squeeze_selected(t, selected))
         /\ \A axis, start, length : \A r \in slice_dimension(t, axis, start, length) : Sited(r)
         /\ \A axis, lengths, k : \A r \in partition_dimension(t, axis, lengths, k) : Sited(r)
         /\ \A indices : \A r \in index_dimensions(t, indices) : Sited(r)
         /\ \A axis, index : \A r \in select_dimension(t, axis, index) : Sited(r)
<1>1. ASSUME NEW dimensions, NEW r \in permute_axes(t, dimensions) PROVE Sited(r)
  BY <1>1, ViewSited DEF permute_axes, When
<1>2. \A dim0, dim1 : \A r \in transpose(t, dim0, dim1) : Sited(r)
  BY <1>1 DEF transpose
<1>3. \A r \in matrix_transpose(t) : Sited(r)
  <2>1. CASE Len(t.shape) = 0
    BY <2>1, AliasSited DEF matrix_transpose
  <2>2. CASE Len(t.shape) = 1
    BY <2>2 DEF matrix_transpose
  <2>3. CASE ~(Len(t.shape) = 0) /\ ~(Len(t.shape) = 1)
    <3>1. matrix_transpose(t) = transpose(t, -2, -1)
      BY <2>3 DEF matrix_transpose
    <3> QED BY <1>2, <3>1
  <2> QED BY <2>1, <2>2, <2>3
<1>4. ASSUME NEW axis, NEW start, NEW length, NEW r \in slice_dimension(t, axis, start, length)
      PROVE  Sited(r)
  BY <1>4, ViewSited DEF slice_dimension, When
<1>5. \A axis, lengths, k : \A r \in partition_dimension(t, axis, lengths, k) : Sited(r)
  BY <1>4 DEF partition_dimension
<1>6. ASSUME NEW indices, NEW r \in index_dimensions(t, indices) PROVE Sited(r)
  BY <1>6, ViewSited DEF index_dimensions, When
<1>7. ASSUME NEW axis, NEW index, NEW r \in select_dimension(t, axis, index) PROVE Sited(r)
  BY <1>7, ViewSited DEF select_dimension, When
<1>8. \A axis : Sited(unsqueeze_axis(t, axis))
  BY ViewSited DEF unsqueeze_axis
<1>9. \A selected : Sited(squeeze_selected(t, selected))
  BY ViewSited DEF squeeze_selected
<1>10. \A r \in reverse_dimensions(t) : Sited(r)
  BY <1>1 DEF reverse_dimensions
<1> QED BY <1>1, <1>2, <1>3, <1>4, <1>5, <1>6, <1>7, <1>8, <1>9, <1>10

\* The copies.
LEMMA CopiesSited ==
  ASSUME NEW t, Sited(t)
  PROVE  /\ \A format, reuse : \A r \in try_contiguous_impl(t, format, reuse) : Sited(r)
         /\ \A format : \A r \in try_contiguous(t, format) : Sited(r)
         /\ \A format : \A r \in try_clone_with_memory_format(t, format) : Sited(r)
         /\ \A format : \A r \in try_copy_with_memory_format(t, format) : Sited(r)
         /\ \A r \in try_copy_cpu_to_cuda(t) : Sited(r)
         /\ \A r \in try_copy_cuda_to_cpu(t) : Sited(r)
<1>1. \A format, reuse : \A r \in try_contiguous_impl(t, format, reuse) : Sited(r)
  BY AliasSited, PackedSited DEF try_contiguous_impl, When
<1>2. \A format : \A r \in try_contiguous(t, format) : Sited(r)
  BY <1>1 DEF try_contiguous
<1>3. \A format : \A r \in try_clone_with_memory_format(t, format) : Sited(r)
  BY PackedSited DEF try_clone_with_memory_format, When
<1>4. \A format : \A r \in try_copy_with_memory_format(t, format) : Sited(r)
  BY <1>1, <1>3 DEF try_copy_with_memory_format
<1>5. ASSUME NEW r \in try_copy_cpu_to_cuda(t) PROVE Sited(r)
  <2>1. PICK data, strides :
             /\ ~t.tracked
             /\ r = [from_owned_parts(t, data, t.shape, strides, <<>>) EXCEPT !.device = "cuda", !.owned = FALSE]
    BY <1>5 DEF try_copy_cpu_to_cuda, When
  <2> DEFINE o == from_owned_parts(t, data, t.shape, strides, <<>>)
  <2>2. DOMAIN o = Fields /\ o.tracked = t.tracked
    BY DEF Sited, from_owned_parts, Fields
  <2> HIDE DEF o
  <2>3. DOMAIN r = Fields /\ r.device = "cuda" /\ ~r.tracked
    BY <2>1, <2>2 DEF Fields, o
  <2> QED BY <2>3 DEF Sited, Resident
<1>6. ASSUME NEW r \in try_copy_cuda_to_cpu(t) PROVE Sited(r)
  <2> DEFINE arrived(data) == [t EXCEPT !.device = "cpu", !.owned = TRUE, !.storage = data,
                                        !.strides = preserve_format_strides(t), !.offset = 0]
  <2>1. ASSUME NEW data PROVE Sited(arrived(data))
    <3> DEFINE a == arrived(data)
    <3>1. DOMAIN a = Fields /\ a.device = "cpu"
      BY DEF Sited, Fields
    <3> HIDE DEF a
    <3>2. Sited(a)
      BY <3>1 DEF Sited, Resident
    <3> QED BY <3>2 DEF a
  <2>2. CASE t.device = "cpu"
    BY <1>3, <1>6, <2>2 DEF try_copy_cuda_to_cpu
  <2>3. CASE t.device # "cpu"
    <3>1. \E data : r = arrived(data)
      BY <1>6, <2>3 DEF try_copy_cuda_to_cpu
    <3> HIDE DEF arrived
    <3> QED BY <2>1, <3>1
  <2> QED BY <2>2, <2>3
<1> QED BY <1>1, <1>2, <1>3, <1>4, <1>5, <1>6

\* The reshapes.
LEMMA ReshapesSited ==
  ASSUME NEW t, Sited(t)
  PROVE  /\ \A shape : \A r \in RecordedReshape(t, shape) : Sited(r)
         /\ \A request : \A r \in reshape(t, request) : Sited(r)
         /\ \A request : \A r \in view(t, request) : Sited(r)
         /\ \A axis, request : \A r \in unflatten(t, axis, request) : Sited(r)
<1>1. ASSUME NEW shape, NEW r \in RecordedReshape(t, shape) PROVE Sited(r)
  BY <1>1, ViewSited DEF RecordedReshape, When
<1>2. ASSUME NEW shape, NEW r \in reshape_resolved(t, shape) PROVE Sited(r)
  <2>1. CASE reshape_view_strides(t.shape, t.strides, shape) # NoView
    BY <1>1, <1>2, <2>1 DEF reshape_resolved
  <2>2. CASE reshape_view_strides(t.shape, t.strides, shape) = NoView
    <3>1. PICK packed \in try_contiguous(t, "contiguous") :
                 r = [packed EXCEPT !.shape = shape, !.strides = contiguous_strides(shape), !.offset = 0]
      BY <1>2, <2>2 DEF reshape_resolved
    <3>2. Sited(packed)
      BY CopiesSited
    <3>3. DOMAIN r = Fields /\ r.device = packed.device /\ r.tracked = packed.tracked
      BY <3>1, <3>2 DEF Sited, Fields
    <3> QED BY <3>2, <3>3 DEF Sited, Resident
  <2> QED BY <2>1, <2>2
<1>3. ASSUME NEW request, NEW r \in reshape(t, request) PROVE Sited(r)
  BY <1>2, <1>3 DEF reshape
<1>4. ASSUME NEW request, NEW r \in view(t, request) PROVE Sited(r)
  BY <1>1, <1>4 DEF view
<1>5. ASSUME NEW axis, NEW request, NEW r \in unflatten(t, axis, request) PROVE Sited(r)
  BY <1>1, <1>5 DEF unflatten
<1> QED BY <1>1, <1>3, <1>4, <1>5

LEMMA FlattenedSited ==
  ASSUME NEW t, Sited(t), Len(t.shape) \in Nat, NEW start_dim \in Int, NEW end_dim \in Int,
         NEW r \in flatten(t, start_dim, end_dim)
  PROVE  Sited(r)
<1> DEFINE n == Len(t.shape)
<1>1. PICK start \in normalize_transpose_dimension(start_dim, n),
           end \in normalize_transpose_dimension(end_dim, n) : r \in collapse_dimensions(t, start, end)
  BY DEF flatten
<1>2. /\ start \in Nat /\ start >= 1 /\ start <= (IF n = 0 THEN 1 ELSE n)
      /\ end \in Nat /\ end >= 1 /\ end <= (IF n = 0 THEN 1 ELSE n)
  BY NormalizedDimension
<1>3. CASE start > end
  <2>1. start # end /\ n # 0
    BY <1>2, <1>3
  <2> QED BY <1>1, <1>3, <2>1 DEF collapse_dimensions
<1>4. CASE ~(start > end) /\ n = 0
  <2>1. r \in reshape(t, <<1>>)
    BY <1>1, <1>4 DEF collapse_dimensions
  <2> QED BY <2>1, ReshapesSited
<1>5. CASE start = end /\ n > 0
  <2>1. ~(start > end) /\ n # 0
    BY <1>2, <1>5
  <2>2. r = metadata_alias(t)
    BY <1>1, <1>5, <2>1 DEF collapse_dimensions
  <2> QED BY <2>2, AliasSited
<1>6. CASE start < end /\ n > 0
  <2>1. ~(start > end) /\ start # end /\ n # 0
    BY <1>2, <1>6
  <2>2. r \in reshape(t, CollapsedShape(t.shape, start, end))
    BY <1>1, <2>1 DEF collapse_dimensions
  <2> QED BY <2>2, ReshapesSited
<1> QED BY <1>2, <1>3, <1>4, <1>5, <1>6

LEMMA RaveledSited == ASSUME NEW t, Allocated(t), Sited(t), NEW r \in ravel(t) PROVE Sited(r)
<1>1. PICK packed \in try_contiguous(t, "contiguous") :
             r \in (IF Len(packed.shape) = 1 THEN {metadata_alias(packed)} ELSE flatten(packed, 0, -1))
  BY DEF ravel
<1>2. Sited(packed)
  BY CopiesSited
<1>3. Len(packed.shape) \in Nat
  BY AllocatedIs, ContiguousAllocated DEF try_contiguous
<1>4. 0 \in Int /\ -1 \in Int
  OBVIOUS
<1> QED BY <1>1, <1>2, <1>3, <1>4, AliasSited, FlattenedSited

\* The operations that fill new storage.
LEMMA ResultsSited ==
  ASSUME NEW t, Sited(t)
  PROVE  /\ \A u, sign : Sited(u) => \A r \in add_subtract(t, u, sign) : Sited(r)
         /\ \A r \in negate(t) : Sited(r)
         /\ \A scalar : \A r \in mul_scalar(t, scalar) : Sited(r)
         /\ \A u, axis : \A r \in cat(t, u, axis) : Sited(r)
         /\ \A u, axis : \A r \in stack(t, u, axis) : Sited(r)
         /\ \A r \in try_sum(t) : Sited(r)
         /\ \A axis, keepdim : \A r \in sum_rank_two_dimension(t, axis, keepdim) : Sited(r)
<1>1. ASSUME NEW u, Sited(u), NEW sign, NEW r \in add_subtract(t, u, sign) PROVE Sited(r)
  <2>1. \A a, b : Sited(a) => Sited(AddedOnDevice(a, b))
    BY OwnedSited DEF AddedOnDevice
  <2>2. \A s \in add_cuda(t, u) : Sited(s)
    BY <1>1, <2>1 DEF add_cuda, When
  <2>3. \A s \in add_subtract_cpu(t, u, sign) : Sited(s)
    BY OwnedSited DEF add_subtract_cpu, RecordedSum, When
  <2> QED BY <1>1, <2>2, <2>3 DEF add_subtract
<1>2. ASSUME NEW factor, NEW strides, NEW r \in Multiplied(t, factor, strides) PROVE Sited(r)
  BY <1>2, OwnedSited DEF Multiplied, When
<1>3. \A r \in negate(t) : Sited(r)
  BY <1>2 DEF negate
<1>4. \A scalar : \A r \in mul_scalar(t, scalar) : Sited(r)
  BY <1>2 DEF mul_scalar
<1>5. \A u, axis : \A r \in cat(t, u, axis) : Sited(r)
  BY OwnedSited DEF cat, When
<1>6. \A u, axis : \A r \in stack(t, u, axis) : Sited(r)
  BY OwnedSited DEF stack, When
<1>7. \A r \in try_sum(t) : Sited(r)
  BY OwnedSited DEF try_sum, When
<1>8. \A axis, keepdim : \A r \in sum_rank_two_dimension(t, axis, keepdim) : Sited(r)
  BY OwnedSited DEF sum_rank_two_dimension, When
<1> QED BY <1>1, <1>3, <1>4, <1>5, <1>6, <1>7, <1>8

\* Both tensors stay where they are, or arrive without a history.
Placed == Sited(tensor) /\ Sited(kept)

LEMMA ReturnPlaces ==
  ASSUME NEW c, NEW results, Return(c, results), Sited(kept), \A r \in results : Sited(r)
  PROVE  Placed'
<1>1. Sited(tensor') /\ kept' = kept
  BY DEF Return
<1> QED BY <1>1 DEF Placed, Sited, Resident

LEMMA StepPlaces ==
  ASSUME Held, Placed, [Next]_vars
  PROVE  Placed'
<1>0. Sited(tensor) /\ Sited(kept)
  BY DEF Placed
<1>1. CASE Permute \/ Transpose \/ ReverseDimensions \/ MatrixTranspose
  BY <1>0, <1>1, ViewsSited, ReturnPlaces DEF Permute, Transpose, ReverseDimensions, MatrixTranspose
<1>2. CASE Unsqueeze \/ Squeeze
  BY <1>0, <1>2, ViewsSited, ReturnPlaces DEF Unsqueeze, Squeeze, Regroup
<1>3. CASE Reshape \/ View \/ Unflatten
  BY <1>0, <1>3, ReshapesSited, ReturnPlaces DEF Reshape, View, Unflatten
<1>14. CASE Flatten \/ Ravel
  <2>1. Allocated(tensor) /\ Len(tensor.shape) \in Nat
    BY AllocatedIs DEF Held
  <2>2. CASE Flatten
    <3>1. PICK start, end, c : start \in Int /\ end \in Int /\ Return(c, flatten(tensor, start, end))
      BY <2>1, <2>2 DEF Flatten, Regroup, Dimensions, Rank
    <3> QED BY <1>0, <2>1, <3>1, FlattenedSited, ReturnPlaces
  <2>3. CASE Ravel
    BY <1>0, <2>1, <2>3, RaveledSited, ReturnPlaces DEF Ravel, Regroup
  <2> QED BY <1>14, <2>2, <2>3
<1>4. CASE Slice \/ Chunk \/ Split
  BY <1>0, <1>4, ViewsSited, ReturnPlaces DEF Slice, Chunk, Split, Partition
<1>5. CASE Index
  BY <1>0, <1>5, ViewsSited, ReturnPlaces DEF Index
<1>6. CASE Clone \/ Contiguous \/ Copy
  BY <1>0, <1>6, CopiesSited, ReturnPlaces DEF Clone, Contiguous, Copy, Same
<1>7. CASE Alias \/ ToCuda \/ ToCpu
  BY <1>0, <1>7, AliasSited, CopiesSited, ReturnPlaces DEF Alias, ToCuda, ToCpu, Same
<1>8. CASE AddSubtract
  <2>1. PICK sign, reversed, c :
          Return(c, add_subtract(IF reversed THEN kept ELSE tensor, IF reversed THEN tensor ELSE kept, sign))
    BY <1>8 DEF AddSubtract
  <2> DEFINE l == IF reversed THEN kept ELSE tensor
             r == IF reversed THEN tensor ELSE kept
  <2>2. Sited(l) /\ Sited(r)
    BY <1>0
  <2>3. Return(c, add_subtract(l, r, sign))
    BY <2>1
  <2> HIDE DEF l, r
  <2> QED BY <1>0, <2>2, <2>3, ResultsSited, ReturnPlaces
<1>9. CASE Negate \/ MulScalar
  BY <1>0, <1>9, ResultsSited, ReturnPlaces DEF Negate, MulScalar
<1>10. CASE Cat \/ Stack
  <2>1. \A axis : /\ \A r \in cat(tensor, kept, axis) : Sited(r)
                  /\ \A r \in cat(kept, tensor, axis) : Sited(r)
                  /\ \A r \in stack(tensor, kept, axis) : Sited(r)
                  /\ \A r \in stack(kept, tensor, axis) : Sited(r)
    BY <1>0, ResultsSited
  <2>2. PICK axis, results, c :
          /\ Return(c, results)
          /\ results \in {{}, cat(tensor, kept, axis), cat(kept, tensor, axis),
                         stack(tensor, kept, axis), stack(kept, tensor, axis)}
    BY <1>10 DEF Cat, Stack
  <2> QED BY <1>0, <2>1, <2>2, ReturnPlaces
<1>11. CASE SumAll \/ SumDimension
  BY <1>0, <1>11, ResultsSited, ReturnPlaces DEF SumAll, SumDimension
<1>12. CASE Keep
  BY <1>0, <1>12 DEF Keep, Placed
<1>13. CASE UNCHANGED vars
  BY <1>0, <1>13 DEF vars, Placed
<1> QED
  BY <1>1, <1>2, <1>3, <1>4, <1>5, <1>6, <1>7, <1>8, <1>9, <1>10, <1>11, <1>12, <1>13, <1>14 DEF Next

-----------------------------------------------------------------------------
(***************************************************************************)
(* The plan of a captured graph: operation by operation, it accepts what   *)
(* the operator accepts and predicts the layout of what it returns.        *)
(***************************************************************************)
LEMMA ViewFound ==
  ASSUME NEW t, DOMAIN t = Fields, NEW shape, NEW strides, NEW offset, NEW mapping
  PROVE  from_tensor(RecordedView(t, shape, strides, offset, mapping))
           = [shape |-> shape, strides |-> strides, offset |-> offset]
<1> DEFINE r == RecordedView(t, shape, strides, offset, mapping)
<1>1. r.shape = shape /\ r.strides = strides /\ r.offset = offset
  BY DEF RecordedView, ViewOf, Fields
<1> HIDE DEF r
<1> QED BY <1>1 DEF from_tensor, r

LEMMA OwnedFound ==
  ASSUME NEW t, DOMAIN t = Fields, NEW data, NEW shape, NEW strides, NEW pull
  PROVE  from_tensor(from_owned_parts(t, data, shape, strides, pull)) = Fresh(shape, strides)
<1> DEFINE r == from_owned_parts(t, data, shape, strides, pull)
<1>1. r.shape = shape /\ r.strides = strides /\ r.offset = 0
  BY DEF from_owned_parts, Fields
<1> HIDE DEF r
<1> QED BY <1>1 DEF from_tensor, Fresh, r

LEMMA LayoutOf ==
  ASSUME NEW t
  PROVE  /\ from_tensor(t).shape = t.shape /\ from_tensor(t).strides = t.strides
         /\ from_tensor(t).offset = t.offset
BY DEF from_tensor

LEMMA AliasFound == ASSUME NEW t, DOMAIN t = Fields PROVE from_tensor(metadata_alias(t)) = from_tensor(t)
BY ViewFound DEF metadata_alias, from_tensor

LEMMA Rearranged ==
  ASSUME NEW t, NEW shape, NEW strides
  PROVE  [from_tensor(t) EXCEPT !.shape = shape, !.strides = strides]
           = [shape |-> shape, strides |-> strides, offset |-> t.offset]
<1> DEFINE g == [from_tensor(t) EXCEPT !.shape = shape, !.strides = strides]
           h == [shape |-> shape, strides |-> strides, offset |-> t.offset]
<1>1. DOMAIN g = {"shape", "strides", "offset"} /\ g.shape = shape /\ g.strides = strides /\ g.offset = t.offset
  BY DEF from_tensor
<1>2. DOMAIN h = {"shape", "strides", "offset"} /\ h.shape = shape /\ h.strides = strides /\ h.offset = t.offset
  OBVIOUS
<1>3. g = [x \in {"shape", "strides", "offset"} |-> g[x]] /\ h = [x \in {"shape", "strides", "offset"} |-> h[x]]
  BY DEF from_tensor
<1> HIDE DEF g, h
<1>4. \A x \in {"shape", "strides", "offset"} : g[x] = h[x]
  BY <1>1, <1>2
<1>5. g = h
  BY <1>3, <1>4
<1> QED BY <1>5 DEF g, h

\* The tensors a graph is planned for.
Planned(t) == Allocated(t) /\ Sited(t) /\ t.device = "cuda" /\ Bounded(from_tensor(t))

LEMMA PlannedIs ==
  ASSUME NEW t, Planned(t)
  PROVE  /\ Allocated(t) /\ DOMAIN t = Fields /\ t.device = "cuda" /\ ~t.tracked
         /\ Len(t.shape) \in 0..2 /\ DOMAIN t.shape = 1..Len(t.shape) /\ Bounded(from_tensor(t))
         /\ contiguous(from_tensor(t)) <=> is_contiguous(t)
         /\ Operand(from_tensor(t)) = Operand(t)
         /\ elements(t) = element_count(t.shape)
         /\ t.shape \in Seq(Nat) /\ Layout(t.shape, t.strides)
<1>1. Allocated(t) /\ DOMAIN t = Fields /\ t.device = "cuda" /\ ~t.tracked /\ Bounded(from_tensor(t))
  BY DEF Planned, Sited, Resident
<1>2. /\ t.shape \in Seq(Nat) /\ Layout(t.shape, t.strides) /\ Len(t.shape) \in Nat
      /\ DOMAIN t.shape = 1..Len(t.shape) /\ elements(t) = element_count(t.shape)
  BY <1>1, AllocatedIs
<1>3. from_tensor(t).shape = t.shape /\ from_tensor(t).strides = t.strides
  BY LayoutOf
<1>4. Len(t.shape) <= 2
  BY <1>1, <1>3 DEF Bounded
<1>5. contiguous(from_tensor(t)) <=> is_contiguous(t)
  BY <1>3 DEF contiguous, is_contiguous
<1>6. Operand(from_tensor(t)) = Operand(t)
  BY <1>3 DEF Operand
<1>7. Len(t.shape) \in 0..2
  <2>1. \A n \in Nat : n <= 2 => n \in 0..2
    OBVIOUS
  <2> QED BY <1>2, <1>4, <2>1, Zenon
<1> QED BY <1>1, <1>2, <1>5, <1>6, <1>7, Zenon

LEMMA SqueezePlanned ==
  ASSUME NEW t, Planned(t)
  PROVE  planned_squeeze(from_tensor(t)) = Found({squeeze_selected(t, DOMAIN t.shape)})
<1> DEFINE l == from_tensor(t)
           left == Ascending({d \in DOMAIN t.shape : t.shape[d] # 1})
           A == [k \in DOMAIN left |-> t.shape[left[k]]]
           B == [k \in DOMAIN left |-> t.strides[left[k]]]
<1>1. /\ DOMAIN t = Fields /\ Bounded(l) /\ l.shape = t.shape /\ l.strides = t.strides
  BY PlannedIs, LayoutOf
<1>2. Remaining(t, DOMAIN t.shape) = left
  <2>1. {d \in DOMAIN t.shape : d \notin DOMAIN t.shape \/ t.shape[d] # 1} = {d \in DOMAIN t.shape : t.shape[d] # 1}
    OBVIOUS
  <2> QED BY <2>1 DEF Remaining
<1>3. squeeze_selected(t, DOMAIN t.shape) = RecordedView(t, A, B, t.offset, Identity)
  BY <1>2 DEF squeeze_selected
<1>4. planned_squeeze(l) = {[l EXCEPT !.shape = A, !.strides = B]}
  BY <1>1 DEF planned_squeeze, When
<1> HIDE DEF A, B, l
<1>5. from_tensor(RecordedView(t, A, B, t.offset, Identity)) = [shape |-> A, strides |-> B, offset |-> t.offset]
  BY <1>1, ViewFound
<1>6. [l EXCEPT !.shape = A, !.strides = B] = [shape |-> A, strides |-> B, offset |-> t.offset]
  BY Rearranged, Zenon DEF l
<1> QED BY <1>3, <1>4, <1>5, <1>6 DEF Found, l

\* A permutation of the axes, planned as an exchange.
LEMMA ExchangePlanned ==
  ASSUME NEW t, Planned(t), NEW first, NEW second,
         \A d \in 1..Len(t.shape) : first \in 1..Len(t.shape) /\ second \in 1..Len(t.shape)
  PROVE  Found(permute_axes(t, Swapped(Len(t.shape), first, second)))
           = {Exchanged(from_tensor(t), first, second)}
<1> DEFINE l == from_tensor(t)
           n == Len(t.shape)
           order == Swapped(n, first, second)
           A == [d \in DOMAIN order |-> t.shape[order[d]]]
           B == [d \in DOMAIN order |-> t.strides[order[d]]]
           m == [kind |-> "permute", dimensions |-> order]
<1>1. /\ DOMAIN t = Fields /\ n \in Nat /\ l.shape = t.shape /\ l.strides = t.strides
  BY PlannedIs, LayoutOf
<1>2. Len(order) = n /\ IsInjective(order)
  <2>1. order = [d \in 1..n |-> IF d = first THEN second ELSE IF d = second THEN first ELSE d]
    BY DEF Swapped
  <2>2. Len(order) = n /\ DOMAIN order = 1..n
    BY <1>1, <2>1
  <2>3. \A p, q \in 1..n : order[p] = order[q] => p = q
    BY <2>1
  <2> HIDE DEF order
  <2> QED BY <2>2, <2>3 DEF IsInjective
<1>3. permute_axes(t, order) = {RecordedView(t, A, B, t.offset, m)}
  BY <1>2 DEF permute_axes, When
<1>4. Exchanged(l, first, second) = [l EXCEPT !.shape = A, !.strides = B]
  BY <1>1 DEF Exchanged
<1> HIDE DEF A, B, l, m
<1>5. from_tensor(RecordedView(t, A, B, t.offset, m)) = [shape |-> A, strides |-> B, offset |-> t.offset]
  BY <1>1, ViewFound
<1>6. [l EXCEPT !.shape = A, !.strides = B] = [shape |-> A, strides |-> B, offset |-> t.offset]
  BY Rearranged, Zenon DEF l
<1> QED BY <1>3, <1>4, <1>5, <1>6 DEF Found, l

LEMMA TransposePlanned ==
  ASSUME NEW t, Planned(t), NEW dim0 \in Int, NEW dim1 \in Int
  PROVE  planned_transpose(from_tensor(t), dim0, dim1) = Found(transpose(t, dim0, dim1))
<1> DEFINE l == from_tensor(t)
           n == Len(t.shape)
           N0 == normalize_transpose_dimension(dim0, n)
           N1 == normalize_transpose_dimension(dim1, n)
           E(a, b) == Exchanged(l, a, b)
           P(a, b) == permute_axes(t, Swapped(n, a, b))
<1>1. Bounded(l) /\ l.shape = t.shape /\ n \in Nat
  BY PlannedIs, LayoutOf
<1>2. planned_transpose(l, dim0, dim1) = {E(a, b) : a \in N0, b \in N1}
  BY <1>1 DEF planned_transpose
<1>3. transpose(t, dim0, dim1) = UNION {P(a, b) : a \in N0, b \in N1}
  BY DEF transpose
<1>4. ASSUME NEW a \in N0, NEW b \in N1 PROVE Found(P(a, b)) = {E(a, b)}
  <2>1. \A d \in 1..n : a \in 1..n /\ b \in 1..n
    BY <1>1, NormalizedDimension
  <2> QED BY <2>1, ExchangePlanned
<1> HIDE DEF E, P, N0, N1
<1>5. ASSUME NEW x PROVE x \in Found(transpose(t, dim0, dim1)) <=> x \in {E(a, b) : a \in N0, b \in N1}
  <2>1. x \in Found(transpose(t, dim0, dim1)) <=> \E r \in transpose(t, dim0, dim1) : x = from_tensor(r)
    BY DEF Found
  <2>2. \A r : r \in transpose(t, dim0, dim1) <=> \E a \in N0, b \in N1 : r \in P(a, b)
    BY <1>3
  <2>3. \A a \in N0, b \in N1 : (\E r \in P(a, b) : x = from_tensor(r)) <=> x = E(a, b)
    <3> SUFFICES ASSUME NEW a \in N0, NEW b \in N1
                 PROVE  (\E r \in P(a, b) : x = from_tensor(r)) <=> x = E(a, b)
      OBVIOUS
    <3>1. Found(P(a, b)) = {E(a, b)}
      BY <1>4
    <3>2. x \in Found(P(a, b)) <=> \E r \in P(a, b) : x = from_tensor(r)
      BY DEF Found
    <3> QED BY <3>1, <3>2
  <2> QED BY <2>1, <2>2, <2>3
<1>6. Found(transpose(t, dim0, dim1)) = {E(a, b) : a \in N0, b \in N1}
  BY <1>5
<1> QED BY <1>2, <1>6

LEMMA MatrixPlanned ==
  ASSUME NEW t, Planned(t)
  PROVE  planned_t(from_tensor(t)) = Found(reverse_dimensions(t))
<1> DEFINE l == from_tensor(t)
           n == Len(t.shape)
<1>1. Bounded(l) /\ l.shape = t.shape /\ n \in 0..2
  BY PlannedIs, LayoutOf
<1>2. RowMajor(n) = Swapped(n, 1, n)
  <2> HIDE DEF n
  <2>1. \A d \in 1..n : n + 1 - d = IF d = 1 THEN n ELSE IF d = n THEN 1 ELSE d
    BY <1>1
  <2> QED BY <2>1 DEF RowMajor, Swapped
<1>3. \A d \in 1..n : 1 \in 1..n /\ n \in 1..n
  BY <1>1
<1>4. Found(permute_axes(t, Swapped(n, 1, n))) = {Exchanged(l, 1, n)}
  BY <1>3, ExchangePlanned
<1> QED BY <1>1, <1>2, <1>4 DEF planned_t, reverse_dimensions, When

\* The device packs what the plan expects it to.
LEMMA PacksAgree ==
  ASSUME NEW t, Planned(t), ~is_contiguous(t)
  PROVE  cuda_packs(t) <=> Packs(from_tensor(t))
<1>1. elements(t) # 0
  BY PlannedIs DEF is_contiguous, layout_is_contiguous
<1> QED BY <1>1, LayoutOf, PlannedIs DEF cuda_packs, Packs

LEMMA NotContiguous ==
  ASSUME NEW t, Planned(t), ~is_contiguous(t)
  PROVE  try_contiguous(t, "contiguous") = When(cuda_packs(t), Packed(t, contiguous_strides(t.shape)))
<1> DEFINE st == contiguous_strides(t.shape)
<1>1. ~has_format(t, "contiguous") /\ format_strides(t, "contiguous") = st
  BY DEF has_format, format_strides
<1>2. t.device = "cuda"
  BY PlannedIs
<1>3. try_contiguous_impl(t, "contiguous", TRUE)
        = When(t.device = "cpu" \/ ("contiguous" = "contiguous" /\ cuda_packs(t)),
               Packed(t, format_strides(t, "contiguous")))
  BY <1>1, <1>2 DEF try_contiguous_impl
<1>4. t.device = "cpu" \/ ("contiguous" = "contiguous" /\ cuda_packs(t)) <=> cuda_packs(t)
  BY <1>2
<1> HIDE DEF st
<1> QED BY <1>1, <1>3, <1>4 DEF try_contiguous, When, st

LEMMA ContiguousPlanned ==
  ASSUME NEW t, Planned(t)
  PROVE  planned_contiguous(from_tensor(t)) = Found(try_contiguous(t, "contiguous"))
<1> DEFINE l == from_tensor(t)
           st == contiguous_strides(t.shape)
<1>1. /\ DOMAIN t = Fields /\ t.device = "cuda" /\ (contiguous(l) <=> is_contiguous(t))
      /\ l.shape = t.shape /\ l.strides = t.strides
  BY PlannedIs, LayoutOf
<1>2. CASE is_contiguous(t)
  <2>1. try_contiguous(t, "contiguous") = {metadata_alias(t)}
    BY <1>2 DEF try_contiguous, try_contiguous_impl, has_format
  <2>2. from_tensor(metadata_alias(t)) = l
    BY <1>1, AliasFound
  <2> QED BY <1>1, <1>2, <2>1, <2>2 DEF planned_contiguous, Found
<1>3. CASE ~is_contiguous(t)
  <2>1. try_contiguous(t, "contiguous") = When(cuda_packs(t), Packed(t, st))
    BY <1>3, NotContiguous
  <2>2. from_tensor(Packed(t, st)) = Fresh(t.shape, st)
    BY <1>1, OwnedFound DEF Packed
  <2>3. planned_contiguous(l) = When(Packs(l), Fresh(t.shape, st))
    BY <1>1, <1>3 DEF planned_contiguous
  <2>4. cuda_packs(t) <=> Packs(l)
    BY <1>3, PacksAgree
  <2> HIDE DEF l, st
  <2> QED BY <2>1, <2>2, <2>3, <2>4 DEF Found, When, l
<1> QED BY <1>2, <1>3

LEMMA MapPlanned ==
  ASSUME NEW t, Planned(t)
  PROVE  planned_map(from_tensor(t)) = Found(negate(t))
<1> DEFINE l == from_tensor(t)
<1>1. /\ DOMAIN t = Fields /\ t.device = "cuda" /\ (contiguous(l) <=> is_contiguous(t)) /\ l.shape = t.shape
  BY PlannedIs, LayoutOf
<1>2. CASE is_contiguous(t)
  BY <1>1, <1>2, OwnedFound DEF negate, Multiplied, When, Found, planned_map, unary_output_strides
<1>3. CASE ~is_contiguous(t)
  BY <1>1, <1>3 DEF negate, Multiplied, When, Found, planned_map
<1> QED BY <1>2, <1>3

LEMMA ScalePlanned ==
  ASSUME NEW t, Planned(t), NEW scalar
  PROVE  planned_mul_scalar(from_tensor(t)) = Found(mul_scalar(t, scalar))
<1> DEFINE l == from_tensor(t)
<1>1. /\ DOMAIN t = Fields /\ t.device = "cuda" /\ (contiguous(l) <=> is_contiguous(t)) /\ l.shape = t.shape
      /\ Operand(l) = Operand(t)
  BY PlannedIs, LayoutOf
<1>2. CASE is_contiguous(t)
  BY <1>1, <1>2, OwnedFound DEF mul_scalar, Multiplied, When, Found, planned_mul_scalar
<1>3. CASE ~is_contiguous(t)
  BY <1>1, <1>3 DEF mul_scalar, Multiplied, When, Found, planned_mul_scalar
<1> QED BY <1>2, <1>3

LEMMA SumRowsPlanned ==
  ASSUME NEW t, Planned(t), NEW keepdim \in BOOLEAN
  PROVE  planned_sum_rows(from_tensor(t), keepdim)
           = IF Len(t.shape) = 2 THEN Found(sum_rank_two_dimension(t, 2, keepdim)) ELSE {}
<1> DEFINE l == from_tensor(t)
           planned == IF keepdim THEN <<t.shape[1], 1>> ELSE <<t.shape[1]>>
           reduced == reduced_rank_two_sum_shape(t.shape, 2, keepdim)
<1>1. /\ DOMAIN t = Fields /\ t.device = "cuda" /\ (contiguous(l) <=> is_contiguous(t)) /\ l.shape = t.shape
      /\ t.shape \in Seq(Nat)
  BY PlannedIs, LayoutOf
<1>2. CASE Len(t.shape) # 2
  BY <1>1, <1>2 DEF planned_sum_rows, When
<1>3. CASE Len(t.shape) = 2
  <2>1. reduced = planned
    <3>1. [t.shape EXCEPT ![2] = 1] = <<t.shape[1], 1>>
      BY <1>1, <1>3
    <3> QED BY <3>1 DEF reduced_rank_two_sum_shape
  <2>2. planned_sum_rows(l, keepdim) = When(is_contiguous(t), Fresh(planned, contiguous_strides(planned)))
    <3>1. l.shape = t.shape /\ Len(l.shape) = 2 /\ (contiguous(l) /\ Len(l.shape) = 2 <=> is_contiguous(t))
      BY <1>1, <1>3
    <3> HIDE DEF l
    <3> QED BY <3>1 DEF planned_sum_rows, When
  <2>3. \E data, pull : sum_rank_two_dimension(t, 2, keepdim)
                          = When(is_contiguous(t),
                                 from_owned_parts(t, data, reduced, contiguous_strides(reduced), pull))
    BY <1>1, <1>3 DEF sum_rank_two_dimension, When
  <2> HIDE DEF reduced, planned, l
  <2>4. PICK data, pull : sum_rank_two_dimension(t, 2, keepdim)
                            = When(is_contiguous(t),
                                   from_owned_parts(t, data, reduced, contiguous_strides(reduced), pull))
    BY <2>3
  <2>5. from_tensor(from_owned_parts(t, data, reduced, contiguous_strides(reduced), pull))
          = Fresh(reduced, contiguous_strides(reduced))
    BY <1>1, OwnedFound
  <2> QED BY <1>3, <2>1, <2>2, <2>4, <2>5 DEF Found, When, l
<1> QED BY <1>2, <1>3

LEMMA AddPlanned ==
  ASSUME NEW a, Planned(a), NEW b, Planned(b)
  PROVE  planned_add(from_tensor(a), from_tensor(b)) = Found(add_cuda(a, b))
<1> DEFINE l == from_tensor(a)
           r == from_tensor(b)
<1>1. /\ DOMAIN a = Fields /\ a.device = "cuda" /\ (contiguous(l) <=> is_contiguous(a)) /\ l.shape = a.shape
      /\ ~a.tracked /\ Operand(l) = Operand(a)
  BY PlannedIs, LayoutOf
<1>2. /\ DOMAIN b = Fields /\ b.device = "cuda" /\ (contiguous(r) <=> is_contiguous(b)) /\ r.shape = b.shape
      /\ ~b.tracked /\ Operand(r) = Operand(b)
  BY PlannedIs, LayoutOf
<1>3. (trails(l, r) <=> trails(a, b)) /\ (trails(r, l) <=> trails(b, a))
  BY <1>1, <1>2 DEF trails
<1>4. \A x, y : DOMAIN x = Fields =>
         from_tensor(AddedOnDevice(x, y))
           = Fresh(x.shape, IF x.shape = y.shape THEN contiguous_strides(x.shape)
                            ELSE elementwise_output_strides(x.shape, <<Operand(x), Operand(y)>>))
  BY OwnedFound DEF AddedOnDevice
<1> HIDE DEF l, r
<1>5. CASE ~(is_contiguous(a) /\ is_contiguous(b))
  <2>1. add_cuda(a, b) = {}
    BY <1>5 DEF add_cuda, When
  <2>2. planned_add(l, r) = {}
    BY <1>1, <1>2, <1>5 DEF planned_add
  <2> QED BY <2>1, <2>2 DEF Found, l, r
<1>6. CASE is_contiguous(a) /\ is_contiguous(b) /\ a.shape = b.shape
  <2>1. ~trails(b, a)
    BY <1>6 DEF trails
  <2>2. add_cuda(a, b) = {AddedOnDevice(a, b)}
    BY <1>1, <1>2, <1>6, <2>1 DEF add_cuda, When
  <2>3. planned_add(l, r) = {Fresh(a.shape, contiguous_strides(a.shape))}
    BY <1>1, <1>2, <1>6 DEF planned_add
  <2>4. from_tensor(AddedOnDevice(a, b)) = Fresh(a.shape, contiguous_strides(a.shape))
    BY <1>1, <1>4, <1>6
  <2> QED BY <2>2, <2>3, <2>4 DEF Found, l, r
<1>7. CASE is_contiguous(a) /\ is_contiguous(b) /\ a.shape # b.shape /\ trails(a, b)
  <2>1. ~trails(b, a)
    BY <1>7 DEF trails
  <2>2. add_cuda(a, b) = {AddedOnDevice(a, b)}
    BY <1>1, <1>2, <1>7, <2>1 DEF add_cuda, When
  <2>3. planned_add(l, r) = {Fresh(a.shape, elementwise_output_strides(a.shape, <<Operand(a), Operand(b)>>))}
    BY <1>1, <1>2, <1>3, <1>7 DEF planned_add
  <2>4. from_tensor(AddedOnDevice(a, b))
          = Fresh(a.shape, elementwise_output_strides(a.shape, <<Operand(a), Operand(b)>>))
    BY <1>1, <1>4, <1>7
  <2> QED BY <2>2, <2>3, <2>4 DEF Found, l, r
<1>8. CASE is_contiguous(a) /\ is_contiguous(b) /\ a.shape # b.shape /\ ~trails(a, b) /\ trails(b, a)
  <2>2. add_cuda(a, b) = {AddedOnDevice(b, a)}
    BY <1>1, <1>2, <1>8 DEF add_cuda, When
  <2>3. planned_add(l, r) = {Fresh(b.shape, elementwise_output_strides(b.shape, <<Operand(b), Operand(a)>>))}
    BY <1>1, <1>2, <1>3, <1>8 DEF planned_add, When
  <2>4. from_tensor(AddedOnDevice(b, a))
          = Fresh(b.shape, elementwise_output_strides(b.shape, <<Operand(b), Operand(a)>>))
    BY <1>2, <1>4, <1>8
  <2> QED BY <2>2, <2>3, <2>4 DEF Found, l, r
<1>9. CASE is_contiguous(a) /\ is_contiguous(b) /\ a.shape # b.shape /\ ~trails(a, b) /\ ~trails(b, a)
  <2>1. add_cuda(a, b) = {}
    BY <1>9 DEF add_cuda, When
  <2>2. planned_add(l, r) = {}
    BY <1>1, <1>2, <1>3, <1>9 DEF planned_add, When
  <2> QED BY <2>1, <2>2 DEF Found, l, r
<1> QED BY <1>5, <1>6, <1>7, <1>8, <1>9

LEMMA MatmulPlanned ==
  ASSUME NEW a, Planned(a), NEW b, Planned(b)
  PROVE  planned_matmul(from_tensor(a), from_tensor(b)) = cuda_matmul_layout(a, b)
<1> DEFINE l == from_tensor(a)
           r == from_tensor(b)
<1>1. a.device = "cuda" /\ ~a.tracked /\ (contiguous(l) <=> is_contiguous(a)) /\ l.shape = a.shape
  BY PlannedIs, LayoutOf
<1>2. b.device = "cuda" /\ ~b.tracked /\ (contiguous(r) <=> is_contiguous(b)) /\ r.shape = b.shape
  BY PlannedIs, LayoutOf
<1> HIDE DEF l, r
<1>3. planned_matmul(l, r) = cuda_matmul_layout(a, b)
  BY <1>1, <1>2 DEF planned_matmul, cuda_matmul_layout, When, Fresh
<1> QED BY <1>3 DEF l, r

\* A copy of the tensor, relaid.
Laid(p, shape, strides) == [p EXCEPT !.shape = shape, !.strides = strides, !.offset = 0]

LEMMA CopyFound ==
  ASSUME NEW t, DOMAIN t = Fields, NEW st, NEW shape, NEW strides
  PROVE  from_tensor(Laid(Packed(t, st), shape, strides)) = Fresh(shape, strides)
<1> DEFINE p == Packed(t, st)
           r == Laid(p, shape, strides)
<1>1. DOMAIN p = Fields
  BY DEF Packed, from_owned_parts, Fields
<1> HIDE DEF p
<1>2. r.shape = shape /\ r.strides = strides /\ r.offset = 0
  BY <1>1 DEF Fields, Laid
<1> HIDE DEF r
<1> QED BY <1>2 DEF from_tensor, Fresh, r, p

LEMMA ReshapesPlanned ==
  ASSUME NEW t, Planned(t), NEW shape \in Seq(Nat), element_count(shape) = elements(t)
  PROVE  /\ PlannedReshape(from_tensor(t), shape, reshape_view_strides(t.shape, t.strides, shape), FALSE)
              = Found(reshape_resolved(t, shape))
         /\ PlannedReshape(from_tensor(t), shape, reshape_view_strides(t.shape, t.strides, shape), TRUE)
              = Found(RecordedReshape(t, shape))
<1> DEFINE l == from_tensor(t)
           strides == reshape_view_strides(t.shape, t.strides, shape)
           view_ == RecordedView(t, shape, strides, t.offset, Identity)
           relaid == [l EXCEPT !.shape = shape, !.strides = strides]
           fresh == Fresh(shape, contiguous_strides(shape))
           copies == {[packed EXCEPT !.shape = shape, !.strides = contiguous_strides(shape), !.offset = 0] :
                        packed \in try_contiguous(t, "contiguous")}
<1>1. /\ DOMAIN t = Fields /\ t.device = "cuda" /\ l.shape = t.shape /\ l.strides = t.strides
      /\ Layout(t.shape, t.strides) /\ elements(t) = element_count(t.shape)
  BY PlannedIs, LayoutOf
<1>2. from_tensor(view_) = relaid
  <2> HIDE DEF strides, l
  <2>1. from_tensor(view_) = [shape |-> shape, strides |-> strides, offset |-> t.offset]
    BY <1>1, ViewFound
  <2>2. relaid = [shape |-> shape, strides |-> strides, offset |-> t.offset]
    BY Rearranged, Zenon DEF l
  <2> QED BY <2>1, <2>2, Zenon
<1>3. /\ RecordedReshape(t, shape) = When(strides # NoView, view_)
      /\ reshape_resolved(t, shape) = IF strides # NoView THEN RecordedReshape(t, shape) ELSE copies
  BY DEF RecordedReshape, reshape_resolved
<1>4. \A only \in BOOLEAN : PlannedReshape(l, shape, strides, only)
                              = IF strides # NoView THEN {relaid} ELSE When(~only /\ Packs(l), fresh)
  BY DEF PlannedReshape
<1>5. strides = NoView => Found(copies) = When(Packs(l), fresh)
  <2> SUFFICES ASSUME strides = NoView PROVE Found(copies) = When(Packs(l), fresh)
    OBVIOUS
  <2>1. ~is_contiguous(t)
    BY <1>1, ContiguousViews DEF is_contiguous
  <2>2. try_contiguous(t, "contiguous") = When(cuda_packs(t), Packed(t, contiguous_strides(t.shape)))
    BY <2>1, NotContiguous
  <2>3. cuda_packs(t) <=> Packs(l)
    BY <2>1, PacksAgree
  <2> DEFINE st == contiguous_strides(t.shape)
             laid == contiguous_strides(shape)
             copy(p) == Laid(p, shape, laid)
  <2>4. from_tensor(copy(Packed(t, st))) = fresh
    <3> HIDE DEF st, laid
    <3>1. from_tensor(copy(Packed(t, st))) = Fresh(shape, laid)
      BY <1>1, CopyFound
    <3> QED BY <3>1 DEF laid
  <2>5. copies = {copy(p) : p \in When(cuda_packs(t), Packed(t, st))}
    BY <2>2 DEF Laid
  <2> HIDE DEF copies, copy, st, fresh, l
  <2> QED BY <2>3, <2>4, <2>5 DEF Found, When
<1> HIDE DEF view_, relaid, fresh, copies, strides
<1>6. PlannedReshape(l, shape, strides, FALSE) = Found(reshape_resolved(t, shape))
  <2>1. CASE strides # NoView
    BY <1>2, <1>3, <1>4, <2>1 DEF Found, When
  <2>2. CASE strides = NoView
    BY <1>3, <1>4, <1>5, <2>2 DEF Found, When
  <2> QED BY <2>1, <2>2
<1>7. PlannedReshape(l, shape, strides, TRUE) = Found(RecordedReshape(t, shape))
  BY <1>2, <1>3, <1>4 DEF Found, When
<1> QED BY <1>6, <1>7 DEF l, strides

LEMMA ReshapePlanned ==
  ASSUME NEW t, Planned(t), NEW request \in Seq(Int), Len(request) <= 2
  PROVE  /\ planned_reshape(from_tensor(t), request, FALSE) = Found(reshape(t, request))
         /\ planned_reshape(from_tensor(t), request, TRUE) = Found(view(t, request))
<1> DEFINE l == from_tensor(t)
           shapes == resolve_reshape_shape(request, elements(t))
           P(shape, only) == PlannedReshape(l, shape, reshape_view_strides(t.shape, t.strides, shape), only)
           R(shape) == reshape_resolved(t, shape)
           V(shape) == RecordedReshape(t, shape)
<1>1. /\ l.shape = t.shape /\ l.strides = t.strides /\ Bounded(l)
      /\ elements(t) = element_count(t.shape)
  BY PlannedIs, LayoutOf
<1>2. elements(t) \in Nat
  BY <1>1, PlannedIs, CountIs
<1>3. ASSUME NEW shape \in shapes PROVE P(shape, FALSE) = Found(R(shape)) /\ P(shape, TRUE) = Found(V(shape))
  <2>1. shape \in Seq(Nat) /\ element_count(shape) = elements(t)
    BY <1>2, ResolvedShape
  <2> QED BY <2>1, ReshapesPlanned
<1>4. \A only \in BOOLEAN : planned_reshape(l, request, only) = UNION {P(shape, only) : shape \in shapes}
  <2>1. {s \in resolve_reshape_shape(request, element_count(l.shape)) : Bounded(l) /\ Len(request) <= 2} = shapes
    BY <1>1
  <2> HIDE DEF shapes
  <2> QED BY <1>1, <2>1 DEF planned_reshape
<1>5. reshape(t, request) = UNION {R(shape) : shape \in shapes}
  BY DEF reshape
<1>6. view(t, request) = UNION {V(shape) : shape \in shapes}
  BY DEF view
<1> HIDE DEF shapes, P, R, V, l
<1>7. UNION {P(shape, FALSE) : shape \in shapes} = Found(UNION {R(shape) : shape \in shapes})
  <2>1. ASSUME NEW x
        PROVE  x \in UNION {P(shape, FALSE) : shape \in shapes} <=> x \in Found(UNION {R(shape) : shape \in shapes})
    <3>1. \A shape \in shapes : x \in P(shape, FALSE) <=> \E r \in R(shape) : x = from_tensor(r)
      BY <1>3 DEF Found
    <3>2. x \in Found(UNION {R(shape) : shape \in shapes})
            <=> \E r \in UNION {R(shape) : shape \in shapes} : x = from_tensor(r)
      BY DEF Found
    <3>3. \A r : r \in UNION {R(shape) : shape \in shapes} <=> \E shape \in shapes : r \in R(shape)
      OBVIOUS
    <3>4. x \in UNION {P(shape, FALSE) : shape \in shapes} <=> \E shape \in shapes : x \in P(shape, FALSE)
      OBVIOUS
    <3> QED BY <3>1, <3>2, <3>3, <3>4
  <2> QED BY <2>1
<1>8. UNION {P(shape, TRUE) : shape \in shapes} = Found(UNION {V(shape) : shape \in shapes})
  <2>1. ASSUME NEW x
        PROVE  x \in UNION {P(shape, TRUE) : shape \in shapes} <=> x \in Found(UNION {V(shape) : shape \in shapes})
    <3>1. \A shape \in shapes : x \in P(shape, TRUE) <=> \E r \in V(shape) : x = from_tensor(r)
      BY <1>3 DEF Found
    <3>2. x \in Found(UNION {V(shape) : shape \in shapes})
            <=> \E r \in UNION {V(shape) : shape \in shapes} : x = from_tensor(r)
      BY DEF Found
    <3>3. \A r : r \in UNION {V(shape) : shape \in shapes} <=> \E shape \in shapes : r \in V(shape)
      OBVIOUS
    <3>4. x \in UNION {P(shape, TRUE) : shape \in shapes} <=> \E shape \in shapes : x \in P(shape, TRUE)
      OBVIOUS
    <3> QED BY <3>1, <3>2, <3>3, <3>4
  <2> QED BY <2>1
<1> QED BY <1>4, <1>5, <1>6, <1>7, <1>8 DEF l

LEMMA PlansAgree == Held /\ Placed => PlansMatchExecution
<1> SUFFICES ASSUME Held, Placed, tensor.device = "cuda"
             PROVE  /\ UnaryPlansHold(tensor, Requests)
                    /\ kept.device = "cuda" => BinaryPlansHold(tensor, kept) /\ BinaryPlansHold(kept, tensor)
  BY DEF PlansMatchExecution
<1>1. /\ Allocated(tensor) /\ Sited(tensor) /\ Allocated(kept) /\ Sited(kept)
  BY DEF Held, Placed
<1>2. UnaryPlansHold(tensor, Requests)
  <2> DEFINE l == from_tensor(tensor)
             dimensions == -3 .. 2
  <2> SUFFICES ASSUME Bounded(l)
               PROVE  /\ planned_squeeze(l) = Found({squeeze_selected(tensor, DOMAIN tensor.shape)})
                      /\ planned_t(l) = Found(reverse_dimensions(tensor))
                      /\ \A dim0, dim1 \in dimensions :
                            planned_transpose(l, dim0, dim1) = Found(transpose(tensor, dim0, dim1))
                      /\ \A request \in {r \in Requests : Len(r) <= 2} :
                            /\ planned_reshape(l, request, FALSE) = Found(reshape(tensor, request))
                            /\ planned_reshape(l, request, TRUE) = Found(view(tensor, request))
                      /\ planned_contiguous(l) = Found(try_contiguous(tensor, "contiguous"))
                      /\ planned_map(l) = Found(negate(tensor))
                      /\ planned_mul_scalar(l) = Found(mul_scalar(tensor, 2))
                      /\ \A keepdim \in BOOLEAN :
                            planned_sum_rows(l, keepdim)
                              = IF Len(tensor.shape) = 2
                                THEN Found(sum_rank_two_dimension(tensor, 2, keepdim)) ELSE {}
    BY Zenon DEF UnaryPlansHold
  <2>1. Planned(tensor)
    BY <1>1 DEF Planned
  <2>2. \A d \in dimensions : d \in Int
    OBVIOUS
  <2> HIDE DEF l, dimensions
  <2>3. \A dim0, dim1 \in dimensions : planned_transpose(l, dim0, dim1) = Found(transpose(tensor, dim0, dim1))
    BY <2>1, <2>2, TransposePlanned DEF l
  <2>4. \A request \in {r \in Requests : Len(r) <= 2} :
           /\ planned_reshape(l, request, FALSE) = Found(reshape(tensor, request))
           /\ planned_reshape(l, request, TRUE) = Found(view(tensor, request))
    <3> SUFFICES ASSUME NEW request \in Requests, Len(request) <= 2
                 PROVE  /\ planned_reshape(l, request, FALSE) = Found(reshape(tensor, request))
                        /\ planned_reshape(l, request, TRUE) = Found(view(tensor, request))
      OBVIOUS
    <3> QED BY <2>1, RequestsAre, ReshapePlanned DEF l
  <2>5. /\ planned_squeeze(l) = Found({squeeze_selected(tensor, DOMAIN tensor.shape)})
        /\ planned_t(l) = Found(reverse_dimensions(tensor))
    BY <2>1, SqueezePlanned, MatrixPlanned DEF l
  <2>6. /\ planned_contiguous(l) = Found(try_contiguous(tensor, "contiguous"))
        /\ planned_map(l) = Found(negate(tensor))
        /\ planned_mul_scalar(l) = Found(mul_scalar(tensor, 2))
    BY <2>1, ContiguousPlanned, MapPlanned, ScalePlanned DEF l
  <2>7. \A keepdim \in BOOLEAN :
           planned_sum_rows(l, keepdim)
             = IF Len(tensor.shape) = 2 THEN Found(sum_rank_two_dimension(tensor, 2, keepdim)) ELSE {}
    BY <2>1, SumRowsPlanned DEF l
  <2> QED BY <2>3, <2>4, <2>5, <2>6, <2>7, Zenon
<1>3. ASSUME NEW a, Allocated(a), Sited(a), a.device = "cuda", NEW b, Allocated(b), Sited(b), b.device = "cuda"
      PROVE  BinaryPlansHold(a, b)
  <2> DEFINE l == from_tensor(a)
             r == from_tensor(b)
  <2> SUFFICES ASSUME Bounded(l), Bounded(r)
               PROVE  /\ planned_add(l, r) = Found(add_cuda(a, b))
                      /\ planned_matmul(l, r) = cuda_matmul_layout(a, b)
    BY Zenon DEF BinaryPlansHold
  <2>1. Planned(a) /\ Planned(b)
    BY <1>3 DEF Planned
  <2> QED BY <2>1, AddPlanned, MatmulPlanned
<1> QED BY <1>1, <1>2, <1>3, Zenon

-----------------------------------------------------------------------------
(***************************************************************************)
(* Elements and slots correspond.  A linear index has one tuple of         *)
(* coordinates and every tuple has an index, so a layout fills the slots   *)
(* that its coordinates lead to; axes that are taken one after the other,  *)
(* each with the stride the ones before it make, lead to one stretch.      *)
(***************************************************************************)
Vectors(n) == [1..n -> Nat]

Tuples(shape) == {c \in Vectors(Len(shape)) : \A d \in 1..Len(shape) : c[d] < shape[d]}

\* How far from the offset the element with these coordinates lies.
Terms(strides, c) == [d \in DOMAIN strides |-> c[d] * strides[d]]
At(strides, c) == SumOf(Terms(strides, c), DOMAIN strides)

Moved(c, d, j) == [c EXCEPT ![d] = j]

\* The slots reached when only the axes in U move.
Supported(shape, U) == {c \in Tuples(shape) : \A d \in (1..Len(shape)) \ U : c[d] = 0}
Slots(shape, strides, U) == {At(strides, c) : c \in Supported(shape, U)}

LEMMA MovedVector ==
  ASSUME NEW n \in Nat, NEW c \in Vectors(n), NEW d \in 1..n, NEW j \in Nat
  PROVE  Moved(c, d, j) \in Vectors(n)
BY DEF Moved, Vectors

LEMMA MovedIs ==
  ASSUME NEW n \in Nat, NEW c \in Vectors(n), NEW d \in 1..n, NEW j \in Nat
  PROVE  Moved(c, d, j)[d] = j /\ \A x \in (1..n) \ {d} : Moved(c, d, j)[x] = c[x]
BY DEF Moved, Vectors

LEMMA Unmoved ==
  ASSUME NEW n \in Nat, NEW c \in Vectors(n), NEW d \in 1..n
  PROVE  Moved(c, d, c[d]) = c
BY DEF Moved, Vectors

LEMMA TermsAre ==
  ASSUME NEW n \in Nat, NEW strides \in Vectors(n), NEW c \in Vectors(n)
  PROVE  /\ \A x \in 1..n : Terms(strides, c)[x] = c[x] * strides[x]
         /\ \A x \in 1..n : Terms(strides, c)[x] \in Nat
         /\ At(strides, c) = SumOf(Terms(strides, c), 1..n) /\ At(strides, c) \in Nat
<1>1. DOMAIN strides = 1..n /\ IsFiniteSet(1..n)
  BY FS_Interval DEF Vectors
<1>2. ASSUME NEW x \in 1..n PROVE Terms(strides, c)[x] = c[x] * strides[x] /\ c[x] * strides[x] \in Nat
  <2>1. c[x] \in Nat /\ strides[x] \in Nat
    BY DEF Vectors
  <2>2. c[x] * strides[x] \in Nat
    BY <2>1
  <2> QED BY <1>1, <2>2 DEF Terms
<1>3. \A x \in 1..n : Terms(strides, c)[x] \in Nat
  BY <1>2
<1>4. At(strides, c) = SumOf(Terms(strides, c), 1..n)
  BY <1>1 DEF At
<1>5. SumOf(Terms(strides, c), 1..n) \in Nat
  BY <1>1, <1>3, SumType
<1> QED BY <1>2, <1>3, <1>4, <1>5

LEMMA AtRest ==
  ASSUME NEW n \in Nat, NEW strides \in Vectors(n), NEW c \in Vectors(n), NEW d \in 1..n, NEW j \in Nat
  PROVE  At(strides, Moved(c, d, j)) = j * strides[d] + SumOf(Terms(strides, c), (1..n) \ {d})
<1> DEFINE D == 1..n
           m == Moved(c, d, j)
           a == Terms(strides, m)
           b == Terms(strides, c)
<1>1. m \in Vectors(n) /\ m[d] = j /\ \A x \in (1..n) \ {d} : m[x] = c[x]
  BY MovedVector, MovedIs
<1>2. d \in D /\ IsFiniteSet(D) /\ IsFiniteSet(D \ {d})
  <2>1. IsFiniteSet(D)
    BY FS_Interval
  <2> QED BY <2>1, FS_RemoveElement
<1> HIDE DEF m
<1>3. /\ \A x \in D : a[x] = m[x] * strides[x]
      /\ \A x \in D : a[x] \in Nat
      /\ At(strides, m) = SumOf(a, D)
  BY <1>1, TermsAre
<1>4. /\ \A x \in D : b[x] = c[x] * strides[x]
      /\ \A x \in D : b[x] \in Nat
  BY TermsAre
<1>5. \A x \in D \ {d} : a[x] = b[x]
  BY <1>1, <1>3, <1>4
<1>6. (\A x \in D : a[x] \in Int) /\ \A x \in D \ {d} : b[x] \in Int
  BY <1>3, <1>4
<1>7. a[d] = j * strides[d]
  BY <1>1, <1>2, <1>3
<1> HIDE DEF a, b, D
<1>8. SumOf(a, D) = a[d] + SumOf(a, D \ {d})
  BY <1>2, <1>6, SumRemove
<1>9. SumOf(a, D \ {d}) = SumOf(b, D \ {d})
  BY <1>2, <1>5, <1>6, SumSame
<1> QED BY <1>3, <1>7, <1>8, <1>9 DEF m, b, D

LEMMA AtMoved ==
  ASSUME NEW n \in Nat, NEW strides \in Vectors(n), NEW c \in Vectors(n), NEW d \in 1..n, NEW j \in Nat
  PROVE  At(strides, Moved(c, d, j)) = At(strides, Moved(c, d, 0)) + j * strides[d]
<1> DEFINE rest == SumOf(Terms(strides, c), (1..n) \ {d})
           s == strides[d]
<1>1. At(strides, Moved(c, d, 0)) = 0 * s + rest /\ At(strides, Moved(c, d, j)) = j * s + rest
  BY AtRest
<1>2. s \in Nat
  BY DEF Vectors
<1>3. At(strides, Moved(c, d, 0)) \in Nat
  <2>1. Moved(c, d, 0) \in Vectors(n)
    BY MovedVector
  <2> QED BY <2>1, TermsAre
<1>4. rest \in Int
  <2>1. \A x \in (1..n) \ {d} : Terms(strides, c)[x] \in Int
    BY TermsAre
  <2>2. IsFiniteSet((1..n) \ {d})
    <3>1. IsFiniteSet(1..n)
      BY FS_Interval
    <3> QED BY <3>1, FS_RemoveElement
  <2> QED BY <2>1, <2>2, SumInt
<1> HIDE DEF rest, s
<1>5. j * s \in Nat
  BY <1>2
<1>6. 0 * s = 0
  BY <1>2
<1> QED BY <1>1, <1>3, <1>4, <1>5, <1>6 DEF s

LEMMA TuplesAre ==
  ASSUME NEW shape \in Seq(Nat), NEW U, NEW c \in Supported(shape, U)
  PROVE  /\ c \in Vectors(Len(shape)) /\ c \in Tuples(shape)
         /\ \A d \in 1..Len(shape) : c[d] < shape[d]
         /\ \A d \in (1..Len(shape)) \ U : c[d] = 0
BY DEF Supported, Tuples

\* Within an offset below E, the next axis places its steps E apart.
LEMMA SlotsGrow ==
  ASSUME NEW shape, NEW strides, Layout(shape, strides), NEW U, NEW d \in (1..Len(shape)) \ U,
         shape[d] # 0, NEW E \in Nat \ {0}, Slots(shape, strides, U) = 0..(E - 1),
         shape[d] # 1 => strides[d] = E
  PROVE  Slots(shape, strides, U \cup {d}) = 0..(E * shape[d] - 1)
<1> DEFINE n == Len(shape)
           s == shape[d]
<1>0. /\ n \in Nat /\ strides \in Vectors(n) /\ shape \in Seq(Nat) /\ s \in Nat \ {0} /\ d \in 1..n
      /\ strides[d] \in Nat
  <2>1. strides \in Vectors(n) /\ n \in Nat /\ shape \in Seq(Nat)
    BY DEF Layout, Vectors
  <2> QED BY <2>1 DEF Vectors
<1> HIDE DEF n
<1>1. ASSUME NEW j \in Nat, j < s PROVE j * strides[d] = j * E
  <2>1. CASE s = 1
    <3>1. j = 0
      BY <1>1, <2>1
    <3> QED BY <1>0, <3>1
  <2>2. CASE s # 1
    BY <2>2
  <2> QED BY <2>1, <2>2
<1>2. ASSUME NEW c \in Supported(shape, U \cup {d}) PROVE At(strides, c) \in 0..(E * s - 1)
  <2>1. /\ c \in Vectors(n) /\ \A x \in 1..n : c[x] < shape[x]
        /\ \A x \in (1..n) \ (U \cup {d}) : c[x] = 0
    BY <1>0, TuplesAre DEF n
  <2> DEFINE b == Moved(c, d, 0)
             j == c[d]
  <2>2. /\ b \in Vectors(n) /\ b[d] = 0 /\ \A x \in (1..n) \ {d} : b[x] = c[x]
        /\ Moved(c, d, j) = c
    <3>1. b \in Vectors(n)
      BY <1>0, <2>1, MovedVector
    <3>2. b[d] = 0 /\ \A x \in (1..n) \ {d} : b[x] = c[x]
      BY <1>0, <2>1, MovedIs
    <3>3. Moved(c, d, j) = c
      BY <1>0, <2>1, Unmoved
    <3> QED BY <3>1, <3>2, <3>3
  <2>3. j \in Nat /\ j < s
    BY <1>0, <2>1 DEF Vectors
  <2>4. At(strides, c) = At(strides, b) + j * strides[d]
    <3> HIDE DEF j, b
    <3>1. At(strides, Moved(c, d, j)) = At(strides, Moved(c, d, 0)) + j * strides[d]
      BY <1>0, <2>1, <2>3, AtMoved
    <3> QED BY <2>2, <3>1 DEF b
  <2> HIDE DEF b
  <2>5. b \in Supported(shape, U)
    <3>1. ASSUME NEW x \in 1..n PROVE b[x] < shape[x] /\ (x \notin U => b[x] = 0)
      <4>1. CASE x = d
        BY <1>0, <2>2, <4>1
      <4>2. CASE x # d
        BY <2>1, <2>2, <4>2
      <4> QED BY <4>1, <4>2
    <3> QED BY <2>2, <3>1 DEF Supported, Tuples, n
  <2>6. At(strides, b) \in 0..(E - 1)
    BY <2>5 DEF Slots
  <2>7. At(strides, c) = At(strides, b) + j * E
    BY <1>1, <2>3, <2>4
  <2>8. j * E \in Nat /\ j * E + E <= E * s
    <3> DEFINE k == s - 1 - j
    <3>1. k \in Nat /\ s = (j + k) + 1
      BY <1>0, <2>3
    <3> HIDE DEF k, j, s
    <3>2. E * s = E * (j + k) + E /\ E * (j + k) = j * E + E * k
      BY <2>3, <3>1
    <3>3. j * E \in Nat /\ E * k \in Nat
      BY <2>3, <3>1
    <3> QED BY <3>2, <3>3
  <2>9. E * s \in Nat
    BY <1>0
  <2> HIDE DEF j, s
  <2> QED BY <2>6, <2>7, <2>8, <2>9
<1>3. ASSUME NEW y \in 0..(E * s - 1)
      PROVE  \E c \in Supported(shape, U \cup {d}) : At(strides, c) = y
  <2> DEFINE q == y \div E
             r == y - E * q
  <2>0. y \in Nat /\ y < E * s /\ E * s \in Nat
    BY <1>0
  <2>1. q \in Nat /\ r \in 0..(E - 1) /\ y = r + q * E
    BY <2>0, QuotientIs
  <2> HIDE DEF q, r
  <2>2. q < s
    <3> SUFFICES ASSUME q >= s PROVE FALSE
      BY <1>0, <2>1
    <3> DEFINE k == q - s
    <3>1. k \in Nat /\ q = s + k
      BY <1>0, <2>1
    <3> HIDE DEF k, s
    <3>2. q * E = E * s + k * E /\ k * E \in Nat
      BY <1>0, <3>1
    <3> QED BY <2>0, <2>1, <3>2
  <2>3. PICK b \in Supported(shape, U) : At(strides, b) = r
    BY <2>1 DEF Slots
  <2>4. /\ b \in Vectors(n) /\ \A x \in 1..n : b[x] < shape[x]
        /\ \A x \in (1..n) \ U : b[x] = 0
    BY <1>0, TuplesAre DEF n
  <2> DEFINE c == Moved(b, d, q)
  <2>5. /\ c \in Vectors(n) /\ c[d] = q /\ \A x \in (1..n) \ {d} : c[x] = b[x]
    <3>1. c \in Vectors(n)
      BY <1>0, <2>1, <2>4, MovedVector
    <3>2. c[d] = q /\ \A x \in (1..n) \ {d} : c[x] = b[x]
      BY <1>0, <2>1, <2>4, MovedIs
    <3> QED BY <3>1, <3>2
  <2>6. Moved(b, d, 0) = b
    <3>1. b[d] = 0
      BY <1>0, <2>4
    <3> QED BY <1>0, <2>4, <3>1, Unmoved
  <2>7. At(strides, c) = r + q * strides[d]
    BY <1>0, <2>1, <2>3, <2>4, <2>6, AtMoved
  <2>8. At(strides, c) = y
    BY <1>1, <2>1, <2>2, <2>7
  <2> HIDE DEF c
  <2>9. c \in Supported(shape, U \cup {d})
    <3>1. ASSUME NEW x \in 1..n PROVE c[x] < shape[x] /\ (x \notin U \cup {d} => c[x] = 0)
      <4>1. CASE x = d
        BY <2>2, <2>5, <4>1
      <4>2. CASE x # d
        BY <2>4, <2>5, <4>2
      <4> QED BY <4>1, <4>2
    <3> QED BY <2>5, <3>1 DEF Supported, Tuples, n
  <2> QED BY <2>8, <2>9
<1> QED BY <1>2, <1>3 DEF Slots

LEMMA SlotsOfNone ==
  ASSUME NEW shape, NEW strides, Layout(shape, strides), NonEmpty(shape)
  PROVE  Slots(shape, strides, {}) = 0..0
<1> DEFINE n == Len(shape)
           z == [d \in 1..n |-> 0]
<1>1. shape \in Seq(Nat) /\ n \in Nat /\ DOMAIN strides = 1..n /\ strides \in Vectors(n)
  BY DEF Layout, Vectors
<1>2. Supported(shape, {}) = {z}
  <2>1. z \in Supported(shape, {})
    <3>1. \A d \in 1..n : 0 < shape[d]
      BY <1>1 DEF NonEmpty
    <3> QED BY <3>1 DEF Supported, Tuples, Vectors
  <2>2. ASSUME NEW c \in Supported(shape, {}) PROVE c = z
    <3>1. c \in Vectors(n) /\ \A d \in 1..n : c[d] = 0
      BY <1>1, TuplesAre
    <3> QED BY <3>1 DEF Vectors
  <2> HIDE DEF z
  <2> QED BY <2>1, <2>2
<1>3. At(strides, z) = 0
  <2> DEFINE w == Terms(strides, z)
  <2>1. \A d \in 1..n : w[d] = 0
    BY <1>1 DEF Terms, Vectors
  <2>2. IsFiniteSet(1..n)
    BY <1>1, FS_Interval
  <2>3. At(strides, z) = SumOf(w, 1..n)
    BY <1>1 DEF At
  <2> HIDE DEF w, n
  <2> QED BY <2>1, <2>2, <2>3, SumZero
<1>4. 0..0 = {0}
  OBVIOUS
<1> QED BY <1>2, <1>3, <1>4 DEF Slots

LEMMA QuotientOnly ==
  ASSUME NEW a \in Nat, NEW b \in Nat \ {0}, NEW k \in Nat, NEW r \in 0..(b - 1), a = b * k + r
  PROVE  a \div b = k
<1> DEFINE q == a \div b
<1>1. q \in Nat /\ b * q <= a /\ a < b * q + b
  BY QuotientIs
<1> HIDE DEF q
<1>2. ASSUME NEW x \in Nat, NEW y \in Nat, x < y PROVE b * x + b <= b * y
  <2>1. y - x - 1 \in Nat /\ y = x + (y - x - 1) + 1
    BY <1>2
  <2> DEFINE z == y - x - 1
  <2>2. z \in Nat /\ y = x + z + 1
    BY <2>1
  <2> HIDE DEF z
  <2>3. b * y = b * x + b * z + b /\ b * z \in Nat
    BY <2>2
  <2> QED BY <2>3
<1>3. b * k \in Nat /\ b * q \in Nat
  BY <1>1
<1>4. ~(q < k) /\ ~(k < q)
  BY <1>1, <1>2, <1>3
<1> QED BY <1>1, <1>4 DEF q

LEMMA QuotientTwice ==
  ASSUME NEW a \in Nat, NEW b \in Nat \ {0}, NEW c \in Nat \ {0}
  PROVE  (a \div b) \div c = a \div (b * c)
<1> DEFINE q == a \div b
           r == a - b * q
           p == q \div c
           t == q - c * p
<1>1. q \in Nat /\ b * q <= a /\ a < b * q + b
  BY QuotientIs
<1>2. r \in 0..(b - 1) /\ a = b * q + r
  <2> HIDE DEF q
  <2>1. b * q \in Nat
    BY <1>1
  <2> QED BY <1>1, <2>1
<1>3. p \in Nat /\ c * p <= q /\ q < c * p + c
  <2> HIDE DEF q
  <2> QED BY <1>1, QuotientIs
<1>4. t \in 0..(c - 1) /\ q = c * p + t
  <2> HIDE DEF p, q
  <2>1. c * p \in Nat
    BY <1>3
  <2> QED BY <1>1, <1>3, <2>1
<1> HIDE DEF q, r, p, t
<1> DEFINE u == b * t + r
<1>5. a = (b * c) * p + u
  <2>1. b * q = b * (c * p) + b * t
    BY <1>1, <1>3, <1>4
  <2>2. b * (c * p) = (b * c) * p
    BY <1>3
  <2> DEFINE X == b * q
             Y == b * (c * p)
             T == b * t
  <2>3. a = X + r /\ X = Y + T /\ Y \in Nat /\ T \in Nat /\ X \in Nat
    <3>1. c * p \in Nat /\ b * t \in Nat /\ b * q \in Nat
      BY <1>1, <1>3, <1>4
    <3>2. b * (c * p) \in Nat
      BY <3>1
    <3> QED BY <1>2, <2>1, <3>1, <3>2
  <2>4. u = T + r /\ r \in Nat
    BY <1>2
  <2> HIDE DEF X, Y, T, u
  <2>5. a = Y + u
    BY <2>3, <2>4
  <2> QED BY <2>2, <2>5 DEF Y
<1>6. u \in 0..(b * c - 1)
  <2> DEFINE v == c - 1 - t
  <2>1. v \in Nat /\ c = t + v + 1 /\ t \in Nat
    BY <1>4
  <2> HIDE DEF v
  <2>2. b * c = b * t + b * v + b /\ b * v \in Nat /\ b * t \in Nat
    BY <2>1
  <2> QED BY <1>2, <2>2
<1>7. b * c \in Nat \ {0}
  <2>1. b * c \in Nat
    OBVIOUS
  <2>2. b * c # 0
    BY <1>6, <2>1
  <2> QED BY <2>1, <2>2
<1> DEFINE m == b * c
<1>8. a = m * p + u /\ u \in 0..(m - 1) /\ m \in Nat \ {0}
  BY <1>5, <1>6, <1>7
<1> HIDE DEF m, u
<1>9. a \div m = p
  BY <1>3, <1>8, QuotientOnly
<1> QED BY <1>9 DEF m, p, q

\* The extents up to the j-th, those after the d-th of them, and the sizes
\* they make.
LEMMA StretchIs ==
  ASSUME NEW shape \in Seq(Nat), NonEmpty(shape), NEW j \in 0..Len(shape), NEW d \in 0..j
  PROVE  /\ ProductOf(shape, (d + 1)..j) \in Nat \ {0}
         /\ j < Len(shape) =>
              ProductOf(shape, (d + 1)..(j + 1)) = shape[j + 1] * ProductOf(shape, (d + 1)..j)
<1>0. j \in Nat /\ d \in Nat /\ d <= j /\ j <= Len(shape) /\ Len(shape) \in Nat
  OBVIOUS
<1>1. \A x \in 1..Len(shape) : shape[x] \in Nat /\ shape[x] # 0
  BY DEF NonEmpty
<1>2. IsFiniteSet((d + 1)..j)
  <2>1. d + 1 \in Int /\ j \in Int
    BY <1>0
  <2> QED BY <2>1, FS_Interval
<1>3. \A x \in (d + 1)..j : shape[x] \in Nat /\ shape[x] # 0
  BY <1>0, <1>1
<1>4. ProductOf(shape, (d + 1)..j) \in Nat /\ ProductOf(shape, (d + 1)..j) # 0
  BY <1>2, <1>3, ProductType, ProductZero
<1>5. ASSUME j < Len(shape)
      PROVE  ProductOf(shape, (d + 1)..(j + 1)) = shape[j + 1] * ProductOf(shape, (d + 1)..j)
  <2>1. (d + 1)..(j + 1) = ((d + 1)..j) \cup {j + 1} /\ j + 1 \notin (d + 1)..j
    BY <1>0
  <2>2. \A x \in ((d + 1)..j) \cup {j + 1} : shape[x] \in Nat
    BY <1>0, <1>1, <1>5
  <2> QED BY <1>2, <2>1, <2>2, ProductAdd
<1> QED BY <1>4, <1>5

LEMMA CoordinatesAre ==
  ASSUME NEW shape \in Seq(Nat), NonEmpty(shape), NEW k \in Nat
  PROVE  /\ Coordinates(shape, k) \in Tuples(shape)
         /\ \A d \in 1..Len(shape) :
              Coordinates(shape, k)[d] = (k \div ProductOf(shape, (d + 1)..Len(shape))) % shape[d]
<1> DEFINE n == Len(shape)
           c == Coordinates(shape, k)
<1>1. n \in Nat /\ DOMAIN shape = 1..n /\ \A d \in 1..n : shape[d] \in Nat \ {0}
  BY DEF NonEmpty
<1>2. ASSUME NEW d \in 1..n
      PROVE  /\ c[d] = (k \div ProductOf(shape, (d + 1)..n)) % shape[d]
             /\ c[d] \in Nat /\ c[d] < shape[d]
  <2>1. c[d] = (k \div Product(SubSeq(shape, d + 1, n))) % shape[d]
    BY <1>1 DEF Coordinates
  <2>2. Product(SubSeq(shape, d + 1, n)) = ProductOf(shape, (d + 1)..n)
    <3>1. n \in 0..n /\ d \in 0..n
      BY <1>1
    <3>2. Covered(shape, d, n) = ProductOf(shape, (d + 1)..n)
      BY <3>1, CoveredIs
    <3> QED BY <3>2 DEF Covered
  <2> DEFINE W == ProductOf(shape, (d + 1)..n)
  <2>3. W \in Nat \ {0}
    <3>1. n \in 0..n /\ d \in 0..n
      BY <1>1
    <3> QED BY <3>1, StretchIs
  <2>4. c[d] = (k \div W) % shape[d]
    BY <2>1, <2>2
  <2> HIDE DEF c, W
  <2>5. k \div W \in Nat
    BY <2>3, QuotientIs
  <2> DEFINE q == k \div W
             s == shape[d]
  <2>6. q \in Nat /\ s \in Nat \ {0} /\ c[d] = q % s
    BY <1>1, <2>4, <2>5
  <2> HIDE DEF q, s
  <2>7. c[d] \in Nat /\ c[d] < s
    BY <2>6
  <2> QED BY <2>4, <2>7 DEF W, s
<1>3. c \in Vectors(n)
  <2>1. c = [d \in 1..n |-> c[d]]
    BY <1>1 DEF Coordinates
  <2> HIDE DEF c
  <2> QED BY <1>2, <2>1 DEF Vectors
<1> QED BY <1>2, <1>3 DEF Tuples

\* Every tuple of coordinates is that of an element.
LEMMA Encodes ==
  ASSUME NEW shape \in Seq(Nat), NonEmpty(shape), NEW c \in Tuples(shape)
  PROVE  \E k \in 0..(element_count(shape) - 1) : Coordinates(shape, k) = c
<1> DEFINE n == Len(shape)
           Code(h, j) == /\ h \in Nat /\ h < ProductOf(shape, 1..j)
                         /\ \A d \in 1..j : (h \div ProductOf(shape, (d + 1)..j)) % shape[d] = c[d]
           G == {j \in Nat : j <= n => \E h : Code(h, j)}
<1>0. /\ n \in Nat /\ c \in Vectors(n)
      /\ \A d \in 1..n : shape[d] \in Nat \ {0} /\ c[d] \in Nat /\ c[d] < shape[d]
  BY DEF NonEmpty, Tuples, Vectors
<1>1. 0 \in G
  <2>1. 1..0 = {}
    OBVIOUS
  <2>2. ProductOf(shape, 1..0) = 1
    BY <2>1, ProductEmpty
  <2>3. Code(0, 0)
    BY <2>1, <2>2
  <2> HIDE DEF Code
  <2> QED BY <2>3
<1>2. ASSUME NEW j \in Nat, j \in G PROVE j + 1 \in G
  <2> SUFFICES ASSUME j + 1 <= n PROVE \E h : Code(h, j + 1)
    OBVIOUS
  <2> HIDE DEF n
  <2>1. j \in 0..n /\ j < n /\ j + 1 \in 1..n /\ j + 1 \in 0..n
    BY <1>0
  <2>2. PICK g : Code(g, j)
    <3> HIDE DEF Code
    <3> QED BY <1>2, <2>1
  <2>3. /\ g \in Nat /\ g < ProductOf(shape, 1..j)
        /\ \A d \in 1..j : (g \div ProductOf(shape, (d + 1)..j)) % shape[d] = c[d]
    BY <2>2
  <2> HIDE DEF Code
  <2> DEFINE s == shape[j + 1]
             x == c[j + 1]
             h == s * g + x
  <2>4. s \in Nat \ {0} /\ x \in 0..(s - 1) /\ x \in Nat
    BY <1>0, <2>1
  <2>5. h \in Nat /\ h \div s = g
    <3> HIDE DEF s, x
    <3>1. s * g \in Nat
      BY <2>3, <2>4
    <3>2. h \in Nat
      BY <2>4, <3>1
    <3>3. h = s * g + x
      OBVIOUS
    <3> HIDE DEF h
    <3> QED BY <2>3, <2>4, <3>2, <3>3, QuotientOnly
  <2>6. h < ProductOf(shape, 1..(j + 1))
    <3> DEFINE P == ProductOf(shape, 1..j)
    <3>1. P \in Nat \ {0} /\ ProductOf(shape, 1..(j + 1)) = s * P
      <4>1. ASSUME NEW d \in 0..j, d + 1 = 1
            PROVE  P \in Nat \ {0} /\ ProductOf(shape, 1..(j + 1)) = s * P
        <5>1. /\ ProductOf(shape, (d + 1)..j) \in Nat \ {0}
              /\ ProductOf(shape, (d + 1)..(j + 1)) = s * ProductOf(shape, (d + 1)..j)
          BY <2>1, StretchIs DEF n
        <5> QED BY <4>1, <5>1
      <4>2. 0 \in 0..j /\ 0 + 1 = 1
        BY <2>1
      <4> QED BY <4>1, <4>2
    <3> HIDE DEF P, s, x
    <3> DEFINE y == P - 1 - g
    <3>2. y \in Nat /\ P = g + y + 1
      BY <2>3, <3>1 DEF P
    <3> HIDE DEF y
    <3>3. s * P = s * g + s * y + s /\ s * y \in Nat /\ s * g \in Nat
      BY <2>3, <2>4, <3>2
    <3> QED BY <2>4, <3>1, <3>3
  <2>7. ASSUME NEW d \in 1..(j + 1)
        PROVE  (h \div ProductOf(shape, (d + 1)..(j + 1))) % shape[d] = c[d]
    <3>1. CASE d = j + 1
      <4>1. ProductOf(shape, (d + 1)..(j + 1)) = 1
        <5>1. (d + 1)..(j + 1) = {}
          BY <2>1, <3>1
        <5> QED BY <5>1, ProductEmpty
      <4>2. h \div 1 = h
        BY <2>5
      <4>3. h % s = x
        <5> HIDE DEF s, x
        <5>0. h = s * g + x
          OBVIOUS
        <5> HIDE DEF h
        <5>1. h = s * (h \div s) + (h % s)
          BY <2>4, <2>5
        <5>2. s * g \in Nat /\ h % s \in Nat
          BY <2>3, <2>4, <2>5
        <5>3. s * (h \div s) = s * g
          BY <2>5
        <5> DEFINE p == s * g
                   m == h % s
        <5>4. h = p + x /\ h = p + m /\ p \in Nat /\ m \in Nat /\ x \in Nat
          BY <2>4, <5>0, <5>1, <5>2, <5>3
        <5> HIDE DEF p, m
        <5>5. m = x
          BY <5>4
        <5> QED BY <5>5 DEF m
      <4> HIDE DEF h
      <4> QED BY <3>1, <4>1, <4>2, <4>3
    <3>2. CASE d # j + 1
      <4>1. d \in 1..j /\ d \in 0..j
        BY <2>1, <3>2
      <4> DEFINE W == ProductOf(shape, (d + 1)..j)
      <4>2. W \in Nat \ {0} /\ ProductOf(shape, (d + 1)..(j + 1)) = s * W
        BY <2>1, <4>1, StretchIs DEF n
      <4> HIDE DEF h, s
      <4>3. (h \div s) \div W = h \div (s * W)
        <5> HIDE DEF W
        <5> QED BY <2>4, <2>5, <4>2, QuotientTwice
      <4> QED BY <2>3, <2>5, <4>1, <4>2, <4>3
    <3> QED BY <3>1, <3>2
  <2>8. Code(h, j + 1)
    <3> HIDE DEF h
    <3> QED BY <2>5, <2>6, <2>7 DEF Code
  <2> QED BY <2>8
<1>3. n \in G
  <2> HIDE DEF G
  <2> QED BY <1>0, <1>1, <1>2, NatSetInduction
<1>4. PICK k : Code(k, n)
  <2> HIDE DEF Code
  <2> QED BY <1>0, <1>3
<1>5. element_count(shape) = ProductOf(shape, 1..n) /\ element_count(shape) \in Nat
  BY CountIs
<1>6. k \in 0..(element_count(shape) - 1)
  BY <1>4, <1>5
<1>7. Coordinates(shape, k) = c
  <2> DEFINE b == Coordinates(shape, k)
  <2>1. k \in Nat
    BY <1>4
  <2>2. b \in Tuples(shape) /\ \A d \in 1..n : b[d] = c[d]
    BY <1>4, <2>1, CoordinatesAre
  <2> HIDE DEF b, n
  <2>3. b \in Vectors(n)
    BY <2>2 DEF Tuples, n
  <2>4. b = c
    BY <1>0, <2>2, <2>3 DEF Vectors
  <2> QED BY <2>4 DEF b
<1> QED BY <1>6, <1>7

LEMMA SlotIs ==
  ASSUME NEW shape, NEW strides, Layout(shape, strides), NonEmpty(shape),
         NEW k \in 1..element_count(shape)
  PROVE  /\ k - 1 \in Nat /\ Coordinates(shape, k - 1) \in Tuples(shape)
         /\ OutputSlots(shape, strides)[k] = At(strides, Coordinates(shape, k - 1))
<1> DEFINE c == Coordinates(shape, k - 1)
<1>1. k - 1 \in Nat /\ shape \in Seq(Nat) /\ DOMAIN strides = 1..Len(shape) /\ Len(shape) \in Nat
      /\ strides \in Vectors(Len(shape))
  BY CountIs DEF Layout, Vectors
<1>2. c \in Tuples(shape)
  BY <1>1, CoordinatesAre
<1>3. OutputSlots(shape, strides)[k] = 0 + Total(Terms(strides, c))
  BY DEF OutputSlots, logical_offset_for_linear_index, Address, Terms
<1> HIDE DEF c
<1>4. Total(Terms(strides, c)) = At(strides, c)
  <2>1. DOMAIN Terms(strides, c) = DOMAIN strides
    BY DEF Terms
  <2> QED BY <2>1, TotalIs DEF At
<1>5. At(strides, c) \in Nat
  <2>1. c \in Vectors(Len(shape))
    BY <1>2 DEF Tuples
  <2> QED BY <1>1, <2>1, TermsAre
<1> QED BY <1>1, <1>2, <1>3, <1>4, <1>5 DEF c

\* The slots of the elements are those that all coordinates lead to.
LEMMA AllSlots ==
  ASSUME NEW shape, NEW strides, Layout(shape, strides), NonEmpty(shape)
  PROVE  Range(OutputSlots(shape, strides)) = Slots(shape, strides, 1..Len(shape))
<1> DEFINE N == element_count(shape)
           slots == OutputSlots(shape, strides)
<1>1. shape \in Seq(Nat) /\ N \in Nat
  BY CountIs DEF Layout
<1>2. Supported(shape, 1..Len(shape)) = Tuples(shape)
  BY DEF Supported
<1>3. Range(slots) = {slots[k] : k \in 1..N}
  BY DEF Range, OutputSlots
<1>4. ASSUME NEW k \in 1..N PROVE \E c \in Tuples(shape) : At(strides, c) = slots[k]
  BY SlotIs
<1>5. ASSUME NEW c \in Tuples(shape) PROVE \E k \in 1..N : slots[k] = At(strides, c)
  <2>1. PICK k \in 0..(N - 1) : Coordinates(shape, k) = c
    BY <1>1, Encodes
  <2>2. k + 1 \in 1..N /\ (k + 1) - 1 = k
    BY <1>1
  <2>3. slots[k + 1] = At(strides, Coordinates(shape, (k + 1) - 1))
    BY <2>2, SlotIs
  <2> QED BY <2>1, <2>2, <2>3
<1> HIDE DEF slots, N
<1> QED BY <1>2, <1>3, <1>4, <1>5 DEF Slots, slots

OneStretch(shape, strides) == Range(OutputSlots(shape, strides)) = Linear(element_count(shape))

LEMMA PacksIs ==
  ASSUME NEW shape, NEW strides, Layout(shape, strides)
  PROVE  /\ ~NonEmpty(shape) => OneStretch(shape, strides)
         /\ NonEmpty(shape) =>
              (OneStretch(shape, strides)
                 <=> Slots(shape, strides, 1..Len(shape)) = 0..(element_count(shape) - 1))
<1>1. ASSUME ~NonEmpty(shape) PROVE OneStretch(shape, strides)
  <2>1. element_count(shape) = 0
    BY <1>1, NonEmptyIs DEF Layout
  <2>2. Range(OutputSlots(shape, strides)) = {}
    BY <2>1 DEF Range, OutputSlots
  <2>3. Linear(0) = {}
    BY DEF Linear
  <2> QED BY <2>1, <2>2, <2>3 DEF OneStretch
<1>2. ASSUME NonEmpty(shape)
      PROVE  Range(OutputSlots(shape, strides)) = Slots(shape, strides, 1..Len(shape))
  BY <1>2, AllSlots
<1> QED BY <1>1, <1>2 DEF OneStretch, Linear

\* Axes laid out one after the other, each with the stride the ones before
\* it make.
LEMMA OrderPacks ==
  ASSUME NEW shape, NEW strides, Layout(shape, strides), NEW order, Permutation(order, Len(shape)),
         NonEmpty(shape) =>
           \A p \in 1..Len(shape) : shape[order[p]] # 1 =>
              strides[order[p]] = ProductOf(shape, {order[q] : q \in 1..(p - 1)})
  PROVE  OneStretch(shape, strides)
<1> SUFFICES ASSUME NonEmpty(shape)
             PROVE  Slots(shape, strides, 1..Len(shape)) = 0..(element_count(shape) - 1)
  BY PacksIs
<1> DEFINE n == Len(shape)
           U(k) == {order[q] : q \in 1..k}
           E(k) == ProductOf(shape, U(k))
           G == {k \in Nat : k <= n => E(k) \in Nat \ {0} /\ Slots(shape, strides, U(k)) = 0..(E(k) - 1)}
<1>0. n \in Nat /\ IsFiniteSet(1..n) /\ \A d \in 1..n : shape[d] \in Nat /\ shape[d] # 0
  <2>1. n \in Nat /\ \A d \in 1..n : shape[d] \in Nat
    BY DEF Layout
  <2>2. \A d \in 1..n : shape[d] # 0
    BY DEF NonEmpty
  <2>3. IsFiniteSet(1..n)
    BY <2>1, FS_Interval
  <2> QED BY <2>1, <2>2, <2>3
<1>1. U(n) = 1..n /\ \A p \in 1..n : order[p] \in 1..n /\ \A q \in 1..n : order[p] = order[q] => p = q
  BY DEF Permutation
<1> HIDE DEF n
<1>2. 0 \in G
  <2>1. U(0) = {}
    OBVIOUS
  <2>2. ProductOf(shape, {}) = 1 /\ Slots(shape, strides, {}) = 0..0
    BY ProductEmpty, SlotsOfNone
  <2> DEFINE V == U(0)
  <2>3. V = {}
    BY <2>1
  <2> HIDE DEF V
  <2>4. ProductOf(shape, V) = 1 /\ Slots(shape, strides, V) = 0..(ProductOf(shape, V) - 1)
    <3>1. ASSUME NEW P, P = 1 PROVE 0..(P - 1) = 0..0
      BY <3>1
    <3>2. ProductOf(shape, V) = 1 /\ Slots(shape, strides, V) = 0..0
      BY <2>2, <2>3
    <3> QED BY <3>1, <3>2
  <2> QED BY <2>4 DEF V
<1>3. ASSUME NEW k \in Nat, k \in G PROVE k + 1 \in G
  <2> SUFFICES ASSUME k + 1 <= n
               PROVE  E(k + 1) \in Nat \ {0} /\ Slots(shape, strides, U(k + 1)) = 0..(E(k + 1) - 1)
    OBVIOUS
  <2> DEFINE d == order[k + 1]
             V == U(k)
             P == ProductOf(shape, V)
  <2>1. k + 1 \in 1..n /\ (k + 1) - 1 = k /\ \A q \in 1..k : q \in 1..n /\ q # k + 1
    BY <1>0
  <2>2. U(k + 1) = V \cup {d} /\ d \notin V /\ V \subseteq 1..n /\ d \in 1..n
    <3>1. 1..(k + 1) = (1..k) \cup {k + 1}
      OBVIOUS
    <3>2. d \in 1..n /\ V \subseteq 1..n
      BY <1>1, <2>1
    <3>3. d \notin V
      BY <1>1, <2>1
    <3> QED BY <3>1, <3>2, <3>3
  <2>3. P \in Nat \ {0} /\ Slots(shape, strides, V) = 0..(P - 1)
    BY <1>0, <1>3, <2>1
  <2>4. shape[d] # 1 => strides[d] = P
    BY <2>1 DEF n
  <2>5. IsFiniteSet(V)
    BY <1>0, <2>2, FS_Subset
  <2>6. shape[d] \in Nat /\ shape[d] # 0 /\ \A x \in V \cup {d} : shape[x] \in Nat
    BY <1>0, <2>2
  <2> HIDE DEF d, V, G, U
  <2>7. ProductOf(shape, V \cup {d}) = shape[d] * P
    BY <2>2, <2>5, <2>6, ProductAdd
  <2> HIDE DEF P
  <2>8. Slots(shape, strides, V \cup {d}) = 0..(P * shape[d] - 1)
    BY <2>2, <2>3, <2>4, <2>6, SlotsGrow DEF n
  <2> DEFINE s == shape[d]
  <2>9. s * P = P * s /\ s * P \in Nat \ {0}
    <3>1. s \in Nat \ {0} /\ P \in Nat \ {0}
      BY <2>3, <2>6
    <3> HIDE DEF s
    <3>2. s * P \in Nat /\ s * P = P * s
      BY <3>1
    <3>3. s * P # 0
      BY <3>1
    <3> QED BY <3>2, <3>3
  <2> HIDE DEF s
  <2> QED BY <2>2, <2>7, <2>8, <2>9 DEF s
<1>4. n \in G
  <2> HIDE DEF G
  <2> QED BY <1>0, <1>2, <1>3, NatSetInduction
<1>5. Slots(shape, strides, U(n)) = 0..(E(n) - 1)
  <2> HIDE DEF E, U
  <2> QED BY <1>0, <1>4
<1>6. element_count(shape) = ProductOf(shape, 1..n)
  BY CountIs DEF Layout, n
<1> HIDE DEF U
<1> QED BY <1>1, <1>5, <1>6 DEF n

LEMMA PhysicalPacks ==
  ASSUME NEW shape \in Seq(Nat), NEW order, Permutation(order, Len(shape))
  PROVE  OneStretch(shape, strides_in_physical_order(shape, order))
<1> DEFINE n == Len(shape)
           st == strides_in_physical_order(shape, order)
<1>0. /\ n \in Nat /\ DOMAIN shape = 1..n /\ DOMAIN order = 1..n /\ \A p \in 1..n : order[p] \in 1..n
      /\ \A d \in 1..n : shape[d] \in Nat
  BY DEF Permutation
<1>1. ASSUME NEW p \in 1..n PROVE st[order[p]] = ProductOf(shape, {order[q] : q \in 1..(p - 1)})
  <2> DEFINE D == 1..(p - 1)
  <2>1. (CHOOSE r \in DOMAIN order : order[r] = order[p]) = p
    BY <1>0 DEF Permutation
  <2>2. st[order[p]] = Product([q \in D |-> shape[order[q]]])
    BY <1>0, <2>1 DEF strides_in_physical_order
  <2>3. IsFiniteSet(D) /\ D \subseteq 1..n
    <3>1. IsFiniteSet(D)
      BY FS_Interval
    <3>2. D \subseteq 1..n
      BY <1>0
    <3> QED BY <3>1, <3>2
  <2>4. \A q \in D : shape[order[q]] \in Nat
    BY <1>0, <2>3
  <2>5. \A q, r \in D : order[q] = order[r] => q = r
    BY <2>3 DEF Permutation
  <2> HIDE DEF D, st
  <2>6. ProductOf([q \in D |-> shape[order[q]]], D) = ProductOf(shape, {order[q] : q \in D})
    BY <2>3, <2>4, <2>5, ProductImage
  <2>7. Product([q \in D |-> shape[order[q]]]) = ProductOf([q \in D |-> shape[order[q]]], D)
    <3> DEFINE w == [q \in D |-> shape[order[q]]]
    <3>1. DOMAIN w = D
      OBVIOUS
    <3> HIDE DEF w
    <3>2. Product(w) = ProductOf(w, D)
      BY <3>1, ProductIs
    <3> QED BY <3>2 DEF w
  <2> QED BY <2>2, <2>6, <2>7 DEF D
<1>2. Layout(shape, st)
  BY PhysicalCompact
<1> HIDE DEF st
<1>3. NonEmpty(shape) =>
        \A p \in 1..Len(shape) : shape[order[p]] # 1 =>
           st[order[p]] = ProductOf(shape, {order[q] : q \in 1..(p - 1)})
  BY <1>1
<1>4. OneStretch(shape, st)
  BY <1>2, <1>3, OrderPacks
<1> QED BY <1>4 DEF st

LEMMA ContiguousPacks ==
  ASSUME NEW shape \in Seq(Nat)
  PROVE  OneStretch(shape, contiguous_strides(shape))
<1> DEFINE n == Len(shape)
           st == contiguous_strides(shape)
           order == RowMajor(n)
<1>0. n \in Nat /\ DOMAIN shape = 1..n /\ \A d \in 1..n : shape[d] \in Nat
  OBVIOUS
<1>1. Layout(shape, st) /\ Permutation(order, n)
  BY <1>0, ContiguousCompact, RowMajorPermutes
<1>2. \A p \in 1..n : order[p] = n + 1 - p
  BY DEF RowMajor
<1>3. ASSUME NonEmpty(shape), NEW d \in 1..n PROVE st[d] = ProductOf(shape, (d + 1)..n)
  <2> DEFINE s == [k \in 1..(n - d) |-> Max({1, shape[d + k]})]
  <2>1. st[d] = Product(s)
    BY <1>0 DEF contiguous_strides
  <2>2. ASSUME NEW k \in 1..(n - d) PROVE s[k] = shape[d + k]
    <3>1. d + k \in 1..n
      BY <1>0
    <3>2. ASSUME NEW x \in Nat, x # 0 PROVE Max({1, x}) = x
      <4>1. \A z \in {1, x} : x >= z
        BY <3>2
      <4>2. \A y \in {1, x} : (\A z \in {1, x} : y >= z) => y = x
        BY <3>2
      <4> QED BY <4>1, <4>2 DEF Max
    <3>3. shape[d + k] \in Nat /\ shape[d + k] # 0
      BY <1>0, <1>3, <3>1 DEF NonEmpty
    <3> QED BY <3>2, <3>3
  <2>3. \A j \in (d + 1)..n : shape[j] \in Nat
    BY <1>0
  <2>4. d \in Nat /\ DOMAIN s = 1..(n - d)
    OBVIOUS
  <2> HIDE DEF s, n
  <2>5. Product(s) = ProductOf(shape, (d + 1)..n)
    BY <1>0, <2>2, <2>3, <2>4, ShiftedProduct
  <2> QED BY <2>1, <2>5
<1>4. ASSUME NEW p \in 1..n PROVE {order[q] : q \in 1..(p - 1)} = (order[p] + 1)..n
  <2>1. \A q \in 1..(p - 1) : q \in 1..n /\ order[q] = n + 1 - q
    BY <1>0, <1>2
  <2>2. order[p] = n + 1 - p
    BY <1>2
  <2> HIDE DEF order
  <2>3. ASSUME NEW x \in (order[p] + 1)..n PROVE \E q \in 1..(p - 1) : order[q] = x
    <3>1. n + 1 - x \in 1..(p - 1) /\ n + 1 - (n + 1 - x) = x
      BY <1>0, <2>2
    <3> QED BY <2>1, <3>1
  <2>4. ASSUME NEW q \in 1..(p - 1) PROVE order[q] \in (order[p] + 1)..n
    BY <1>0, <2>1, <2>2
  <2> QED BY <2>3, <2>4
<1>5. ASSUME NonEmpty(shape), NEW p \in 1..n
      PROVE  st[order[p]] = ProductOf(shape, {order[q] : q \in 1..(p - 1)})
  <2>1. order[p] \in 1..n
    BY <1>0, <1>2
  <2> HIDE DEF order, st, n
  <2>2. st[order[p]] = ProductOf(shape, (order[p] + 1)..n)
    BY <1>3, <1>5, <2>1
  <2>3. {order[q] : q \in 1..(p - 1)} = (order[p] + 1)..n
    BY <1>4
  <2> QED BY <2>2, <2>3
<1> HIDE DEF st, order
<1>6. NonEmpty(shape) =>
        \A p \in 1..Len(shape) : shape[order[p]] # 1 =>
           st[order[p]] = ProductOf(shape, {order[q] : q \in 1..(p - 1)})
  BY <1>5
<1>7. OneStretch(shape, st)
  BY <1>1, <1>6, OrderPacks
<1> QED BY <1>7 DEF st

LEMMA ElementwisePacks ==
  ASSUME NEW shape \in Seq(Nat), NEW operands
  PROVE  OneStretch(shape, elementwise_output_strides(shape, operands))
<1> DEFINE order == elementwise_permutation(shape, operands)
<1>1. Permutation(order, Len(shape))
  BY ElementwisePermutes
<1> HIDE DEF order
<1>2. OneStretch(shape, contiguous_strides(shape)) /\ OneStretch(shape, strides_in_physical_order(shape, order))
  BY <1>1, ContiguousPacks, PhysicalPacks
<1> QED BY <1>2 DEF elementwise_output_strides, strides_permuted, order

-----------------------------------------------------------------------------
(***************************************************************************)
(* A layout is found dense exactly when its elements are one stretch: as   *)
(* long as some axes fill a stretch, one more goes on where it ends.       *)
(***************************************************************************)
Still(n) == [d \in 1..n |-> 0]
OneStep(n, d) == Moved(Still(n), d, 1)

LEMMA AtStill ==
  ASSUME NEW n \in Nat, NEW strides \in Vectors(n)
  PROVE  Still(n) \in Vectors(n) /\ At(strides, Still(n)) = 0
<1> DEFINE w == Terms(strides, Still(n))
<1>1. DOMAIN strides = 1..n /\ IsFiniteSet(1..n)
  BY FS_Interval DEF Vectors
<1>2. Still(n) \in Vectors(n)
  BY DEF Still, Vectors
<1>3. \A d \in 1..n : w[d] = 0
  <2>1. ASSUME NEW d \in 1..n PROVE w[d] = 0
    <3>1. w[d] = 0 * strides[d] /\ strides[d] \in Nat
      BY <1>1 DEF Terms, Still, Vectors
    <3> QED BY <3>1
  <2> QED BY <2>1
<1>4. At(strides, Still(n)) = SumOf(w, 1..n)
  BY <1>1 DEF At
<1> HIDE DEF w
<1> QED BY <1>1, <1>2, <1>3, <1>4, SumZero

\* One step along an axis leads its stride away.
LEMMA StepSlot ==
  ASSUME NEW shape, NEW strides, Layout(shape, strides), NonEmpty(shape),
         NEW d \in 1..Len(shape), shape[d] > 1, NEW U, d \in U
  PROVE  /\ OneStep(Len(shape), d) \in Supported(shape, U)
         /\ At(strides, OneStep(Len(shape), d)) = strides[d]
         /\ OneStep(Len(shape), d)[d] = 1
         /\ \A x \in (1..Len(shape)) \ {d} : OneStep(Len(shape), d)[x] = 0
<1> DEFINE n == Len(shape)
           z == Still(n)
           c == OneStep(n, d)
<1>0. n \in Nat /\ strides \in Vectors(n) /\ strides[d] \in Nat /\ \A x \in 1..n : shape[x] \in Nat /\ 0 < shape[x]
  BY DEF Layout, NonEmpty, Vectors
<1>1. z \in Vectors(n) /\ At(strides, z) = 0 /\ \A x \in 1..n : z[x] = 0
  <2>1. \A x \in 1..n : z[x] = 0
    BY DEF Still
  <2> QED BY <1>0, <2>1, AtStill
<1> HIDE DEF z, n
<1>2. c = Moved(z, d, 1) /\ d \in 1..n /\ 1 \in Nat /\ 0 \in Nat
  BY DEF OneStep, z, n
<1>3. c \in Vectors(n)
  BY <1>0, <1>1, <1>2, MovedVector
<1>4. c[d] = 1 /\ \A x \in (1..n) \ {d} : c[x] = z[x]
  BY <1>0, <1>1, <1>2, MovedIs
<1>5. At(strides, Moved(z, d, 1)) = At(strides, Moved(z, d, 0)) + 1 * strides[d]
  BY <1>0, <1>1, <1>2, AtMoved
<1>6. Moved(z, d, z[d]) = z
  BY <1>0, <1>1, <1>2, Unmoved
<1>7. At(strides, c) = strides[d]
  BY <1>0, <1>1, <1>2, <1>5, <1>6
<1> HIDE DEF c
<1>8. c \in Supported(shape, U)
  <2>1. ASSUME NEW x \in 1..n PROVE c[x] < shape[x] /\ (x \notin U => c[x] = 0)
    <3>1. CASE x = d
      BY <1>4, <3>1
    <3>2. CASE x # d
      BY <1>0, <1>1, <1>4, <3>2
    <3> QED BY <3>1, <3>2
  <2> QED BY <1>3, <2>1 DEF Supported, Tuples, n
<1> QED BY <1>1, <1>4, <1>7, <1>8 DEF c, n

\* The axes that are longer than one are all that count.
LEMMA LongSlots ==
  ASSUME NEW shape, NEW strides, Layout(shape, strides), NonEmpty(shape)
  PROVE  /\ Slots(shape, strides, LongAxes(shape)) = Slots(shape, strides, 1..Len(shape))
         /\ ProductOf(shape, LongAxes(shape)) = element_count(shape)
<1> DEFINE n == Len(shape)
           long == LongAxes(shape)
<1>1. /\ long \in SUBSET (1..n) /\ \A d \in (1..n) \ long : shape[d] = 1
      /\ \A d \in 1..n : shape[d] \in Nat
  BY LongIs
<1>2. shape \in Seq(Nat) /\ n \in Nat
  BY DEF Layout
<1>3. Supported(shape, long) = Supported(shape, 1..n)
  <2>1. ASSUME NEW c \in Supported(shape, 1..n) PROVE c \in Supported(shape, long)
    <3>1. c \in Vectors(n) /\ c \in Tuples(shape) /\ \A d \in 1..n : c[d] < shape[d]
      BY <1>2, TuplesAre
    <3>2. \A d \in 1..n : c[d] \in Nat
      BY <3>1 DEF Vectors
    <3>3. \A d \in (1..n) \ long : c[d] = 0
      BY <1>1, <3>1, <3>2
    <3> QED BY <3>1, <3>3 DEF Supported
  <2>2. Supported(shape, long) \subseteq Supported(shape, 1..n)
    BY DEF Supported
  <2> QED BY <2>1, <2>2
<1>4. IsFiniteSet(1..n)
  BY <1>2, FS_Interval
<1>5. element_count(shape) = ProductOf(shape, 1..n)
  BY <1>2, CountIs
<1> HIDE DEF long, n
<1>6. ProductOf(shape, 1..n) = ProductOf(shape, long)
  BY <1>1, <1>4, ProductRest
<1> QED BY <1>3, <1>5, <1>6 DEF Slots, long, n

\* Some long axes fill one stretch from the offset on.
Stretch(shape, strides, U, E) ==
  /\ U \in SUBSET LongAxes(shape) /\ E \in Nat \ {0} /\ E = ProductOf(shape, U)
  /\ Slots(shape, strides, U) = 0..(E - 1)

\* The axis that goes on where the stretch ends is a new one.
LEMMA StretchGrows ==
  ASSUME NEW shape, NEW strides, Layout(shape, strides), NonEmpty(shape), NEW U, NEW E,
         Stretch(shape, strides, U, E), NEW d \in LongAxes(shape), strides[d] = E
  PROVE  d \notin U /\ Stretch(shape, strides, U \cup {d}, E * shape[d])
<1> DEFINE n == Len(shape)
           long == LongAxes(shape)
           s == shape[d]
<1>1. /\ long \in SUBSET (1..n) /\ IsFiniteSet(long) /\ d \in 1..n /\ s \in Nat /\ s > 1
      /\ \A x \in 1..n : shape[x] \in Nat
  BY LongIs
<1>2. U \in SUBSET long /\ E \in Nat \ {0} /\ E = ProductOf(shape, U) /\ Slots(shape, strides, U) = 0..(E - 1)
  BY DEF Stretch
<1>3. d \notin U
  <2> SUFFICES ASSUME d \in U PROVE FALSE
    OBVIOUS
  <2>1. /\ OneStep(n, d) \in Supported(shape, U)
        /\ At(strides, OneStep(n, d)) = strides[d]
    BY <1>1, StepSlot
  <2>2. E \in Slots(shape, strides, U)
    BY <2>1 DEF Slots
  <2> QED BY <1>2, <2>2
<1>4. Slots(shape, strides, U \cup {d}) = 0..(E * shape[d] - 1)
  BY <1>1, <1>2, <1>3, SlotsGrow
<1>5. ProductOf(shape, U \cup {d}) = shape[d] * ProductOf(shape, U)
  <2>1. IsFiniteSet(U)
    BY <1>1, <1>2, FS_Subset
  <2>2. \A x \in U \cup {d} : shape[x] \in Nat
    BY <1>1, <1>2
  <2> QED BY <1>3, <2>1, <2>2, ProductAdd
<1>6. E * s \in Nat \ {0} /\ E * s = s * E
  <2> HIDE DEF s
  <2>1. E * s \in Nat /\ E * s = s * E
    BY <1>1, <1>2
  <2>2. E * s # 0
    BY <1>1, <1>2
  <2> QED BY <2>1, <2>2
<1> HIDE DEF long
<1> QED BY <1>2, <1>3, <1>4, <1>5, <1>6 DEF Stretch, long

LEMMA NoStretch ==
  ASSUME NEW shape, NEW strides, Layout(shape, strides), NonEmpty(shape)
  PROVE  Stretch(shape, strides, {}, 1)
<1>1. Slots(shape, strides, {}) = 0..0
  BY SlotsOfNone
<1>2. ProductOf(shape, {}) = 1
  BY ProductEmpty
<1>3. 0..0 = 0..(1 - 1)
  OBVIOUS
<1> QED BY <1>1, <1>2, <1>3 DEF Stretch

\* Of a layout with every element in a place of its own, exactly one axis
\* goes on where a stretch ends: the element there is reached along an axis
\* outside it, whose stride can be neither larger, nor smaller, for then two
\* elements would meet.
LEMMA StretchGoesOn ==
  ASSUME NEW shape, NEW strides, Layout(shape, strides), NonEmpty(shape), NEW U, NEW E,
         Stretch(shape, strides, U, E), U # LongAxes(shape),
         Slots(shape, strides, 1..Len(shape)) = 0..(element_count(shape) - 1),
         \A b, c \in Tuples(shape) : At(strides, b) = At(strides, c) => b = c
  PROVE  \E d \in LongAxes(shape) : {axis \in LongAxes(shape) : strides[axis] = E} = {d}
<1> DEFINE n == Len(shape)
           long == LongAxes(shape)
           N == element_count(shape)
<1>1. /\ long \in SUBSET (1..n) /\ IsFiniteSet(long)
      /\ \A d \in long : shape[d] \in Nat /\ shape[d] > 1
      /\ \A d \in (1..n) \ long : shape[d] = 1
      /\ \A d \in 1..n : shape[d] \in Nat /\ shape[d] # 0 /\ strides[d] \in Nat
  BY LongIs
<1>2. U \in SUBSET long /\ E \in Nat \ {0} /\ E = ProductOf(shape, U) /\ Slots(shape, strides, U) = 0..(E - 1)
  BY DEF Stretch
<1>3. n \in Nat /\ strides \in Vectors(n) /\ shape \in Seq(Nat) /\ N \in Nat
  BY CountIs DEF Layout, Vectors
<1>4. N = ProductOf(shape, long)
  BY LongSlots
<1> HIDE DEF long, n, N
<1>5. E < N
  <2>1. PICK b \in long \ U : TRUE
    BY <1>2 DEF long
  <2> DEFINE V == long \ U
  <2>2. IsFiniteSet(U) /\ IsFiniteSet(V) /\ IsFiniteSet(V \ {b}) /\ U \cap V = {} /\ U \cup V = long /\ b \in V
    <3>1. U \in SUBSET long /\ V \in SUBSET long /\ V \ {b} \in SUBSET long
      BY <1>2
    <3>2. IsFiniteSet(U) /\ IsFiniteSet(V) /\ IsFiniteSet(V \ {b})
      BY <1>1, <3>1, FS_Subset
    <3> QED BY <2>1, <3>1, <3>2
  <2>3. \A x \in U \cup V : shape[x] \in Nat /\ shape[x] # 0
    BY <1>1, <2>2
  <2>4. (\A x \in V : shape[x] \in Nat) /\ \A x \in V \ {b} : shape[x] \in Nat /\ shape[x] # 0
    BY <2>3
  <2> DEFINE s == shape[b]
             R == ProductOf(shape, V \ {b})
  <2>5. s \in Nat /\ s > 1
    BY <1>1, <2>1
  <2> HIDE DEF V
  <2>6. ProductOf(shape, U \cup V) = E * ProductOf(shape, V)
    BY <1>2, <2>2, <2>3, ProductApart
  <2>7. ProductOf(shape, V) = s * R
    BY <2>2, <2>4, ProductRemove
  <2>8. R \in Nat /\ R # 0
    BY <2>2, <2>4, ProductType, ProductZero
  <2> HIDE DEF s, R
  <2> DEFINE Q == s * R
  <2>9. Q \in Nat /\ Q > 1
    <3>1. R - 1 \in Nat /\ s * R = s + s * (R - 1) /\ s * (R - 1) \in Nat
      BY <2>5, <2>8
    <3> QED BY <2>5, <3>1
  <2>10. N = E * Q
    BY <1>4, <2>2, <2>6, <2>7
  <2> HIDE DEF Q
  <2>11. E * Q = E + E * (Q - 1) /\ E * (Q - 1) \in Nat \ {0}
    <3>1. Q - 1 \in Nat \ {0}
      BY <2>9
    <3> DEFINE p == Q - 1
    <3>2. p \in Nat \ {0} /\ Q = p + 1
      BY <2>9, <3>1
    <3> HIDE DEF p
    <3>3. E * Q = E + E * p /\ E * p \in Nat \ {0}
      <4>1. E * p \in Nat
        BY <1>2, <3>2
      <4>2. E * p # 0
        BY <1>2, <3>2
      <4>3. E * Q = E + E * p
        BY <1>2, <3>2
      <4> QED BY <4>1, <4>2, <4>3
    <3> QED BY <3>3 DEF p
  <2> QED BY <1>2, <1>3, <2>10, <2>11
<1>6. PICK c \in Tuples(shape) : At(strides, c) = E
  <2>1. E \in 0..(N - 1)
    BY <1>2, <1>3, <1>5
  <2>2. E \in Slots(shape, strides, 1..n)
    BY <2>1 DEF N, n
  <2> QED BY <2>2 DEF Slots, Supported
<1>7. c \in Vectors(n) /\ \A x \in 1..n : c[x] \in Nat /\ c[x] < shape[x]
  BY DEF Tuples, Vectors, n
<1>8. PICK d \in (1..n) \ U : c[d] # 0
  <2> SUFFICES ASSUME \A d \in (1..n) \ U : c[d] = 0 PROVE FALSE
    OBVIOUS
  <2>1. E \in Slots(shape, strides, U)
    BY <1>6 DEF Slots, Supported, n
  <2> QED BY <1>2, <2>1
<1>9. d \in long
  <2>1. shape[d] # 1
    BY <1>1, <1>7, <1>8
  <2> QED BY <1>1, <1>8, <2>1
<1>10. strides[d] <= E
  <2> DEFINE b == Moved(c, d, 0)
             j == c[d]
             t == strides[d]
  <2>1. At(strides, Moved(c, d, j)) = At(strides, b) + j * t
    BY <1>3, <1>7, <1>8, AtMoved
  <2>2. Moved(c, d, j) = c
    BY <1>3, <1>7, <1>8, Unmoved
  <2>3. b \in Vectors(n)
    BY <1>3, <1>7, <1>8, MovedVector
  <2> HIDE DEF b
  <2>4. At(strides, b) \in Nat
    BY <1>3, <2>3, TermsAre
  <2>5. j \in Nat \ {0} /\ t \in Nat
    BY <1>1, <1>7, <1>8
  <2>6. E = At(strides, b) + j * t
    BY <1>6, <2>1, <2>2
  <2> HIDE DEF j, t
  <2>7. j * t = t + (j - 1) * t /\ (j - 1) * t \in Nat
    <3>1. j - 1 \in Nat
      BY <2>5
    <3> DEFINE p == j - 1
    <3>2. p \in Nat /\ j = p + 1
      BY <2>5
    <3> HIDE DEF p
    <3>3. j * t = t + p * t /\ p * t \in Nat
      BY <2>5, <3>2
    <3> QED BY <3>3 DEF p
  <2>8. t <= E
    BY <1>2, <2>4, <2>5, <2>6, <2>7
  <2> QED BY <2>8 DEF t
<1>11. ASSUME NEW x \in long
       PROVE  /\ OneStep(n, x) \in Tuples(shape) /\ At(strides, OneStep(n, x)) = strides[x]
              /\ OneStep(n, x)[x] = 1 /\ \A y \in (1..n) \ {x} : OneStep(n, x)[y] = 0
  <2>1. x \in 1..Len(shape) /\ shape[x] > 1 /\ x \in 1..n
    BY <1>1 DEF n
  <2>2. /\ OneStep(n, x) \in Supported(shape, 1..n) /\ At(strides, OneStep(n, x)) = strides[x]
        /\ OneStep(n, x)[x] = 1 /\ \A y \in (1..n) \ {x} : OneStep(n, x)[y] = 0
    BY <2>1, StepSlot DEF n
  <2> QED BY <2>2 DEF Supported
<1>12. strides[d] = E
  <2> SUFFICES ASSUME strides[d] # E PROVE FALSE
    OBVIOUS
  <2>1. strides[d] \in Slots(shape, strides, U)
    <3>1. strides[d] \in Nat
      BY <1>1, <1>8
    <3>2. strides[d] \in 0..(E - 1)
      BY <1>2, <1>10, <3>1
    <3> QED BY <1>2, <3>2
  <2>2. PICK b \in Supported(shape, U) : At(strides, b) = strides[d]
    BY <2>1 DEF Slots
  <2>3. b \in Tuples(shape) /\ b[d] = 0
    BY <1>8, <2>2 DEF Supported, n
  <2>4. b = OneStep(n, d)
    BY <1>9, <1>11, <2>2, <2>3
  <2> QED BY <1>9, <1>11, <2>3, <2>4
<1>13. ASSUME NEW x \in long, strides[x] = E PROVE x = d
  <2>1. OneStep(n, x) = OneStep(n, d)
    BY <1>9, <1>11, <1>12, <1>13
  <2>2. OneStep(n, x)[x] = 1 /\ (x # d => OneStep(n, d)[x] = 0)
    BY <1>1, <1>9, <1>11
  <2> QED BY <2>1, <2>2
<1>14. {axis \in long : strides[axis] = E} = {d}
  BY <1>9, <1>12, <1>13
<1> QED BY <1>9, <1>14 DEF long

LEMMA DenseStretches ==
  ASSUME NEW shape, NEW strides, Layout(shape, strides), NonEmpty(shape)
  PROVE  layout_is_non_overlapping_and_dense(shape, strides)
           <=> Slots(shape, strides, 1..Len(shape)) = 0..(element_count(shape) - 1)
<1> DEFINE long == LongAxes(shape)
           N == Cardinality(long)
           dense == layout_is_non_overlapping_and_dense(shape, strides)
           fills == Slots(shape, strides, 1..Len(shape)) = 0..(element_count(shape) - 1)
<1>0. N \in Nat /\ IsFiniteSet(long) /\ \A d \in long : shape[d] \in Nat
  BY LongIs
<1>1. PICK f : /\ f[0] = 1
               /\ \A m \in 1..Cardinality(LongAxes(shape)) : f[m] = NextStride(shape, strides, f[m - 1])
               /\ \A m \in 0..Cardinality(LongAxes(shape)) : f[m] \in Nat
               /\ layout_is_non_overlapping_and_dense(shape, strides)
                    <=> f[Cardinality(LongAxes(shape))] # 0
               /\ layout_is_non_overlapping_and_dense(shape, strides)
                    => \A m \in 0..Cardinality(LongAxes(shape)) : f[m] # 0
  BY DenseSteps
<1> DEFINE Grown(m) == \E U : Cardinality(U) = m /\ Stretch(shape, strides, U, f[m])
           Single(b) == \E d \in long : AxesWith(shape, strides, b) = {d}
<1> HIDE DEF long, fills
<1>2. /\ \A m \in 1..N : f[m] = NextStride(shape, strides, f[m - 1])
      /\ \A m \in 0..N : f[m] \in Nat
      /\ dense <=> f[N] # 0
      /\ dense => \A m \in 0..N : f[m] # 0
  BY <1>1 DEF long
<1> HIDE DEF N, dense
<1>3. Grown(0)
  <2>1. Cardinality({}) = 0
    BY FS_EmptySet
  <2> QED BY <1>1, <2>1, NoStretch
<1>4. ASSUME NEW k \in Nat, k + 1 <= N, Grown(k), Single(f[k]) PROVE Grown(k + 1)
  <2>1. PICK U : Cardinality(U) = k /\ Stretch(shape, strides, U, f[k])
    BY <1>4
  <2>2. PICK d \in long : AxesWith(shape, strides, f[k]) = {d}
    BY <1>4
  <2>3. strides[d] = f[k] /\ d \in LongAxes(shape)
    BY <2>2 DEF AxesWith, long
  <2>4. d \notin U /\ Stretch(shape, strides, U \cup {d}, f[k] * shape[d])
    BY <2>1, <2>3, StretchGrows
  <2>5. f[k + 1] = f[k] * shape[d]
    <3>1. k + 1 \in 1..N /\ (k + 1) - 1 = k
      BY <1>0, <1>4
    <3>2. f[k + 1] = NextStride(shape, strides, f[k])
      BY <1>2, <3>1
    <3>3. Cardinality(AxesWith(shape, strides, f[k])) = 1
      BY <2>2, FS_Singleton
    <3>4. FoundAxis(shape, strides, f[k]) = d
      BY <2>2 DEF FoundAxis
    <3> QED BY <3>2, <3>3, <3>4 DEF NextStride
  <2>6. Cardinality(U \cup {d}) = k + 1
    <3>1. IsFiniteSet(U)
      BY <1>0, <2>1, FS_Subset DEF Stretch, long
    <3> QED BY <2>1, <2>4, <3>1, FS_AddElement
  <2> QED BY <2>4, <2>5, <2>6
<1>5. ASSUME Grown(N) PROVE fills /\ f[N] # 0
  <2>1. PICK U : Cardinality(U) = N /\ Stretch(shape, strides, U, f[N])
    BY <1>5
  <2>2. U = long
    BY <1>0, <2>1, FS_Subset DEF Stretch, N, long
  <2> QED BY <2>1, <2>2, LongSlots DEF Stretch, fills, long
<1>6. ASSUME dense PROVE fills
  <2>1. \A m \in 0..N : f[m] # 0
    BY <1>2, <1>6
  <2> DEFINE G == {k \in Nat : k <= N => Grown(k)}
  <2>2. 0 \in G
    BY <1>3
  <2>3. ASSUME NEW k \in Nat, k \in G PROVE k + 1 \in G
    <3> SUFFICES ASSUME k + 1 <= N PROVE Grown(k + 1)
      OBVIOUS
    <3>1. Grown(k)
      BY <1>0, <2>3
    <3>2. k + 1 \in 1..N /\ (k + 1) - 1 = k /\ k + 1 \in 0..N
      BY <1>0
    <3>3. Cardinality(AxesWith(shape, strides, f[k])) = 1
      <4>1. f[k + 1] = NextStride(shape, strides, f[k]) /\ f[k + 1] # 0
        BY <1>2, <2>1, <3>2
      <4> QED BY <4>1 DEF NextStride
    <3>4. Single(f[k])
      <4>1. IsFiniteSet(AxesWith(shape, strides, f[k]))
        BY <1>0, FS_Subset DEF AxesWith, long
      <4>2. PICK d : AxesWith(shape, strides, f[k]) = {d}
        BY <3>3, <4>1, FS_Singleton
      <4>3. d \in long
        BY <4>2 DEF AxesWith, long
      <4> QED BY <4>2, <4>3
    <3> HIDE DEF Grown, Single
    <3> QED BY <1>4, <3>1, <3>4
  <2>4. N \in G
    <3> HIDE DEF G
    <3> QED BY <1>0, <2>2, <2>3, NatSetInduction
  <2> HIDE DEF Grown
  <2> QED BY <1>0, <1>5, <2>4
<1>7. ASSUME fills PROVE dense
  <2>1. \A b, c \in Tuples(shape) : At(strides, b) = At(strides, c) => b = c
    <3> DEFINE M == element_count(shape)
               slots == OutputSlots(shape, strides)
    <3>1. shape \in Seq(Nat) /\ M \in Nat
      BY CountIs DEF Layout
    <3>2. Range(slots) = 0..(M - 1)
      BY <1>7, AllSlots DEF fills
    <3>3. slots \in [1..M -> 0..(M - 1)] /\ \A y \in 0..(M - 1) : \E k \in 1..M : slots[k] = y
      <4>1. DOMAIN slots = 1..M /\ slots = [k \in 1..M |-> slots[k]]
        BY DEF OutputSlots
      <4> HIDE DEF slots, M
      <4> QED BY <3>2, <4>1 DEF Range
    <3> HIDE DEF slots
    <3>4. IsFiniteSet(1..M) /\ Cardinality(1..M) = M /\ Cardinality(0..(M - 1)) = M
      <4>1. IsFiniteSet(1..M) /\ Cardinality(1..M) = M
        BY <3>1, FS_Interval
      <4>2. Cardinality(0..(M - 1)) = M
        BY <3>1, FS_Interval
      <4> QED BY <4>1, <4>2
    <3>5. slots \in Surjection(1..M, 0..(M - 1))
      BY <3>3 DEF Surjection
    <3>6. slots \in Injection(1..M, 0..(M - 1))
      BY <3>4, <3>5, FS_SurjSameCardinalityImpliesInj
    <3>7. \A j, k \in 1..M : slots[j] = slots[k] => j = k
      BY <3>6 DEF Injection, IsInjective
    <3>8. ASSUME NEW c \in Tuples(shape)
          PROVE  \E k \in 1..M : Coordinates(shape, k - 1) = c /\ slots[k] = At(strides, c)
      <4>1. PICK i \in 0..(M - 1) : Coordinates(shape, i) = c
        BY <3>1, Encodes
      <4>2. i + 1 \in 1..M /\ (i + 1) - 1 = i
        BY <3>1
      <4>3. slots[i + 1] = At(strides, Coordinates(shape, (i + 1) - 1))
        BY <4>2, SlotIs DEF slots
      <4> QED BY <4>1, <4>2, <4>3
    <3>9. ASSUME NEW b \in Tuples(shape), NEW c \in Tuples(shape), At(strides, b) = At(strides, c)
          PROVE  b = c
      <4>1. PICK j \in 1..M : Coordinates(shape, j - 1) = b /\ slots[j] = At(strides, b)
        BY <3>8
      <4>2. PICK k \in 1..M : Coordinates(shape, k - 1) = c /\ slots[k] = At(strides, c)
        BY <3>8
      <4> QED BY <3>7, <3>9, <4>1, <4>2
    <3> QED BY <3>9
  <2> DEFINE G == {k \in Nat : k <= N => Grown(k)}
  <2>2. 0 \in G
    BY <1>3
  <2>3. ASSUME NEW k \in Nat, k \in G PROVE k + 1 \in G
    <3> SUFFICES ASSUME k + 1 <= N PROVE Grown(k + 1)
      OBVIOUS
    <3>1. Grown(k)
      BY <1>0, <2>3
    <3>2. PICK U : Cardinality(U) = k /\ Stretch(shape, strides, U, f[k])
      BY <3>1
    <3>3. U # long
      BY <1>0, <3>2 DEF N
    <3>4. Single(f[k])
      BY <1>7, <2>1, <3>2, <3>3, StretchGoesOn DEF AxesWith, long, fills
    <3> HIDE DEF Grown, Single
    <3> QED BY <1>4, <3>1, <3>4
  <2>4. N \in G
    <3> HIDE DEF G
    <3> QED BY <1>0, <2>2, <2>3, NatSetInduction
  <2> HIDE DEF Grown
  <2> QED BY <1>0, <1>2, <1>5, <2>4
<1> QED BY <1>6, <1>7 DEF dense, fills

LEMMA DenseIffPacked ==
  ASSUME NEW shape, NEW strides, Layout(shape, strides)
  PROVE  /\ NonEmpty(shape) =>
              (layout_is_non_overlapping_and_dense(shape, strides) <=> OneStretch(shape, strides))
         /\ layout_is_non_overlapping_and_dense(shape, strides) => OneStretch(shape, strides)
<1>1. CASE NonEmpty(shape)
  BY <1>1, DenseStretches, PacksIs
<1>2. CASE ~NonEmpty(shape)
  BY <1>2, PacksIs
<1> QED BY <1>1, <1>2

LEMMA LayoutsPacked == ASSUME Held PROVE LayoutsArePacked
<1> DEFINE t == tensor
           plan == BroadcastPlan(tensor, kept)
<1>1. Allocated(t) /\ Allocated(kept)
  BY DEF Held
<1>2. t.shape \in Seq(Nat) /\ Layout(t.shape, t.strides)
  BY <1>1 DEF Allocated, Layout
<1>3. NonEmpty(t.shape) <=> elements(t) # 0
  BY <1>2, NonEmptyIs DEF elements
<1>4. elements(t) \in Nat
  BY <1>2, CountIs DEF elements
<1>5. DenseIsOneStretch
  <2>1. ASSUME elements(t) > 0 PROVE is_dense(t) <=> OneStretch(t.shape, t.strides)
    BY <1>2, <1>3, <1>4, <2>1, DenseIffPacked DEF is_dense
  <2> QED BY <2>1 DEF DenseIsOneStretch, OneStretch, elements
<1>6. OneStretch(t.shape, contiguous_strides(t.shape))
  BY <1>2, ContiguousPacks
<1>7. is_dense(t) => OneStretch(t.shape, t.strides)
  BY <1>2, DenseIffPacked DEF is_dense
<1>8. OneStretch(t.shape, elementwise_output_strides(t.shape, <<Operand(t)>>))
  BY <1>2, ElementwisePacks
<1>9. is_channels_last(t) => OneStretch(t.shape, strides_in_physical_order(t.shape, ChannelsLast))
  BY <1>1, <1>2, ChosenLays, ChannelsLastPermutes, PhysicalPacks
<1>10. OneStretch(t.shape, preserve_format_strides(t))
  BY <1>7, <1>8 DEF preserve_format_strides
<1>11. OneStretch(t.shape, unary_output_strides(t))
  BY <1>6, <1>7, <1>8, <1>9 DEF unary_output_strides
<1>12. OneStretch(t.shape, leaf_gradient_strides(t.shape, t.strides))
  BY <1>6, <1>7 DEF leaf_gradient_strides, is_dense
<1>13. ASSUME \A d \in DOMAIN plan.shape : plan.shape[d] # -1 PROVE OneStretch(plan.shape, plan.strides)
  <2>1. plan.shape = BroadcastShape(t, kept)
    BY DEF BroadcastPlan, PlanFor
  <2>2. BroadcastShape(t, kept) \in Seq(Nat)
    BY <1>1, <1>13, <2>1, BroadcastShapeIs
  <2>3. plan.strides = elementwise_output_strides(plan.shape, <<Operand(t), Operand(kept)>>)
    BY DEF BroadcastPlan, PlanFor
  <2> QED BY <2>1, <2>2, <2>3, ElementwisePacks
<1>14. ResultsArePacked
  BY <1>10, <1>11, <1>12, <1>13 DEF ResultsArePacked, OneStretch
<1> QED BY <1>5, <1>14 DEF LayoutsArePacked

-----------------------------------------------------------------------------
(***************************************************************************)
(* Views of another shape.  A view can be had when along each of its axes  *)
(* every step is as the first; the chunks of the tensor's own axes split   *)
(* into axes of the view exactly then.                                     *)
(***************************************************************************)
\* How many elements one step along an axis passes over, and where an element is.
Inner(shape, a) == ProductOf(shape, (a + 1)..Len(shape))
Off(shape, strides, k) == logical_offset_for_linear_index(shape, strides, 0, k)

LEMMA VectorsEqual ==
  ASSUME NEW n, NEW u \in Vectors(n), NEW v \in Vectors(n), \A x \in 1..n : u[x] = v[x]
  PROVE  u = v
<1>1. u = [x \in 1..n |-> u[x]] /\ v = [x \in 1..n |-> v[x]]
  BY DEF Vectors
<1> QED BY <1>1

LEMMA SplitIndex ==
  ASSUME NEW a \in Nat, NEW b \in Nat \ {0}, NEW y \in Nat, y < a * b
  PROVE  \E j, r \in Nat : j < a /\ r < b /\ y = j * b + r
<1> DEFINE j == y \div b
           r == y - b * j
<1>1. j \in Nat /\ b * j <= y /\ y < b * j + b
  BY QuotientIs
<1>2. j < a
  <2> SUFFICES ASSUME j >= a PROVE FALSE
    BY <1>1
  <2> HIDE DEF j
  <2> DEFINE k == j - a
  <2>1. k \in Nat /\ j = a + k
    BY <1>1
  <2> HIDE DEF k
  <2>2. b * j = a * b + b * k /\ b * k \in Nat
    BY <2>1
  <2>3. a * b \in Nat
    OBVIOUS
  <2> QED BY <1>1, <2>2, <2>3
<1> HIDE DEF j
<1>3. b * j \in Nat /\ b * j = j * b
  BY <1>1
<1>4. r \in Nat /\ r < b /\ y = j * b + r
  BY <1>1, <1>3
<1> HIDE DEF r
<1> QED BY <1>1, <1>2, <1>4

LEMMA Below ==
  ASSUME NEW a \in Nat, NEW b \in Nat, NEW j \in Nat, j < a, NEW r \in Nat, r < b
  PROVE  j * b + r \in Nat /\ j * b + r < a * b /\ a * b \in Nat /\ j * b \in Nat
<1> DEFINE k == a - 1 - j
<1>1. k \in Nat /\ a = j + k + 1
  OBVIOUS
<1> HIDE DEF k
<1>2. a * b = j * b + k * b + b /\ k * b \in Nat /\ j * b \in Nat
  BY <1>1
<1> QED BY <1>2

LEMMA InnerIs ==
  ASSUME NEW shape \in Seq(Nat), NonEmpty(shape), NEW a \in 0..Len(shape)
  PROVE  /\ Inner(shape, a) \in Nat \ {0}
         /\ a = Len(shape) => Inner(shape, a) = 1
         /\ a = 0 => Inner(shape, a) = element_count(shape)
<1> DEFINE n == Len(shape)
<1>1. n \in Nat /\ n \in 0..n /\ a \in 0..n
  OBVIOUS
<1>2. ProductOf(shape, (a + 1)..n) \in Nat \ {0}
  BY <1>1, StretchIs
<1>3. a = n => (a + 1)..n = {}
  BY <1>1
<1>4. a = 0 => (a + 1)..n = 1..n
  BY <1>1
<1> QED BY <1>2, <1>3, <1>4, ProductEmpty, CountIs DEF Inner

LEMMA InnerSplit ==
  ASSUME NEW shape \in Seq(Nat), NonEmpty(shape), NEW b \in 0..Len(shape), NEW a \in 0..b
  PROVE  /\ Inner(shape, a) = ProductOf(shape, (a + 1)..b) * Inner(shape, b)
         /\ ProductOf(shape, (a + 1)..b) \in Nat \ {0}
<1> DEFINE n == Len(shape)
           S == (a + 1)..b
           T == (b + 1)..n
<1>1. a \in Nat /\ b \in Nat /\ n \in Nat /\ a <= b /\ b <= n
  OBVIOUS
<1>2. IsFiniteSet(S) /\ IsFiniteSet(T)
  <2>1. a + 1 \in Int /\ b \in Int /\ b + 1 \in Int /\ n \in Int
    BY <1>1
  <2> HIDE DEF n
  <2> QED BY <2>1, FS_Interval
<1>3. S \cap T = {} /\ S \cup T = (a + 1)..n
  BY <1>1
<1>4. \A d \in S \cup T : shape[d] \in Nat
  BY <1>1, <1>3
<1>5. ProductOf(shape, S) \in Nat \ {0}
  BY StretchIs
<1> HIDE DEF S, T
<1>6. ProductOf(shape, S \cup T) = ProductOf(shape, S) * ProductOf(shape, T)
  BY <1>2, <1>3, <1>4, ProductApart
<1> QED BY <1>3, <1>5, <1>6 DEF Inner, S, T

LEMMA InnerStep ==
  ASSUME NEW shape \in Seq(Nat), NonEmpty(shape), NEW a \in 1..Len(shape)
  PROVE  Inner(shape, a - 1) = shape[a] * Inner(shape, a) /\ shape[a] \in Nat \ {0}
<1>1. a - 1 \in 0..a /\ a \in 0..Len(shape) /\ (a - 1) + 1 = a
  OBVIOUS
<1>2. Inner(shape, a - 1) = ProductOf(shape, ((a - 1) + 1)..a) * Inner(shape, a)
  BY <1>1, InnerSplit
<1>3. ((a - 1) + 1)..a = {} \cup {a} /\ a \notin {} /\ IsFiniteSet({})
  BY <1>1, FS_EmptySet
<1>4. shape[a] \in Nat \ {0}
  BY DEF NonEmpty
<1>5. \A x \in {} \cup {a} : shape[x] \in Nat
  BY <1>4
<1>6. ProductOf(shape, {} \cup {a}) = shape[a] * ProductOf(shape, {})
  BY <1>3, <1>5, ProductAdd
<1>7. ProductOf(shape, {}) = 1 /\ shape[a] * 1 = shape[a]
  BY <1>4, ProductEmpty
<1> QED BY <1>2, <1>3, <1>4, <1>6, <1>7

LEMMA OffIs ==
  ASSUME NEW shape, NEW strides, Layout(shape, strides), NonEmpty(shape), NEW k \in Nat
  PROVE  Off(shape, strides, k) = At(strides, Coordinates(shape, k)) /\ Off(shape, strides, k) \in Nat
<1> DEFINE c == Coordinates(shape, k)
<1>1. shape \in Seq(Nat) /\ DOMAIN strides = 1..Len(shape) /\ Len(shape) \in Nat
      /\ strides \in Vectors(Len(shape))
  BY DEF Layout, Vectors
<1>2. c \in Tuples(shape)
  BY <1>1, CoordinatesAre
<1>3. Off(shape, strides, k) = 0 + Total(Terms(strides, c))
  BY DEF Off, logical_offset_for_linear_index, Address, Terms
<1> HIDE DEF c
<1>4. Total(Terms(strides, c)) = At(strides, c)
  <2>1. DOMAIN Terms(strides, c) = DOMAIN strides
    BY DEF Terms
  <2> QED BY <2>1, TotalIs DEF At
<1>5. At(strides, c) \in Nat
  <2>1. c \in Vectors(Len(shape))
    BY <1>2 DEF Tuples
  <2> QED BY <1>1, <2>1, TermsAre
<1> QED BY <1>3, <1>4, <1>5 DEF c

LEMMA OffZero ==
  ASSUME NEW shape, NEW strides, Layout(shape, strides), NonEmpty(shape)
  PROVE  Off(shape, strides, 0) = 0
<1> DEFINE n == Len(shape)
           c == Coordinates(shape, 0)
<1>1. shape \in Seq(Nat) /\ n \in Nat /\ strides \in Vectors(n)
  BY DEF Layout, Vectors
<1>2. c \in Tuples(shape) /\ \A d \in 1..n : c[d] = (0 \div Inner(shape, d)) % shape[d]
  BY <1>1, CoordinatesAre DEF Inner
<1>3. \A d \in 1..n : Inner(shape, d) \in Nat \ {0} /\ shape[d] \in Nat \ {0}
  BY <1>1, InnerIs, InnerStep
<1> HIDE DEF c
<1>4. ASSUME NEW d \in 1..n PROVE c[d] = 0
  <2> DEFINE W == Inner(shape, d)
             s == shape[d]
  <2>1. W \in Nat \ {0} /\ s \in Nat \ {0} /\ c[d] = (0 \div W) % s
    BY <1>2, <1>3
  <2> HIDE DEF W, s
  <2>2. 0 \div W = 0
    <3>1. 0 \in 0..(W - 1) /\ 0 = W * 0 + 0
      BY <2>1
    <3> QED BY <2>1, <3>1, QuotientOnly
  <2>3. 0 % s = 0
    BY <2>1
  <2> QED BY <2>1, <2>2, <2>3
<1>5. c = Still(n)
  <2>1. c \in Vectors(n)
    BY <1>2 DEF Tuples
  <2> HIDE DEF n
  <2> QED BY <1>4, <2>1 DEF Vectors, Still
<1>6. Off(shape, strides, 0) = At(strides, c)
  BY OffIs DEF c
<1> QED BY <1>1, <1>5, <1>6, AtStill

\* A multiple of the elements inside an axis moves along that axis only.
LEMMA OffSplits ==
  ASSUME NEW shape, NEW strides, Layout(shape, strides), NonEmpty(shape), NEW a \in 1..Len(shape),
         NEW j \in Nat, j < shape[a], NEW r \in Nat, r < Inner(shape, a)
  PROVE  Off(shape, strides, j * Inner(shape, a) + r) = j * strides[a] + Off(shape, strides, r)
<1> DEFINE n == Len(shape)
           P == Inner(shape, a)
           k == j * P + r
           c == Coordinates(shape, k)
           b == Coordinates(shape, r)
<1>1. shape \in Seq(Nat) /\ n \in Nat /\ strides \in Vectors(n) /\ a \in 0..n
  BY DEF Layout, Vectors
<1>2. \A d \in 1..n : Inner(shape, d) \in Nat \ {0} /\ shape[d] \in Nat \ {0}
  BY <1>1, InnerIs, InnerStep
<1>3. P \in Nat \ {0} /\ r < P
  BY <1>2
<1> HIDE DEF P
<1>4. k \in Nat /\ k < shape[a] * P
  BY <1>2, <1>3, Below
<1> HIDE DEF k
<1>5. /\ c \in Tuples(shape) /\ \A d \in 1..n : c[d] = (k \div Inner(shape, d)) % shape[d]
      /\ b \in Tuples(shape) /\ \A d \in 1..n : b[d] = (r \div Inner(shape, d)) % shape[d]
  BY <1>1, <1>4, CoordinatesAre DEF Inner
<1> HIDE DEF c, b
<1>6. c[a] = j /\ b[a] = 0
  <2>1. k = P * j + r /\ r = P * 0 + r /\ r \in 0..(P - 1)
    <3>1. j * P = P * j /\ P * 0 = 0
      BY <1>3
    <3> QED BY <1>3, <3>1 DEF k
  <2>2. k \div P = j
    BY <1>3, <1>4, <2>1, QuotientOnly
  <2>3. r \div P = 0
    <3>1. 0 \in Nat
      OBVIOUS
    <3> HIDE DEF k
    <3> QED BY <1>3, <2>1, <3>1, QuotientOnly
  <2> DEFINE s == shape[a]
  <2>4. c[a] = j % s /\ b[a] = 0 % s /\ s \in Nat \ {0} /\ j < s
    BY <1>2, <1>5, <2>2, <2>3 DEF P
  <2> HIDE DEF s
  <2>5. j % s = j /\ 0 % s = 0
    BY <2>4
  <2> QED BY <2>4, <2>5
<1>7. ASSUME NEW d \in (1..n) \ {a} PROVE c[d] = b[d]
  <2> DEFINE W == Inner(shape, d)
             s == shape[d]
  <2>1. W \in Nat \ {0} /\ s \in Nat \ {0}
    BY <1>2
  <2>2. c[d] = (k \div W) % s /\ b[d] = (r \div W) % s
    BY <1>5
  <2>3. CASE d < a
    <3>1. k < W /\ r < W
      <4>1. a - 1 \in 0..n /\ d \in 0..(a - 1) /\ a \in 1..Len(shape)
        BY <1>1, <2>3
      <4> DEFINE X == ProductOf(shape, (d + 1)..(a - 1))
                 Y == shape[a] * P
      <4>2. W = X * Inner(shape, a - 1) /\ X \in Nat \ {0}
        BY <1>1, <4>1, InnerSplit
      <4>3. Inner(shape, a - 1) = Y
        BY <1>1, <4>1, InnerStep DEF P
      <4>4. Y \in Nat /\ k < Y
        BY <1>2, <1>3, <1>4
      <4>5. P <= Y
        <5> DEFINE s1 == shape[a]
        <5>1. s1 \in Nat \ {0}
          BY <1>2
        <5> HIDE DEF s1
        <5>2. s1 - 1 \in Nat /\ s1 * P = P + (s1 - 1) * P
          BY <1>3, <5>1
        <5>3. (s1 - 1) * P \in Nat
          BY <1>3, <5>2
        <5> QED BY <1>3, <5>2, <5>3 DEF s1
      <4> HIDE DEF X, Y, W
      <4>6. Y <= W
        <5>1. X - 1 \in Nat /\ X * Y = Y + (X - 1) * Y
          BY <4>2, <4>4
        <5>2. (X - 1) * Y \in Nat
          BY <4>4, <5>1
        <5> QED BY <4>2, <4>3, <4>4, <5>1, <5>2
      <4> QED BY <1>3, <1>4, <2>1, <4>4, <4>5, <4>6
    <3> HIDE DEF W, s
    <3>2. ASSUME NEW y \in Nat, y < W PROVE y \div W = 0
      <4>1. y = W * 0 + y /\ y \in 0..(W - 1)
        BY <2>1, <3>2
      <4> QED BY <2>1, <4>1, QuotientOnly
    <3> QED BY <1>4, <2>2, <3>1, <3>2
  <2>4. CASE d > a
    <3>1. d \in 1..Len(shape) /\ d - 1 \in 0..n /\ a \in 0..(d - 1)
      BY <1>1, <2>4
    <3> DEFINE X == ProductOf(shape, (a + 1)..(d - 1))
    <3>2. P = X * Inner(shape, d - 1) /\ X \in Nat \ {0}
      BY <1>1, <3>1, InnerSplit DEF P
    <3>3. Inner(shape, d - 1) = s * W
      BY <1>1, <3>1, InnerStep
    <3> DEFINE q == r \div W
               t == r - W * q
    <3> HIDE DEF W, s, X
    <3>4. q \in Nat /\ W * q <= r /\ r < W * q + W
      BY <2>1, QuotientIs
    <3> HIDE DEF q
    <3>5. t \in 0..(W - 1) /\ r = W * q + t
      <4>1. W * q \in Nat
        BY <2>1, <3>4
      <4> QED BY <2>1, <3>4, <4>1
    <3> HIDE DEF t
    <3> DEFINE h == s * (j * X)
    <3>6. h \in Nat /\ j * X \in Nat
      BY <2>1, <3>2
    <3>7. j * P = W * h
      <4>1. j * P = j * (X * (s * W))
        BY <3>2, <3>3
      <4>2. j * (X * (s * W)) = W * (s * (j * X))
        <5> DEFINE u == j * X
                   v == s * W
        <5>1. j * (X * v) = u * v /\ u \in Nat /\ v \in Nat
          BY <2>1, <3>2
        <5> HIDE DEF u
        <5>2. u * (s * W) = W * (s * u)
          BY <2>1, <5>1
        <5> QED BY <5>1, <5>2 DEF u
      <4> QED BY <4>1, <4>2
    <3>8. k = W * (h + q) + t
      <4> HIDE DEF h
      <4>1. W * (h + q) = W * h + W * q /\ W * h \in Nat /\ W * q \in Nat
        BY <2>1, <3>4, <3>6
      <4> QED BY <3>5, <3>7, <4>1 DEF k
    <3>9. k \div W = h + q
      <4> HIDE DEF h
      <4>1. h + q \in Nat
        BY <3>4, <3>6
      <4> HIDE DEF k
      <4> QED BY <1>4, <2>1, <3>5, <3>8, <4>1, QuotientOnly
    <3>10. (h + q) % s = q % s
      <4> DEFINE u == j * X
                 m == q % s
                 g == q \div s
      <4>1. g \in Nat /\ m \in 0..(s - 1) /\ q = s * g + m
        BY <2>1, <3>4
      <4> HIDE DEF g, m, u
      <4>2. u \in Nat /\ h = s * u
        BY <3>6 DEF u
      <4> HIDE DEF h
      <4> DEFINE z == h + q
      <4>3. z = s * (u + g) + m /\ u + g \in Nat /\ z \in Nat
        <5>1. s * (u + g) = s * u + s * g
          BY <2>1, <4>1, <4>2
        <5>2. s * u \in Nat /\ s * g \in Nat
          BY <2>1, <4>1, <4>2
        <5> QED BY <3>4, <4>1, <4>2, <5>1, <5>2
      <4> HIDE DEF z
      <4>4. z \div s = u + g
        BY <2>1, <4>1, <4>3, QuotientOnly
      <4>5. z = s * (z \div s) + (z % s) /\ z % s \in Nat
        BY <2>1, <4>3
      <4> DEFINE y == s * (u + g)
                 x == z % s
      <4>6. z = y + m /\ z = y + x /\ y \in Nat /\ x \in Nat /\ m \in Nat
        <5>1. y \in Nat
          BY <2>1, <4>3
        <5>2. s * (z \div s) = y
          BY <4>4
        <5> HIDE DEF y, x
        <5>3. z = y + m
          BY <4>3 DEF y
        <5>4. z = y + x /\ x \in Nat
          BY <4>5, <5>2 DEF x
        <5>5. m \in Nat
          BY <4>1
        <5> QED BY <5>1, <5>3, <5>4, <5>5
      <4> HIDE DEF y, x
      <4>7. x = m
        BY <4>6
      <4> QED BY <4>7 DEF x, z, m
    <3> HIDE DEF h, k
    <3> QED BY <2>2, <3>9, <3>10 DEF q
  <2>5. d < a \/ d > a
    BY <1>1
  <2> QED BY <2>3, <2>4, <2>5
<1>8. b \in Vectors(n) /\ c \in Vectors(n)
  BY <1>5 DEF Tuples
<1>9. c = Moved(b, a, j)
  <2> DEFINE m == Moved(b, a, j)
  <2>1. m \in Vectors(n) /\ m[a] = j /\ \A x \in (1..n) \ {a} : m[x] = b[x]
    <3>1. m \in Vectors(n)
      BY <1>1, <1>8, MovedVector
    <3>2. m[a] = j /\ \A x \in (1..n) \ {a} : m[x] = b[x]
      BY <1>1, <1>8, MovedIs
    <3> QED BY <3>1, <3>2
  <2> HIDE DEF m
  <2>2. \A x \in 1..n : c[x] = m[x]
    <3> SUFFICES ASSUME NEW x \in 1..n PROVE c[x] = m[x]
      OBVIOUS
    <3>1. CASE x = a
      BY <1>6, <2>1, <3>1
    <3>2. CASE x # a
      BY <1>7, <2>1, <3>2
    <3> QED BY <3>1, <3>2
  <2>3. c \in Vectors(n) /\ m \in Vectors(n)
    BY <1>8, <2>1
  <2>4. c = m
    BY <2>2, <2>3, VectorsEqual
  <2> QED BY <2>4 DEF m
<1>10. Moved(b, a, 0) = b
  <2>1. Moved(b, a, b[a]) = b
    BY <1>1, <1>8, Unmoved
  <2> QED BY <1>6, <2>1
<1>11. At(strides, Moved(b, a, j)) = At(strides, Moved(b, a, 0)) + j * strides[a]
  BY <1>1, <1>8, AtMoved
<1>12. Off(shape, strides, k) = At(strides, c) /\ Off(shape, strides, r) = At(strides, b)
  <2> HIDE DEF k
  <2>1. Off(shape, strides, k) = At(strides, c)
    BY <1>4, OffIs DEF c
  <2>2. Off(shape, strides, r) = At(strides, b)
    BY OffIs DEF b
  <2> QED BY <2>1, <2>2
<1>13. At(strides, b) \in Nat /\ j * strides[a] \in Nat
  <2>1. strides[a] \in Nat
    BY <1>1 DEF Vectors
  <2>2. j * strides[a] \in Nat
    BY <2>1
  <2> QED BY <1>1, <1>8, <2>2, TermsAre
<1> QED BY <1>9, <1>10, <1>11, <1>12, <1>13 DEF k, P

LEMMA OffUnit ==
  ASSUME NEW shape, NEW strides, Layout(shape, strides), NonEmpty(shape), NEW a \in 1..Len(shape),
         shape[a] # 1
  PROVE  Off(shape, strides, Inner(shape, a)) = strides[a]
<1> DEFINE P == Inner(shape, a)
<1>1. shape \in Seq(Nat) /\ a \in 0..Len(shape) /\ strides[a] \in Nat
  BY DEF Layout
<1>2. P \in Nat \ {0} /\ shape[a] \in Nat \ {0}
  BY <1>1, InnerIs, InnerStep
<1>3. 1 \in Nat /\ 1 < shape[a] /\ 0 \in Nat /\ 0 < P
  BY <1>2
<1>4. Off(shape, strides, 1 * P + 0) = 1 * strides[a] + Off(shape, strides, 0)
  BY <1>3, OffSplits
<1>5. 1 * P + 0 = P /\ 1 * strides[a] + 0 = strides[a]
  BY <1>1, <1>2
<1> QED BY <1>4, <1>5, OffZero

LEMMA Larger ==
  ASSUME NEW x \in Nat \ {0}, NEW y \in Nat
  PROVE  x * y \in Nat /\ y <= x * y
<1>1. x - 1 \in Nat /\ x * y = y + (x - 1) * y
  OBVIOUS
<1>2. (x - 1) * y \in Nat
  BY <1>1
<1> QED BY <1>1, <1>2

LEMMA InnerGrows ==
  ASSUME NEW shape \in Seq(Nat), NonEmpty(shape), NEW b \in 0..Len(shape), NEW a \in 0..b
  PROVE  Inner(shape, b) <= Inner(shape, a) /\ Inner(shape, b) \in Nat \ {0} /\ Inner(shape, a) \in Nat \ {0}
<1> DEFINE x == ProductOf(shape, (a + 1)..b)
<1>1. Inner(shape, a) = x * Inner(shape, b) /\ x \in Nat \ {0}
  BY InnerSplit
<1>2. a \in 0..Len(shape)
  OBVIOUS
<1>3. Inner(shape, b) \in Nat \ {0} /\ Inner(shape, a) \in Nat \ {0}
  BY <1>2, InnerIs
<1> HIDE DEF x
<1> QED BY <1>1, <1>3, Larger

\* Along this axis of a view each step is as the first.
StepsAlike(shape, strides, resolved, d) ==
  \A j, r \in Nat : j < resolved[d] /\ r < Inner(resolved, d) =>
    Off(shape, strides, j * Inner(resolved, d) + r)
      = j * Off(shape, strides, Inner(resolved, d)) + Off(shape, strides, r)

\* The strides a view needs: what the elements beside the first are at.
Beside(shape, strides, resolved) ==
  [d \in 1..Len(resolved) |->
     IF resolved[d] = 1 THEN 0 ELSE Off(shape, strides, Inner(resolved, d))]

LEMMA BesideLays ==
  ASSUME NEW shape, NEW strides, Layout(shape, strides), NonEmpty(shape),
         NEW resolved \in Seq(Nat), NonEmpty(resolved)
  PROVE  /\ Layout(resolved, Beside(shape, strides, resolved))
         /\ \A d \in 1..Len(resolved), j \in Nat : j < resolved[d] =>
              /\ j * Beside(shape, strides, resolved)[d] = j * Off(shape, strides, Inner(resolved, d))
              /\ Off(shape, strides, Inner(resolved, d)) \in Nat
<1> DEFINE R == Len(resolved)
           z == Beside(shape, strides, resolved)
<1>1. R \in Nat
  OBVIOUS
<1>2. \A d \in 1..R : Off(shape, strides, Inner(resolved, d)) \in Nat
  <2> SUFFICES ASSUME NEW d \in 1..R PROVE Off(shape, strides, Inner(resolved, d)) \in Nat
    OBVIOUS
  <2>1. Inner(resolved, d) \in Nat
    <3>1. d \in 0..R
      BY <1>1
    <3> QED BY <3>1, InnerIs
  <2> QED BY <2>1, OffIs
<1>3. z \in [1..R -> Nat]
  <2>1. \A d \in 1..R : (IF resolved[d] = 1 THEN 0 ELSE Off(shape, strides, Inner(resolved, d))) \in Nat
    BY <1>2
  <2> QED BY <2>1 DEF Beside
<1>4. z \in Seq(Nat) /\ Len(z) = R
  <2> HIDE DEF z, R
  <2> QED BY <1>1, <1>3
<1>5. ASSUME NEW d \in 1..R, NEW j \in Nat, j < resolved[d]
      PROVE  j * z[d] = j * Off(shape, strides, Inner(resolved, d))
  <2> DEFINE y == Off(shape, strides, Inner(resolved, d))
  <2>1. z[d] = IF resolved[d] = 1 THEN 0 ELSE y
    BY DEF Beside
  <2>2. y \in Nat
    BY <1>2
  <2> HIDE DEF y, z
  <2>3. CASE resolved[d] = 1
    <3>1. j = 0
      BY <1>5, <2>3
    <3>2. 0 * z[d] = 0 /\ 0 * y = 0
      BY <2>1, <2>2
    <3> QED BY <3>1, <3>2 DEF y
  <2>4. CASE resolved[d] # 1
    BY <2>1, <2>4 DEF y
  <2> QED BY <2>3, <2>4
<1> QED BY <1>2, <1>4, <1>5 DEF Layout

LEMMA Representable ==
  ASSUME NEW shape, NEW strides, Layout(shape, strides), NonEmpty(shape),
         NEW resolved \in Seq(Nat), NonEmpty(resolved)
  PROVE  (\A k \in 0..(Inner(resolved, 0) - 1) :
            Off(resolved, Beside(shape, strides, resolved), k) = Off(shape, strides, k))
           <=> \A d \in 1..Len(resolved) : StepsAlike(shape, strides, resolved, d)
<1> DEFINE R == Len(resolved)
           z == Beside(shape, strides, resolved)
           F(k) == Off(shape, strides, k)
           G(k) == Off(resolved, z, k)
           Q(d) == Inner(resolved, d)
<1>1. /\ R \in Nat /\ Layout(resolved, z)
      /\ \A d \in 1..R, j \in Nat : j < resolved[d] => j * z[d] = j * F(Q(d)) /\ F(Q(d)) \in Nat
  BY BesideLays
<1>2. ASSUME NEW d \in 1..R
      PROVE  /\ Q(d) \in Nat \ {0} /\ resolved[d] \in Nat \ {0} /\ Q(d - 1) = resolved[d] * Q(d)
             /\ Q(d) <= Q(0) /\ Q(d - 1) <= Q(0) /\ Q(0) \in Nat
  <2>1. d \in 0..R /\ d - 1 \in 0..R /\ 0 \in 0..d /\ 0 \in 0..(d - 1)
    BY <1>1
  <2>2. Inner(resolved, d) <= Inner(resolved, 0) /\ Inner(resolved, d) \in Nat \ {0}
        /\ Inner(resolved, 0) \in Nat
    BY <2>1, InnerGrows
  <2>3. Inner(resolved, d - 1) <= Inner(resolved, 0)
    BY <2>1, InnerGrows
  <2>4. Q(d - 1) = resolved[d] * Q(d) /\ resolved[d] \in Nat \ {0}
    BY InnerStep
  <2> QED BY <2>2, <2>3, <2>4
<1>3. ASSUME NEW d \in 1..R, NEW j \in Nat, j < resolved[d], NEW r \in Nat, r < Q(d)
      PROVE  /\ j * Q(d) + r \in Nat /\ j * Q(d) + r < Q(d - 1)
             /\ G(j * Q(d) + r) = j * F(Q(d)) + G(r)
  <2>1. G(j * Q(d) + r) = j * z[d] + G(r)
    BY <1>1, <1>3, OffSplits
  <2>2. j * z[d] = j * F(Q(d))
    BY <1>1, <1>3
  <2> DEFINE a == resolved[d]
             b == Q(d)
  <2>3. a \in Nat /\ b \in Nat \ {0} /\ j < a /\ r < b /\ Q(d - 1) = a * b
    BY <1>2, <1>3
  <2> HIDE DEF a, b
  <2>4. j * b + r \in Nat /\ j * b + r < a * b
    BY <2>3, Below
  <2> HIDE DEF F, G, Q, z
  <2> QED BY <2>1, <2>2, <2>3, <2>4 DEF b
<1> HIDE DEF F, G, Q, z
<1>4. ASSUME \A k \in 0..(Q(0) - 1) : G(k) = F(k), NEW d \in 1..R, NEW j \in Nat, j < resolved[d],
             NEW r \in Nat, r < Q(d)
      PROVE  F(j * Q(d) + r) = j * F(Q(d)) + F(r)
  <2> DEFINE k == j * Q(d) + r
  <2>1. k \in Nat /\ k < Q(d - 1) /\ G(k) = j * F(Q(d)) + G(r)
    BY <1>3, <1>4
  <2> HIDE DEF k
  <2>2. k \in 0..(Q(0) - 1) /\ r \in 0..(Q(0) - 1)
    BY <1>2, <1>4, <2>1
  <2>3. G(k) = F(k) /\ G(r) = F(r)
    BY <1>4, <2>2
  <2> QED BY <2>1, <2>3 DEF k
<1>5. ASSUME \A d \in 1..R : \A j, r \in Nat : j < resolved[d] /\ r < Q(d) =>
                F(j * Q(d) + r) = j * F(Q(d)) + F(r)
      PROVE  \A k \in 0..(Q(0) - 1) : G(k) = F(k)
  <2> DEFINE S == {m \in Nat : m <= R => \A k \in Nat : k < Q(R - m) => G(k) = F(k)}
  <2>1. 0 \in S
    <3> SUFFICES ASSUME NEW k \in Nat, k < Q(R - 0) PROVE G(k) = F(k)
      OBVIOUS
    <3>1. Q(R) = 1 /\ R - 0 = R
      <4>1. R \in 0..R
        BY <1>1
      <4>2. Inner(resolved, R) = 1
        BY <4>1, InnerIs
      <4> QED BY <1>1, <4>2 DEF Q
    <3>2. k = 0
      BY <3>1
    <3>3. F(0) = 0
      BY OffZero DEF F
    <3>4. G(0) = 0
      BY <1>1, OffZero DEF G
    <3> QED BY <3>2, <3>3, <3>4
  <2>2. ASSUME NEW m \in Nat, m \in S PROVE m + 1 \in S
    <3> SUFFICES ASSUME m + 1 <= R, NEW k \in Nat, k < Q(R - (m + 1)) PROVE G(k) = F(k)
      OBVIOUS
    <3> DEFINE d == R - m
    <3>1. d \in 1..R /\ R - (m + 1) = d - 1 /\ \A r \in Nat : r < Q(d) => G(r) = F(r)
      BY <1>1, <2>2
    <3> HIDE DEF d, S
    <3>2. Q(d) \in Nat \ {0} /\ resolved[d] \in Nat /\ k < resolved[d] * Q(d)
      BY <1>2, <3>1
    <3> DEFINE a == resolved[d]
               b == Q(d)
    <3>3. a \in Nat /\ b \in Nat \ {0} /\ k < a * b
      BY <3>2
    <3> HIDE DEF a, b
    <3>4. PICK j, r \in Nat : j < a /\ r < b /\ k = j * b + r
      BY <3>3, SplitIndex
    <3>5. j < resolved[d] /\ r < Q(d) /\ k = j * Q(d) + r
      BY <3>4 DEF a, b
    <3>6. G(k) = j * F(Q(d)) + G(r)
      BY <1>3, <3>1, <3>5
    <3>7. F(k) = j * F(Q(d)) + F(r)
      BY <1>5, <3>1, <3>5
    <3>8. G(r) = F(r)
      BY <3>1, <3>5
    <3> QED BY <3>6, <3>7, <3>8
  <2>3. R \in S
    <3> HIDE DEF S
    <3> QED BY <1>1, <2>1, <2>2, NatSetInduction
  <2>4. R - R = 0 /\ R <= R
    BY <1>1
  <2>5. \A k \in Nat : k < Q(0) => G(k) = F(k)
    BY <2>3, <2>4
  <2>6. Q(0) \in Nat
    <3>1. 0 \in 0..R
      BY <1>1
    <3> QED BY <3>1, InnerIs DEF Q
  <2> QED BY <2>5, <2>6
<1>6. (\A k \in 0..(Q(0) - 1) : G(k) = F(k))
        <=> \A d \in 1..R : \A j, r \in Nat : j < resolved[d] /\ r < Q(d) =>
              F(j * Q(d) + r) = j * F(Q(d)) + F(r)
  BY <1>4, <1>5
<1> QED BY <1>6 DEF F, G, Q, z, StepsAlike

\* The elements of one axis of the view and those inside it step by one base.
OneChunk(shape, strides, resolved, v, e, b) ==
  \A i, r \in Nat : i < e /\ r < Inner(resolved, v) =>
    Off(shape, strides, i * Inner(resolved, v) + r) = i * b + Off(shape, strides, r)

\* An axis that goes on where the chunk stops lengthens it.
LEMMA ChunkGrows ==
  ASSUME NEW shape, NEW strides, Layout(shape, strides), NonEmpty(shape),
         NEW resolved \in Seq(Nat), NonEmpty(resolved), NEW axis \in 1..Len(shape),
         NEW v \in 0..Len(resolved), NEW e \in Nat \ {0}, NEW b \in Nat,
         OneChunk(shape, strides, resolved, v, e, b),
         Inner(shape, axis) = e * Inner(resolved, v),
         shape[axis] = 1 \/ strides[axis] = e * b
  PROVE  /\ OneChunk(shape, strides, resolved, v, e * shape[axis], b)
         /\ Inner(shape, axis - 1) = (e * shape[axis]) * Inner(resolved, v)
<1> DEFINE q == Inner(resolved, v)
           p == Inner(shape, axis)
           x == shape[axis]
           w == strides[axis]
           F(k) == Off(shape, strides, k)
<1>1. /\ q \in Nat \ {0} /\ p \in Nat \ {0} /\ x \in Nat \ {0} /\ w \in Nat
      /\ Inner(shape, axis - 1) = x * p /\ p = e * q
  <2>1. shape \in Seq(Nat) /\ axis \in 0..Len(shape) /\ w \in Nat
    BY DEF Layout
  <2>2. q \in Nat \ {0} /\ p \in Nat \ {0}
    BY <2>1, InnerIs
  <2>3. x \in Nat \ {0} /\ Inner(shape, axis - 1) = x * p
    BY <2>1, InnerStep
  <2> QED BY <2>1, <2>2, <2>3
<1>2. \A j, r \in Nat : j < x /\ r < p => F(j * p + r) = j * w + F(r)
  BY OffSplits
<1>3. \A i, r \in Nat : i < e /\ r < q => F(i * q + r) = i * b + F(r)
  BY DEF OneChunk
<1>4. \A k \in Nat : F(k) \in Nat
  BY OffIs
<1>5. x = 1 \/ w = e * b
  OBVIOUS
<1> HIDE DEF q, p, x, w, F
<1>6. ASSUME NEW i \in Nat, NEW r \in Nat, i < e * x, r < q
      PROVE  F(i * q + r) = i * b + F(r)
  <2>0. x \in Nat /\ e \in Nat \ {0}
    BY <1>1
  <2>1. i < x * e
    BY <1>6, <2>0
  <2>2. PICK j, m \in Nat : j < x /\ m < e /\ i = j * e + m
    BY <2>0, <2>1, SplitIndex
  <2> DEFINE k == m * q + r
  <2>3. k \in Nat /\ k < p
    BY <1>1, <1>6, <2>2, Below
  <2>4. F(k) = m * b + F(r)
    BY <1>3, <1>6, <2>2
  <2>5. i * q + r = j * p + k
    <3>1. i * q = (j * e) * q + m * q
      BY <1>1, <2>2
    <3>2. (j * e) * q = j * (e * q)
      BY <1>1, <2>2
    <3>3. m * q \in Nat /\ j * p \in Nat /\ r \in Nat
      BY <1>1, <2>2
    <3> QED BY <1>1, <3>1, <3>2, <3>3
  <2> HIDE DEF k
  <2>6. F(i * q + r) = j * w + F(k)
    BY <1>2, <2>2, <2>3, <2>5
  <2>7. j * w = (j * e) * b
    <3>1. CASE x = 1
      <4>1. j = 0
        BY <2>2, <3>1
      <4> QED BY <1>1, <4>1
    <3>2. CASE w = e * b
      BY <2>2, <3>2
    <3> QED BY <1>5, <3>1, <3>2
  <2>8. i * b = (j * e) * b + m * b /\ (j * e) * b \in Nat /\ m * b \in Nat
    BY <2>2
  <2>9. F(r) \in Nat
    BY <1>4, <1>6
  <2> DEFINE y == (j * e) * b
             z == m * b
             u == i * b
  <2>10. u = y + z /\ y \in Nat /\ z \in Nat /\ F(k) = z + F(r) /\ F(i * q + r) = y + F(k)
    BY <2>4, <2>6, <2>7, <2>8
  <2> HIDE DEF y, z, u
  <2>11. F(i * q + r) = u + F(r)
    BY <2>9, <2>10
  <2> QED BY <2>11 DEF u
<1>7. OneChunk(shape, strides, resolved, v, e * shape[axis], b)
  BY <1>6 DEF OneChunk, F, q, x
<1>8. x * p = (e * x) * q
  BY <1>1
<1> QED BY <1>1, <1>7, <1>8 DEF q, p, x

LEMMA ViewSplits ==
  ASSUME NEW resolved \in Seq(Nat), NonEmpty(resolved), NEW v \in 0..Len(resolved), NEW d \in 0..v,
         NEW l \in 0..d
  PROVE  /\ ProductOf(resolved, (d + 1)..v) \in Nat \ {0}
         /\ ProductOf(resolved, (l + 1)..d) \in Nat \ {0}
         /\ ProductOf(resolved, (l + 1)..v)
              = ProductOf(resolved, (l + 1)..d) * ProductOf(resolved, (d + 1)..v)
         /\ Inner(resolved, d) = ProductOf(resolved, (d + 1)..v) * Inner(resolved, v)
         /\ Inner(resolved, v) \in Nat \ {0}
<1> DEFINE R == Len(resolved)
           x == ProductOf(resolved, (d + 1)..v)
           y == ProductOf(resolved, (l + 1)..d)
           z == ProductOf(resolved, (l + 1)..v)
           q == Inner(resolved, v)
<1>1. d \in 0..R /\ l \in 0..v
  OBVIOUS
<1>2. Inner(resolved, d) = x * q /\ x \in Nat \ {0}
  BY InnerSplit
<1>3. Inner(resolved, l) = y * Inner(resolved, d) /\ y \in Nat \ {0}
  BY <1>1, InnerSplit
<1>4. Inner(resolved, l) = z * q /\ z \in Nat \ {0}
  BY <1>1, InnerSplit
<1>5. q \in Nat \ {0}
  BY InnerIs
<1> HIDE DEF x, y, z, q
<1>6. z = y * x
  <2> DEFINE u == y * x
  <2>1. u \in Nat /\ z * q = u * q
    <3>1. y * (x * q) = (y * x) * q
      BY <1>2, <1>3, <1>5
    <3> QED BY <1>2, <1>3, <1>4, <3>1
  <2> HIDE DEF u
  <2>2. z = u
    <3>1. z < u => z * q < u * q
      <4> SUFFICES ASSUME z < u PROVE z * q < u * q
        OBVIOUS
      <4> DEFINE g == u - z - 1
      <4>1. g \in Nat /\ u = z + g + 1
        BY <1>4, <2>1
      <4> HIDE DEF g
      <4>2. u * q = z * q + g * q + q /\ g * q \in Nat /\ z * q \in Nat
        BY <1>4, <1>5, <4>1
      <4> QED BY <1>5, <4>2
    <3>2. u < z => u * q < z * q
      <4> SUFFICES ASSUME u < z PROVE u * q < z * q
        OBVIOUS
      <4> DEFINE g == z - u - 1
      <4>1. g \in Nat /\ z = u + g + 1
        BY <1>4, <2>1
      <4> HIDE DEF g
      <4>2. z * q = u * q + g * q + q /\ g * q \in Nat /\ u * q \in Nat
        BY <2>1, <1>5, <4>1
      <4> QED BY <1>5, <4>2
    <3> QED BY <1>4, <1>5, <2>1, <3>1, <3>2
  <2> QED BY <2>2 DEF u
<1> QED BY <1>2, <1>3, <1>5, <1>6 DEF x, y, z, q

\* The axes a chunk splits into step alike.
LEMMA ChunkSplits ==
  ASSUME NEW shape, NEW strides, Layout(shape, strides), NonEmpty(shape),
         NEW resolved \in Seq(Nat), NonEmpty(resolved),
         NEW v \in 0..Len(resolved), NEW e \in Nat \ {0}, NEW b \in Nat,
         OneChunk(shape, strides, resolved, v, e, b),
         NEW l \in 0..v, ProductOf(resolved, (l + 1)..v) = e, NEW d \in (l + 1)..v
  PROVE  StepsAlike(shape, strides, resolved, d)
<1> DEFINE R == Len(resolved)
           q == Inner(resolved, v)
           c == ProductOf(resolved, (d + 1)..v)
           z == resolved[d]
           h == ProductOf(resolved, (l + 1)..(d - 1))
           F(k) == Off(shape, strides, k)
<1>1. d \in 1..R /\ d \in 0..v /\ d - 1 \in 0..v /\ l \in 0..(d - 1) /\ d - 1 \in 0..d /\ l \in 0..d
  OBVIOUS
<1>2. c \in Nat \ {0} /\ q \in Nat \ {0} /\ Inner(resolved, d) = c * q
  BY <1>1, ViewSplits
<1>3. h \in Nat \ {0} /\ e = h * (z * c) /\ z \in Nat \ {0}
  <2>1. /\ h \in Nat \ {0} /\ e = h * ProductOf(resolved, ((d - 1) + 1)..v)
    BY <1>1, ViewSplits
  <2>2. z \in Nat \ {0}
    BY <1>1 DEF NonEmpty
  <2>3. ProductOf(resolved, ((d - 1) + 1)..v) = z * c
    <3> DEFINE y == ProductOf(resolved, ((d - 1) + 1)..d)
    <3>1. ProductOf(resolved, ((d - 1) + 1)..v) = y * c
      BY <1>1, ViewSplits
    <3>2. ((d - 1) + 1)..d = {} \cup {d} /\ d \notin {} /\ IsFiniteSet({})
      BY <1>1, FS_EmptySet
    <3>3. \A k \in {} \cup {d} : resolved[k] \in Nat
      BY <2>2
    <3>4. ProductOf(resolved, {} \cup {d}) = z * ProductOf(resolved, {})
      BY <3>2, <3>3, ProductAdd
    <3>5. ProductOf(resolved, {}) = 1 /\ z * 1 = z
      BY <2>2, ProductEmpty
    <3>6. y = z
      BY <3>2, <3>4, <3>5
    <3> HIDE DEF y, z, c
    <3> QED BY <3>1, <3>6
  <2> QED BY <2>1, <2>2, <2>3
<1>4. \A i, r \in Nat : i < e /\ r < q => F(i * q + r) = i * b + F(r)
  BY DEF OneChunk
<1>5. (\A k \in Nat : F(k) \in Nat) /\ F(0) = 0
  BY OffIs, OffZero
<1> HIDE DEF q, c, z, h, F
<1>6. z * c <= e /\ z * c \in Nat
  BY <1>2, <1>3, Larger
<1>7. ASSUME NEW j \in Nat, NEW r \in Nat, j < z, r < c * q
      PROVE  F(j * (c * q) + r) = j * F(c * q) + F(r)
  <2>1. PICK i, m \in Nat : i < c /\ m < q /\ r = i * q + m
    BY <1>2, <1>7, SplitIndex
  <2>2. j * c + i \in Nat /\ j * c + i < z * c /\ j * c \in Nat
    BY <1>2, <1>3, <1>7, <2>1, Below
  <2> DEFINE k == j * c + i
  <2>3. k \in Nat /\ k < e
    BY <1>6, <2>2
  <2>4. j * (c * q) + r = k * q + m
    <3>1. k * q = (j * c) * q + i * q
      BY <1>2, <2>1, <2>2
    <3>2. (j * c) * q = j * (c * q) /\ (j * c) * q \in Nat /\ i * q \in Nat
      BY <1>2, <2>1, <2>2
    <3> QED BY <2>1, <3>1, <3>2
  <2>5. k * b = (j * c) * b + i * b /\ (j * c) * b = j * (c * b) /\ j * (c * b) \in Nat /\ i * b \in Nat
    BY <1>2, <2>1, <2>2
  <2> HIDE DEF k
  <2>6. F(k * q + m) = k * b + F(m)
    BY <1>4, <2>1, <2>3
  <2>7. i < e
    <3>1. c <= z * c
      BY <1>2, <1>3, Larger
    <3> QED BY <1>2, <1>6, <2>1, <3>1
  <2>8. F(r) = i * b + F(m)
    BY <1>4, <2>1, <2>7
  <2>9. j * (c * b) = j * F(c * q)
    <3>1. CASE j = 0
      <4>1. c * b \in Nat /\ c * q \in Nat
        BY <1>2
      <4>2. F(c * q) \in Nat
        BY <1>5, <4>1
      <4> QED BY <3>1, <4>1, <4>2
    <3>2. CASE j # 0
      <4>1. c < z * c
        <5>1. z - 1 \in Nat \ {0} /\ z * c = (z - 1) * c + c
          BY <1>2, <1>3, <1>7, <3>2
        <5>2. (z - 1) * c \in Nat /\ c <= (z - 1) * c
          BY <1>2, <5>1, Larger
        <5> QED BY <1>2, <5>1, <5>2
      <4>2. c < e /\ 0 \in Nat /\ 0 < q
        BY <1>2, <1>6, <4>1
      <4>3. F(c * q + 0) = c * b + F(0)
        BY <1>2, <1>4, <4>2
      <4>4. c * q + 0 = c * q /\ c * b + 0 = c * b
        BY <1>2
      <4> QED BY <1>5, <4>3, <4>4
    <3> QED BY <3>1, <3>2
  <2>10. F(m) \in Nat
    BY <1>5, <2>1
  <2> QED BY <2>4, <2>5, <2>6, <2>8, <2>9, <2>10
<1> QED BY <1>2, <1>7 DEF StepsAlike, F, z

\* Where every axis of a view steps alike, a chunk ends where an axis does.
LEMMA ChunkFits ==
  ASSUME NEW shape, NEW strides, Layout(shape, strides), NonEmpty(shape),
         NEW resolved \in Seq(Nat), NonEmpty(resolved),
         element_count(resolved) = element_count(shape),
         \A d \in 1..Len(resolved) : StepsAlike(shape, strides, resolved, d),
         NEW axis \in 1..Len(shape), NEW v \in 0..Len(resolved), NEW e \in Nat \ {0}, NEW b \in Nat,
         OneChunk(shape, strides, resolved, v, e, b),
         Inner(shape, axis - 1) = e * Inner(resolved, v),
         EndsChunk(shape, strides, axis, e * b),
         NEW l \in 0..v, l = 0 \/ ProductOf(resolved, (l + 1)..v) >= e,
         \A d \in (l + 1)..v : ProductOf(resolved, (d + 1)..v) < e \/ resolved[d] = 1
  PROVE  ProductOf(resolved, (l + 1)..v) = e
<1> DEFINE R == Len(resolved)
           n == Len(shape)
           q == Inner(resolved, v)
           c(d) == ProductOf(resolved, (d + 1)..v)
           N == element_count(shape)
           F(k) == Off(shape, strides, k)
<1>1. shape \in Seq(Nat) /\ n \in Nat /\ R \in Nat /\ v \in Nat /\ l \in Nat /\ l <= v
  BY DEF Layout
<1>2. q \in Nat \ {0} /\ Inner(resolved, 0) = N /\ Inner(shape, 0) = N /\ N \in Nat \ {0}
  <2>1. 0 \in 0..R /\ 0 \in 0..n
    BY <1>1
  <2>2. Inner(resolved, 0) = N /\ Inner(shape, 0) = N /\ Inner(shape, 0) \in Nat \ {0}
    BY <1>1, <2>1, InnerIs
  <2> QED BY <2>2, InnerIs
<1>3. \A d \in 0..v : c(d) \in Nat \ {0} /\ Inner(resolved, d) = c(d) * q
  <2> SUFFICES ASSUME NEW d \in 0..v PROVE c(d) \in Nat \ {0} /\ Inner(resolved, d) = c(d) * q
    OBVIOUS
  <2>1. d \in 0..d
    BY <1>1
  <2> QED BY <2>1, ViewSplits
<1>4. \A d \in 0..v, k \in 0..v : k <= d => c(k) = ProductOf(resolved, (k + 1)..d) * c(d)
                                            /\ ProductOf(resolved, (k + 1)..d) \in Nat \ {0}
  <2> SUFFICES ASSUME NEW d \in 0..v, NEW k \in 0..v, k <= d
               PROVE  c(k) = ProductOf(resolved, (k + 1)..d) * c(d)
                      /\ ProductOf(resolved, (k + 1)..d) \in Nat \ {0}
    OBVIOUS
  <2>1. k \in 0..d
    BY <1>1
  <2> QED BY <2>1, ViewSplits
<1>5. c(v) = 1
  <2>1. (v + 1)..v = {}
    BY <1>1
  <2> QED BY <2>1, ProductEmpty
<1>6. e * q <= N
  <2>1. axis - 1 \in 0..n /\ 0 \in 0..(axis - 1)
    BY <1>1
  <2>2. Inner(shape, axis - 1) <= Inner(shape, 0)
    BY <1>1, <2>1, InnerGrows
  <2> QED BY <1>2, <2>2
<1>7. \A i, r \in Nat : i < e /\ r < q => F(i * q + r) = i * b + F(r)
  BY DEF OneChunk
<1>8. F(0) = 0 /\ \A k \in Nat : F(k) \in Nat
  BY OffZero, OffIs
<1>9. axis # 1 => axis - 1 \in 1..n /\ shape[axis - 1] # 1 /\ strides[axis - 1] # e * b
  BY <1>1 DEF EndsChunk
<1>10. axis # 1 => F(e * q) = strides[axis - 1]
  <2> SUFFICES ASSUME axis # 1 PROVE F(e * q) = strides[axis - 1]
    OBVIOUS
  <2> DEFINE a == axis - 1
  <2>1. a \in 1..n /\ shape[a] # 1
    BY <1>9
  <2> HIDE DEF a
  <2>2. Off(shape, strides, Inner(shape, a)) = strides[a]
    BY <2>1, OffUnit
  <2> QED BY <2>2 DEF a
<1>11. axis = 1 => e * q = N
  <2>1. axis = 1 => axis - 1 = 0
    OBVIOUS
  <2> QED BY <1>2, <2>1
<1>12. c(l) \in Nat \ {0} /\ (l = 0 \/ c(l) >= e) /\ Inner(resolved, l) = c(l) * q
  BY <1>1, <1>3
<1>13. \A d \in (l + 1)..v : c(d) < e \/ resolved[d] = 1
  OBVIOUS
<1> HIDE DEF c, q, N, F, R, n
\* It is not too short: all of the view is no shorter than the chunk.
<1>14. c(l) >= e
  <2> SUFFICES ASSUME c(l) < e PROVE FALSE
    BY <1>12
  <2>1. l = 0 /\ c(l) * q = N
    BY <1>2, <1>12
  <2> DEFINE y == c(l)
             g == e - y - 1
  <2>2. y \in Nat /\ g \in Nat /\ e = y + g + 1
    BY <1>12
  <2> HIDE DEF y, g
  <2>3. e * q = y * q + g * q + q /\ g * q \in Nat /\ y * q \in Nat
    BY <1>2, <2>2
  <2>4. y * q = N
    BY <2>1 DEF y
  <2> QED BY <1>2, <1>6, <2>3, <2>4
\* Nor too long: the first step outside the chunk would be one within an axis.
<1>15. ASSUME c(l) > e PROVE FALSE
  <2> DEFINE T == {d \in 0..v : l <= d /\ c(d) >= e}
             g == Max(T)
  <2>1. T \in SUBSET (0..v) /\ l \in T
    BY <1>1, <1>14
  <2>2. g \in T /\ \A y \in T : g >= y
    <3> HIDE DEF T
    <3> QED BY <1>1, <2>1, GreatestIs
  <2>3. g \in Nat /\ g \in 0..v /\ l <= g /\ c(g) >= e /\ c(g) \in Nat \ {0}
    <3> HIDE DEF g
    <3> QED BY <1>1, <1>3, <2>2
  <2>4. \A d \in 0..v : g < d => c(d) < e
    <3> SUFFICES ASSUME NEW d \in 0..v, g < d PROVE c(d) < e
      OBVIOUS
    <3> HIDE DEF g
    <3>1. d \notin T
      <4> HIDE DEF T
      <4> QED BY <1>1, <2>2, <2>3
    <3>2. l <= d /\ c(d) \in Nat
      BY <1>1, <1>3, <2>3
    <3> QED BY <3>1, <3>2
  <2> HIDE DEF g, T
  <2>5. c(l) = c(g)
    <3>1. \A d \in (l + 1)..g : resolved[d] = 1
      <4> SUFFICES ASSUME NEW d \in (l + 1)..g PROVE resolved[d] = 1
        OBVIOUS
      <4>1. d \in (l + 1)..v /\ d \in 0..v /\ d <= g
        BY <1>1, <2>3
      <4>2. c(d) = ProductOf(resolved, (d + 1)..g) * c(g) /\ ProductOf(resolved, (d + 1)..g) \in Nat \ {0}
        BY <1>4, <2>3, <4>1
      <4> DEFINE u == ProductOf(resolved, (d + 1)..g)
                 w == c(g)
      <4>3. u \in Nat \ {0} /\ w \in Nat /\ c(d) = u * w
        BY <2>3, <4>2
      <4> HIDE DEF u, w
      <4>4. w <= u * w /\ u * w \in Nat
        BY <4>3, Larger
      <4>5. c(d) >= e
        BY <2>3, <4>3, <4>4 DEF w
      <4>6. c(d) \in Nat /\ ~(c(d) < e)
        BY <4>3, <4>4, <4>5
      <4> QED BY <1>13, <4>1, <4>6
    <3>2. IsFiniteSet((l + 1)..g)
      <4>1. l + 1 \in Int /\ g \in Int
        BY <1>1, <2>3
      <4> QED BY <4>1, FS_Interval
    <3>3. ProductOf(resolved, (l + 1)..g) = 1
      BY <3>1, <3>2, ProductOnes
    <3>4. l \in 0..v /\ c(l) = ProductOf(resolved, (l + 1)..g) * c(g)
      BY <1>1, <1>4, <2>3
    <3> QED BY <2>3, <3>3, <3>4
  <2>6. g < v
    <3>1. g # v
      BY <1>5, <1>15, <2>5
    <3> QED BY <1>1, <2>3, <3>1
  <2> DEFINE h == g + 1
             z == resolved[h]
             p == c(h)
             w == Inner(resolved, h)
  <2>7. h \in 0..v /\ h \in 1..R /\ g < h /\ g <= h /\ h - 1 = g
    BY <1>1, <2>3, <2>6 DEF R
  <2>8. z \in Nat \ {0} /\ Inner(resolved, g) = z * w
    <3>1. h \in 1..Len(resolved)
      BY <2>7 DEF R
    <3> HIDE DEF h
    <3>2. Inner(resolved, h - 1) = z * w /\ z \in Nat \ {0}
      BY <3>1, InnerStep
    <3> QED BY <2>7, <3>2
  <2>9. p \in Nat \ {0} /\ p < e /\ w = p * q
    <3> HIDE DEF h
    <3> QED BY <1>3, <2>4, <2>7
  <2>10. Inner(resolved, g) = c(g) * q
    BY <1>3, <2>3
  <2>11. \A j, r \in Nat : j < z /\ r < w => F(j * w + r) = j * F(w) + F(r)
    <3>1. h \in 1..Len(resolved)
      BY <2>7 DEF R
    <3> HIDE DEF h
    <3> QED BY <3>1 DEF StepsAlike, F
  <2> DEFINE y == c(g)
  <2>12. y \in Nat /\ e < y /\ z * w = y * q
    BY <1>15, <2>3, <2>5, <2>8, <2>10
  <2> HIDE DEF h, z, p, w, y
  <2>13. e * q < z * w /\ e * q \in Nat /\ y * q \in Nat
    <3> DEFINE m == y - e - 1
    <3>1. m \in Nat /\ y = e + m + 1
      BY <2>12
    <3> HIDE DEF m
    <3>2. y * q = e * q + m * q + q /\ m * q \in Nat /\ e * q \in Nat
      BY <1>2, <3>1
    <3> QED BY <1>2, <2>12, <3>2
  <2>14. PICK j, i \in Nat : i < p /\ e = j * p + i /\ j < z
    <3>1. e < z * p
      <4> SUFFICES ASSUME ~(e < z * p) PROVE FALSE
        OBVIOUS
      <4> DEFINE u == z * p
                 m == e - u
      <4>1. u \in Nat /\ u <= e
        BY <2>8, <2>9
      <4>2. z * w = u * q
        BY <1>2, <2>8, <2>9
      <4> HIDE DEF u
      <4>3. m \in Nat /\ e = u + m
        BY <4>1
      <4> HIDE DEF m
      <4>4. e * q = u * q + m * q /\ m * q \in Nat /\ u * q \in Nat
        BY <1>2, <4>1, <4>3
      <4> QED BY <2>13, <4>2, <4>4
    <3>2. z \in Nat /\ p \in Nat \ {0} /\ e \in Nat
      BY <2>8, <2>9
    <3>3. PICK j, r \in Nat : j < z /\ r < p /\ e = j * p + r
      BY <3>1, <3>2, SplitIndex
    <3> QED BY <3>3
  <2>15. e * q = j * w + i * q /\ i * q \in Nat /\ i * q < w
    <3>1. e * q = (j * p) * q + i * q
      BY <1>2, <2>9, <2>14
    <3>2. (j * p) * q = j * (p * q)
      BY <1>2, <2>9, <2>14
    <3>3. i * q + 0 < p * q /\ i * q \in Nat
      <4>1. i \in Nat /\ i < p /\ 0 \in Nat /\ 0 < q /\ p \in Nat /\ q \in Nat
        BY <1>2, <2>9, <2>14
      <4> QED BY <4>1, Below
    <3> QED BY <2>9, <3>1, <3>2, <3>3
  <2>16. F(e * q) = j * F(w) + F(i * q)
    BY <2>11, <2>14, <2>15
  <2>17. F(w) = p * b
    <3>1. p < e /\ 0 \in Nat /\ 0 < q /\ p \in Nat
      BY <1>2, <2>9
    <3>2. F(p * q + 0) = p * b + F(0)
      BY <1>7, <3>1
    <3>3. p * q + 0 = w /\ p * b + 0 = p * b
      BY <1>2, <2>9
    <3> QED BY <1>8, <3>2, <3>3
  <2>18. F(i * q) = i * b
    <3>1. i < e /\ 0 \in Nat /\ 0 < q
      BY <1>2, <2>9, <2>14
    <3>2. F(i * q + 0) = i * b + F(0)
      BY <1>7, <3>1
    <3>3. i * q + 0 = i * q /\ i * b + 0 = i * b
      BY <1>2, <2>14
    <3> QED BY <1>8, <3>2, <3>3
  <2>19. F(e * q) = e * b
    <3>1. e * b = (j * p) * b + i * b
      BY <2>9, <2>14
    <3>2. (j * p) * b = j * (p * b)
      BY <2>9, <2>14
    <3> QED BY <2>16, <2>17, <2>18, <3>1, <3>2
  <2>20. axis # 1
    <3> SUFFICES ASSUME axis = 1 PROVE FALSE
      OBVIOUS
    <3>1. e * q = N
      BY <1>11
    <3>2. y * q <= N
      <4>1. 0 \in 0..g /\ g \in 0..Len(resolved)
        BY <1>1, <2>3 DEF R
      <4>2. Inner(resolved, g) <= Inner(resolved, 0)
        BY <4>1, InnerGrows
      <4> QED BY <1>2, <2>10, <4>2 DEF y
    <3> DEFINE k == e * q
               m == y * q
    <3>3. k < m /\ m <= N /\ k = N /\ k \in Nat /\ m \in Nat
      BY <2>12, <2>13, <3>1, <3>2
    <3> HIDE DEF k, m
    <3> QED BY <3>3
  <2> QED BY <1>9, <1>10, <2>19, <2>20
<1>16. c(l) = e
  BY <1>12, <1>14, <1>15
<1> QED BY <1>16 DEF c

\* What holds of an unfailed consumption before the a-th axis is consumed: the
\* chunk collected steps by one base, and the axes of the view behind it are
\* those of chunks already split.
Matched(shape, strides, resolved, s, a) ==
  ~s.failed =>
    /\ Inner(shape, a) = s.elements * Inner(resolved, s.view)
    /\ OneChunk(shape, strides, resolved, s.view, s.elements, s.base)
    /\ a >= 1 => shape[a] = 1 \/ strides[a] = s.elements * s.base
    /\ a = 0 => s.elements = 1 /\ (s.view = 0 \/ resolved[s.view] # 1)
    /\ \A d \in (s.view + 1)..Len(resolved) : StepsAlike(shape, strides, resolved, d)

LEMMA ChunkOfOne ==
  ASSUME NEW shape, NEW strides, Layout(shape, strides), NonEmpty(shape),
         NEW resolved \in Seq(Nat), NonEmpty(resolved), NEW v \in 0..Len(resolved), NEW b \in Nat
  PROVE  OneChunk(shape, strides, resolved, v, 1, b)
<1> DEFINE q == Inner(resolved, v)
<1>1. q \in Nat
  BY InnerIs
<1>2. ASSUME NEW i \in Nat, NEW r \in Nat, i < 1, r < q
      PROVE  Off(shape, strides, i * q + r) = i * b + Off(shape, strides, r)
  <2>1. i = 0
    BY <1>2
  <2>2. 0 * q + r = r /\ Off(shape, strides, r) \in Nat
    BY <1>1, OffIs
  <2>3. 0 * b + Off(shape, strides, r) = Off(shape, strides, r)
    BY <2>2
  <2> QED BY <2>1, <2>2, <2>3
<1> QED BY <1>2 DEF OneChunk

LEMMA MatchedAxis ==
  ASSUME NEW shape, NEW strides, Layout(shape, strides), NonEmpty(shape),
         NEW resolved \in Seq(Nat), NonEmpty(resolved), NEW axis \in 1..Len(shape),
         NEW s \in Consuming(Len(resolved)), Matched(shape, strides, resolved, s, axis)
  PROVE  LET t == ConsumeAxis(shape, strides, resolved, s, axis)
         IN  /\ Matched(shape, strides, resolved, t, axis - 1)
             /\ ~s.failed /\ element_count(resolved) = element_count(shape)
                  /\ (\A d \in 1..Len(resolved) : StepsAlike(shape, strides, resolved, d))
                => ~t.failed
<1> DEFINE R == Len(resolved)
           n == Len(shape)
           t == ConsumeAxis(shape, strides, resolved, s, axis)
           v == s.view
           b == s.base
           e == s.elements
           elems == s.elements * shape[axis]
           covered(d) == Product(SubSeq(resolved, d + 1, s.view))
           fits == {d \in 0..s.view : d = 0 \/ (covered(d) >= elems /\ resolved[d] # 1)}
           left == Max(fits)
           ends == EndsChunk(shape, strides, axis, elems * s.base)
           alike == element_count(resolved) = element_count(shape)
                    /\ \A d \in 1..Len(resolved) : StepsAlike(shape, strides, resolved, d)
<1> SUFFICES /\ Matched(shape, strides, resolved, t, axis - 1)
             /\ ~s.failed /\ alike => ~t.failed
  OBVIOUS
<1>0. /\ R \in Nat /\ n \in Nat /\ v \in 0..R /\ b \in Nat /\ e \in Nat \ {0} /\ s.failed \in BOOLEAN
      /\ s \in [view : 0..R, base : Nat, elements : Nat \ {0}, failed : BOOLEAN, out : [1..R -> Nat]]
      /\ \A d \in 1..n : shape[d] \in Nat \ {0} /\ strides[d] \in Nat
  <2>1. n \in Nat /\ \A d \in 1..n : shape[d] \in Nat /\ strides[d] \in Nat
    <3>1. shape \in Seq(Nat) /\ strides \in Seq(Nat) /\ Len(strides) = Len(shape)
      BY DEF Layout
    <3>2. \A d \in 1..n : shape[d] \in Nat
      BY <3>1
    <3>3. \A d \in 1..Len(strides) : strides[d] \in Nat
      BY <3>1
    <3> QED BY <3>1, <3>2, <3>3
  <2>2. \A d \in 1..n : shape[d] # 0
    BY DEF NonEmpty
  <2>4. s \in [view : 0..R, base : Nat, elements : Nat \ {0}, failed : BOOLEAN, out : [1..R -> Nat]]
    BY DEF Consuming
  <2>5. v \in 0..R /\ b \in Nat /\ e \in Nat \ {0} /\ s.failed \in BOOLEAN
    BY <2>4
  <2>6. R \in Nat
    OBVIOUS
  <2> QED BY <2>1, <2>2, <2>4, <2>5, <2>6
<1>1. elems \in Nat \ {0}
  <2> DEFINE x == shape[axis]
  <2>1. x \in Nat \ {0} /\ elems = e * x
    BY <1>0
  <2> HIDE DEF x, e, elems
  <2> QED BY <1>0, <2>1, Larger
\* A consumption that failed stays failed.
<1>2. CASE s.failed
  <2>1. t = [s EXCEPT !.elements = elems]
    BY <1>2 DEF ConsumeAxis
  <2>2. t.failed
    <3> HIDE DEF t, elems
    <3> QED BY <1>0, <1>2, <2>1
  <2> QED BY <1>2, <2>2 DEF Matched
<1>3. CASE ~s.failed
  <2>1. /\ Inner(shape, axis) = e * Inner(resolved, v)
        /\ OneChunk(shape, strides, resolved, v, e, b)
        /\ shape[axis] = 1 \/ strides[axis] = e * b
        /\ \A d \in (v + 1)..R : StepsAlike(shape, strides, resolved, d)
    <3>1. axis >= 1
      OBVIOUS
    <3> QED BY <1>3, <3>1 DEF Matched
  <2>2. OneChunk(shape, strides, resolved, v, elems, b) /\ Inner(shape, axis - 1) = elems * Inner(resolved, v)
    <3> HIDE DEF e, b, v
    <3>1. v \in 0..Len(resolved) /\ e \in Nat \ {0} /\ b \in Nat
      BY <1>0
    <3>2. OneChunk(shape, strides, resolved, v, e * shape[axis], b)
          /\ Inner(shape, axis - 1) = (e * shape[axis]) * Inner(resolved, v)
      BY <2>1, <3>1, ChunkGrows
    <3> QED BY <3>2 DEF e
\* Nothing ends here.
  <2>3. CASE ~ends
    <3>1. t = [s EXCEPT !.elements = elems]
      BY <2>3 DEF ConsumeAxis
    <3>2. t.view = v /\ t.base = b /\ t.elements = elems /\ t.failed = s.failed
      <4> HIDE DEF t, elems
      <4> QED BY <1>0, <3>1
    <3>3. axis # 1 /\ (shape[axis - 1] # 1 => strides[axis - 1] = elems * b)
      BY <2>3 DEF EndsChunk
    <3>4. axis - 1 # 0
      BY <3>3
    <3> HIDE DEF t, elems, v, b, e
    <3>5. Matched(shape, strides, resolved, t, axis - 1)
      BY <2>1, <2>2, <3>2, <3>3, <3>4 DEF Matched
    <3> QED BY <1>3, <3>2, <3>5
\* A chunk ends and is split.
  <2>4. CASE ends
    <3> DEFINE base1 == IF axis > 1 THEN strides[axis - 1] ELSE s.base
    <3>1. t.view = left /\ t.elements = 1 /\ t.failed = (covered(left) # elems) /\ t.base = base1
      BY <1>3, <2>4 DEF ConsumeAxis
    <3>2. left \in 0..v /\ left \in fits /\ \A y \in fits : left >= y
      <4>1. fits \in SUBSET (0..s.view) /\ 0 \in fits /\ s.view \in Nat
        BY <1>0
      <4> HIDE DEF fits
      <4>2. Max(fits) \in fits /\ \A y \in fits : Max(fits) >= y
        BY <4>1, GreatestIs
      <4> QED BY <4>1, <4>2
    <3>3. \A d \in 0..v : covered(d) = ProductOf(resolved, (d + 1)..v)
      <4> HIDE DEF v
      <4>1. \A d \in 0..v : Covered(resolved, d, v) = ProductOf(resolved, (d + 1)..v)
        BY <1>0, CoveredIs
      <4> QED BY <4>1 DEF Covered, v
    <3>4. covered(left) = ProductOf(resolved, (left + 1)..v)
      <4> HIDE DEF covered, left
      <4> QED BY <3>2, <3>3
    <3>5. left = 0 \/ (ProductOf(resolved, (left + 1)..v) >= elems /\ resolved[left] # 1)
      <4>1. left = 0 \/ (covered(left) >= elems /\ resolved[left] # 1)
        BY <3>2
      <4> HIDE DEF covered, left, elems
      <4> QED BY <3>4, <4>1
    <3>6. \A d \in (left + 1)..v : ProductOf(resolved, (d + 1)..v) < elems \/ resolved[d] = 1
      <4> SUFFICES ASSUME NEW d \in (left + 1)..v
                   PROVE  ProductOf(resolved, (d + 1)..v) < elems \/ resolved[d] = 1
        OBVIOUS
      <4>1. d \in 0..v /\ d > left /\ d # 0 /\ left \in Nat
        <5> HIDE DEF left, v
        <5> QED BY <1>0, <3>2
      <4>2. d \notin fits
        <5> HIDE DEF fits, left
        <5> QED BY <3>2, <4>1
      <4>3. ~(covered(d) >= elems /\ resolved[d] # 1)
        BY <4>1, <4>2
      <4>4. ProductOf(resolved, (d + 1)..v) \in Nat
        <5> HIDE DEF v
        <5>1. d \in 0..d
          BY <4>1
        <5> QED BY <1>0, <4>1, <5>1, ViewSplits
      <4>5. covered(d) = ProductOf(resolved, (d + 1)..v)
        <5> HIDE DEF covered, v
        <5> QED BY <3>3, <4>1
      <4> HIDE DEF covered, elems, v
      <4> QED BY <1>1, <4>3, <4>4, <4>5
    <3> HIDE DEF t, left, fits, covered, elems, v, b, e
    <3>7. alike => ~t.failed
      <4> SUFFICES ASSUME alike PROVE ~t.failed
        OBVIOUS
      <4>1. EndsChunk(shape, strides, axis, elems * b)
        BY <2>4 DEF b
      <4>2. ProductOf(resolved, (left + 1)..v) = elems
        <5>1. v \in 0..Len(resolved) /\ left \in 0..v /\ elems \in Nat \ {0} /\ b \in Nat
          BY <1>0, <1>1, <3>2
        <5>2. left = 0 \/ ProductOf(resolved, (left + 1)..v) >= elems
          BY <3>5
        <5>3. /\ element_count(resolved) = element_count(shape)
              /\ \A d \in 1..Len(resolved) : StepsAlike(shape, strides, resolved, d)
          OBVIOUS
        <5>4. /\ OneChunk(shape, strides, resolved, v, elems, b)
              /\ Inner(shape, axis - 1) = elems * Inner(resolved, v)
          BY <2>2
        <5> QED BY <3>6, <4>1, <5>1, <5>2, <5>3, <5>4, ChunkFits
      <4> QED BY <3>1, <3>4, <4>2
    <3>8. ASSUME ~t.failed PROVE /\ Inner(shape, axis - 1) = 1 * Inner(resolved, left)
                                 /\ \A d \in (left + 1)..R : StepsAlike(shape, strides, resolved, d)
      <4>1. ProductOf(resolved, (left + 1)..v) = elems
        BY <3>1, <3>4, <3>8
      <4>2. Inner(resolved, left) = elems * Inner(resolved, v) /\ Inner(resolved, left) \in Nat
        <5>1. left \in 0..left /\ left \in 0..R
          BY <1>0, <3>2
        <5>2. Inner(resolved, left) = ProductOf(resolved, (left + 1)..v) * Inner(resolved, v)
          BY <1>0, <3>2, <5>1, ViewSplits
        <5> QED BY <4>1, <5>1, <5>2, InnerIs
      <4>3. \A d \in (left + 1)..v : StepsAlike(shape, strides, resolved, d)
        BY <1>0, <1>1, <2>2, <3>2, <4>1, ChunkSplits
      <4>4. \A d \in (left + 1)..R : d \in (left + 1)..v \/ d \in (v + 1)..R
        BY <1>0, <3>2
      <4> QED BY <2>1, <2>2, <4>2, <4>3, <4>4
    <3>9. base1 \in Nat /\ left \in 0..R
      <4>1. axis > 1 => axis - 1 \in 1..n
        BY <1>0
      <4> QED BY <1>0, <3>2, <4>1 DEF b
    <3>10. OneChunk(shape, strides, resolved, left, 1, base1)
      <4> HIDE DEF base1
      <4> QED BY <3>9, ChunkOfOne
    <3>11. axis - 1 >= 1 => strides[axis - 1] = 1 * base1
      <4>1. axis - 1 >= 1 => axis > 1 /\ base1 = strides[axis - 1]
        OBVIOUS
      <4> QED BY <3>9, <4>1
    <3> HIDE DEF base1
    <3>12. Matched(shape, strides, resolved, t, axis - 1)
      BY <3>1, <3>5, <3>8, <3>10, <3>11 DEF Matched
    <3> QED BY <3>7, <3>12
  <2> QED BY <2>3, <2>4
<1> QED BY <1>2, <1>3

\* A shape of as many elements has a view exactly when some strides, those of
\* the elements beside the first, are where the tensor's elements are.
LEMMA ViewsFound ==
  ASSUME NEW shape, NEW strides, Layout(shape, strides), NonEmpty(shape), Len(shape) > 0,
         NEW resolved \in Seq(Nat), NonEmpty(resolved), element_count(resolved) = element_count(shape)
  PROVE  compute_reshape_view_strides(shape, strides, resolved) # NoView
           <=> \A d \in 1..Len(resolved) : StepsAlike(shape, strides, resolved, d)
<1> DEFINE n == Len(shape)
           R == Len(resolved)
<1>0. /\ shape \in Seq(Nat) /\ strides \in Seq(Nat) /\ n \in Nat /\ R \in Nat
  BY DEF Layout
<1>1. PICK after :
          /\ after \in [0..Len(shape) -> Consuming(Len(resolved))]
          /\ after[0] = StartConsuming(strides, resolved)
          /\ \A k \in 1..Len(shape) :
                after[k] = ConsumeAxis(shape, strides, resolved, after[k - 1], Len(shape) + 1 - k)
          /\ compute_reshape_view_strides(shape, strides, resolved)
               = IF after[Len(shape)].failed \/ after[Len(shape)].view # 0 THEN NoView
                 ELSE after[Len(shape)].out
  BY Consumption
<1> DEFINE alike == \A d \in 1..R : StepsAlike(shape, strides, resolved, d)
           Holds(k) == /\ Matched(shape, strides, resolved, after[k], n - k)
                       /\ alike => ~after[k].failed
<1>2. Holds(0)
  <2>1. /\ after[0].view = R /\ after[0].base = Last(strides) /\ after[0].elements = 1
        /\ after[0].failed = FALSE
    BY <1>1 DEF StartConsuming
  <2>2. n - 0 = n /\ n # 0 /\ n \in 1..n /\ n \in 0..n /\ R \in 0..R /\ (R + 1)..R = {}
    BY <1>0
  <2>3. Last(strides) = strides[n] /\ strides[n] \in Nat
    BY <2>2 DEF Last, Layout
  <2>4. Inner(shape, n) = 1 * Inner(resolved, R)
    <3>1. Inner(shape, n) = 1 /\ Inner(resolved, R) = 1
      BY <1>0, <2>2, InnerIs
    <3> QED BY <3>1
  <2>5. OneChunk(shape, strides, resolved, R, 1, strides[n])
    <3> HIDE DEF n, R
    <3>1. R \in 0..Len(resolved)
      BY <2>2 DEF R
    <3> QED BY <2>3, <3>1, ChunkOfOne
  <2>6. strides[n] = 1 * strides[n]
    BY <2>3
  <2>7. Matched(shape, strides, resolved, after[0], n)
    <3> HIDE DEF n
    <3> QED BY <2>1, <2>2, <2>3, <2>4, <2>5, <2>6 DEF Matched
  <2> QED BY <2>1, <2>2, <2>7
<1>3. ASSUME NEW k \in 1..n, Holds(k - 1) PROVE Holds(k)
  <2> DEFINE axis == n + 1 - k
             s == after[k - 1]
             t == ConsumeAxis(shape, strides, resolved, s, axis)
  <2>1. axis \in 1..n /\ n - (k - 1) = axis /\ n - k = axis - 1 /\ k - 1 \in 0..n
    BY <1>0
  <2>2. s \in Consuming(Len(resolved)) /\ after[k] = t
    BY <1>1, <2>1
  <2>3. Matched(shape, strides, resolved, s, axis) /\ (alike => ~s.failed)
    BY <1>3, <2>1
  <2> HIDE DEF axis, s
  <2>4. /\ Matched(shape, strides, resolved, t, axis - 1)
        /\ ~s.failed /\ element_count(resolved) = element_count(shape) /\ alike => ~t.failed
    BY <2>1, <2>2, <2>3, MatchedAxis
  <2> HIDE DEF t, alike
  <2>5. alike => ~t.failed
    BY <2>3, <2>4
  <2> QED BY <2>1, <2>2, <2>4, <2>5
<1>4. Holds(n)
  <2> DEFINE G == {k \in Nat : k <= n => Holds(k)}
  <2>1. 0 \in G
    BY <1>2
  <2>2. ASSUME NEW k \in Nat, k \in G PROVE k + 1 \in G
    <3> HIDE DEF Holds
    <3> SUFFICES ASSUME k + 1 <= n PROVE Holds(k + 1)
      OBVIOUS
    <3>1. k + 1 \in 1..n /\ (k + 1) - 1 = k /\ Holds(k)
      BY <1>0, <2>2
    <3>2. Holds((k + 1) - 1)
      BY <3>1
    <3> QED BY <1>3, <3>1, <3>2
  <2>3. n \in G
    <3> HIDE DEF G
    <3> QED BY <1>0, <2>1, <2>2, NatSetInduction
  <2> HIDE DEF Holds
  <2> QED BY <1>0, <2>3
<1> DEFINE end == after[n]
<1>5. /\ end.view \in 0..R /\ end.failed \in BOOLEAN /\ end.out \in [1..R -> Nat]
  <2>1. n \in 0..Len(shape)
    BY <1>0
  <2>2. end \in [view : 0..R, base : Nat, elements : Nat \ {0}, failed : BOOLEAN, out : [1..R -> Nat]]
    BY <1>1, <2>1 DEF Consuming
  <2> HIDE DEF end
  <2> QED BY <2>2
<1>6. Matched(shape, strides, resolved, end, 0) /\ (alike => ~end.failed)
  <2>1. n - n = 0
    BY <1>0
  <2> QED BY <1>4, <2>1
<1>7. compute_reshape_view_strides(shape, strides, resolved)
        = IF end.failed \/ end.view # 0 THEN NoView ELSE end.out
  BY <1>1
<1> HIDE DEF end, alike
\* Whatever was split reaches every element of the view.
<1>8. ~end.failed => end.view = 0
  <2>0. SUFFICES ASSUME ~end.failed, end.view # 0 PROVE FALSE
    OBVIOUS
  <2> DEFINE v == end.view
             x == resolved[v]
             y == ProductOf(resolved, 1..(v - 1))
             q == Inner(resolved, v)
             N == element_count(shape)
  <2>1. Inner(shape, 0) = 1 * q /\ x # 1
    BY <1>6, <2>0 DEF Matched
  <2>2. v \in 1..R /\ v - 1 \in 0..R /\ v - 1 \in Nat
    BY <1>0, <1>5, <2>0
  <2>3. Inner(shape, 0) = N /\ Inner(resolved, 0) = N
    <3>1. 0 \in 0..n /\ 0 \in 0..R
      BY <1>0
    <3> QED BY <1>0, <3>1, InnerIs
  <2>4. Inner(resolved, v - 1) = x * q /\ x \in Nat \ {0}
    <3> HIDE DEF v
    <3> QED BY <2>2, InnerStep
  <2>5. Inner(resolved, v - 1) <= Inner(resolved, 0) /\ q \in Nat \ {0}
    <3> HIDE DEF v
    <3> DEFINE k == v - 1
    <3>1. k \in 0..Len(resolved) /\ 0 \in 0..k /\ v \in 0..Len(resolved)
      BY <1>0, <2>2
    <3> HIDE DEF k
    <3>2. Inner(resolved, k) <= Inner(resolved, 0)
      BY <3>1, InnerGrows
    <3>3. Inner(resolved, v) \in Nat \ {0}
      BY <3>1, InnerIs
    <3> QED BY <3>2, <3>3 DEF k
  <2> HIDE DEF v, x, q, N
  <2>6. x - 1 \in Nat \ {0} /\ x * q = (x - 1) * q + q
    BY <2>1, <2>4, <2>5
  <2>7. (x - 1) * q \in Nat /\ q <= (x - 1) * q
    BY <2>5, <2>6, Larger
  <2>8. N = q /\ x * q <= N
    BY <2>1, <2>3, <2>4, <2>5
  <2> QED BY <2>5, <2>6, <2>7, <2>8
<1>9. end.out # NoView
  <2>0. SUFFICES ASSUME end.out = NoView PROVE FALSE
    OBVIOUS
  <2>1. 1 \in DOMAIN NoView /\ NoView[1] = -1
    BY DEF NoView
  <2> DEFINE f == end.out
  <2>2. f \in [1..R -> Nat] /\ 1 \in DOMAIN f
    BY <1>5, <2>1, <2>0
  <2> HIDE DEF f
  <2>3. f[1] \in Nat
    BY <2>2
  <2> QED BY <2>0, <2>1, <2>3 DEF f
<1>10. ~end.failed => alike
  <2>0. SUFFICES ASSUME ~end.failed PROVE alike
    OBVIOUS
  <2>1. \A d \in (end.view + 1)..Len(resolved) : StepsAlike(shape, strides, resolved, d)
    BY <1>6, <2>0 DEF Matched
  <2>2. end.view + 1 = 1
    BY <1>8, <2>0
  <2> QED BY <2>1, <2>2 DEF alike
<1>11. (compute_reshape_view_strides(shape, strides, resolved) # NoView) <=> ~end.failed
  BY <1>7, <1>8, <1>9
<1> QED BY <1>6, <1>10, <1>11 DEF alike

LEMMA FoundView ==
  ASSUME NEW found \in Seq(Nat)
  PROVE  found # NoView
<1> SUFFICES ASSUME found = NoView PROVE FALSE
  OBVIOUS
<1>1. Len(found) = 1 /\ found[1] = -1
  BY DEF NoView
<1>2. found[1] \in Nat
  BY <1>1
<1> QED BY <1>1, <1>2

LEMMA Represented ==
  ASSUME NEW shape, NEW strides, Layout(shape, strides), element_count(shape) > 0,
         NEW resolved \in Seq(Nat), element_count(resolved) = element_count(shape)
  PROVE  (reshape_view_strides(shape, strides, resolved) # NoView)
           <=> \A k \in Linear(element_count(shape)) :
                 Off(resolved, Beside(shape, strides, resolved), k) = Off(shape, strides, k)
<1> DEFINE N == element_count(shape)
           z == Beside(shape, strides, resolved)
           found == reshape_view_strides(shape, strides, resolved)
<1>1. /\ shape \in Seq(Nat) /\ Len(shape) \in Nat /\ Len(resolved) \in Nat /\ N \in Nat
      /\ 0 \in 0..Len(resolved) /\ 0 \in 0..Len(shape)
  <2>1. shape \in Seq(Nat) /\ Len(shape) \in Nat /\ Len(resolved) \in Nat
    BY DEF Layout
  <2> QED BY <2>1, CountIs
<1>2. NonEmpty(shape) /\ NonEmpty(resolved)
  <2>1. N # 0 /\ element_count(resolved) # 0
    BY <1>1
  <2> QED BY <1>1, <2>1, NonEmptyIs
<1>3. Inner(resolved, 0) = N /\ Linear(N) = 0..(Inner(resolved, 0) - 1)
  BY <1>1, <1>2, InnerIs DEF Linear
<1>4. found = compute_reshape_view_strides(shape, strides, resolved)
  <2>1. element_count(shape) # 0
    BY <1>1
  <2> QED BY <2>1 DEF reshape_view_strides
<1>5. CASE Len(shape) = 0
  <2>1. found = contiguous_strides(resolved)
    BY <1>4, <1>5 DEF compute_reshape_view_strides
  <2>2. contiguous_strides(resolved) \in Seq(Nat)
    BY ContiguousCompact DEF Layout
  <2>3. found # NoView
    BY <2>1, <2>2, FoundView
  <2>4. N = 1
    <3>1. Inner(shape, 0) = 1 /\ Inner(shape, 0) = N
      BY <1>1, <1>2, <1>5, InnerIs
    <3> QED BY <3>1
  <2>5. ASSUME NEW k \in Linear(N) PROVE Off(resolved, z, k) = Off(shape, strides, k)
    <3>1. k = 0
      BY <2>4 DEF Linear
    <3>2. Layout(resolved, z)
      BY <1>2, BesideLays
    <3>3. Off(shape, strides, 0) = 0
      BY <1>2, OffZero
    <3> HIDE DEF z
    <3>4. Off(resolved, z, 0) = 0
      BY <1>2, <3>2, OffZero
    <3> QED BY <3>1, <3>3, <3>4
  <2> QED BY <2>3, <2>5
<1>6. CASE Len(shape) > 0
  <2>1. (compute_reshape_view_strides(shape, strides, resolved) # NoView)
          <=> \A d \in 1..Len(resolved) : StepsAlike(shape, strides, resolved, d)
    BY <1>2, <1>6, ViewsFound
  <2>2. (\A k \in 0..(Inner(resolved, 0) - 1) : Off(resolved, z, k) = Off(shape, strides, k))
          <=> \A d \in 1..Len(resolved) : StepsAlike(shape, strides, resolved, d)
    BY <1>2, Representable
  <2> QED BY <1>3, <1>4, <2>1, <2>2
<1> QED BY <1>1, <1>5, <1>6

LEMMA ViewsRepresented == ASSUME Held PROVE ViewIffRepresentable
<1> DEFINE t == tensor
<1>1. Layout(t.shape, t.strides)
  BY DEF Held, Allocated, Layout
<1>2. ASSUME NEW shape \in RegroupingsOf(t), elements(t) > 0
      PROVE  (reshape_view_strides(t.shape, t.strides, shape) # NoView)
               <=> \A k \in Linear(elements(t)) :
                     logical_offset_for_linear_index(shape, NeededStrides(t, shape), 0, k)
                       = logical_offset_for_linear_index(t.shape, t.strides, 0, k)
  <2>1. shape \in Seq(Nat) /\ element_count(shape) = elements(t)
    <3>1. element_count(shape) = elements(t)
          /\ \E rank \in 0..3 : shape \in [1..rank -> 0..elements(tensor)]
      BY DEF RegroupingsOf
    <3>2. PICK rank \in 0..3 : shape \in [1..rank -> 0..elements(tensor)]
      BY <3>1
    <3>3. rank \in Nat /\ \A k \in 1..rank : shape[k] \in Nat
      BY <3>2
    <3> QED BY <3>1, <3>2, <3>3
  <2>2. NeededStrides(t, shape) = Beside(t.shape, t.strides, shape)
    <3>1. DOMAIN shape = 1..Len(shape) /\ Len(shape) \in Nat
      BY <2>1
    <3>2. ASSUME NEW d \in 1..Len(shape)
          PROVE  Product(SubSeq(shape, d + 1, Len(shape))) = Inner(shape, d)
      <4>1. Len(shape) \in 0..Len(shape) /\ d \in 0..Len(shape)
        BY <3>1
      <4>2. Covered(shape, d, Len(shape)) = ProductOf(shape, (d + 1)..Len(shape))
        BY <2>1, <4>1, CoveredIs
      <4> QED BY <4>2 DEF Covered, Inner
    <3> QED BY <3>1, <3>2 DEF NeededStrides, Beside, Off
  <2>3. element_count(t.shape) = elements(t)
    BY DEF elements
  <2>4. (reshape_view_strides(t.shape, t.strides, shape) # NoView)
          <=> \A k \in Linear(element_count(t.shape)) :
                Off(shape, Beside(t.shape, t.strides, shape), k) = Off(t.shape, t.strides, k)
    BY <1>1, <1>2, <2>1, <2>3, Represented
  <2> QED BY <2>2, <2>3, <2>4 DEF Off
<1> QED BY <1>2 DEF ViewIffRepresentable

-----------------------------------------------------------------------------
(***************************************************************************)
(* The theorems.                                                           *)
(***************************************************************************)
\* The storage of a tensor that was built, not viewed, holds its elements:
\* what StartsAssumption asks of the tensors a program starts with.
LEMMA LeafAllocated ==
  ASSUME NEW shape \in Seq(Nat), NEW origin
  PROVE  Allocated(Leaf(shape, origin)) /\ Resident(Leaf(shape, origin))
<1> DEFINE n == element_count(shape)
           data == [k \in 1..n |-> Unit(n, k)]
           strides == contiguous_strides(shape)
           t == Leaf(shape, origin)
<1>1. /\ DOMAIN t = Fields /\ t.shape = shape /\ t.strides = strides /\ t.offset = 0 /\ t.storage = data
      /\ t.device = "cpu"
  BY DEF Leaf, Fields
<1>2. n \in Nat
  BY CountIs
<1>3. LaysOut(shape, strides)
  BY ContiguousCompact DEF LaysOut
<1>4. Stored(data, n)
  <2>1. DOMAIN data = 1..n /\ data = [k \in 1..n |-> data[k]]
    OBVIOUS
  <2> HIDE DEF data, n
  <2> QED BY <1>2, <2>1, FunctionStored
<1>5. validate_view_bounds(shape, strides, 0, n)
  BY <1>3, FilledBounds
<1> HIDE DEF t, data, strides, n
<1>6. t.storage \in Seq(Range(t.storage)) /\ Len(t.storage) = n
  BY <1>1, <1>2, <1>4, StoredIs
<1>7. Allocated(t)
  BY <1>1, <1>3, <1>5, <1>6 DEF Allocated, LaysOut, Layout
<1>8. Resident(t)
  BY <1>1 DEF Resident
<1> QED BY <1>7, <1>8 DEF t

LEMMA HeldWithin == ASSUME Held PROVE ViewsStayInStorage
BY DEF Held, Allocated, ViewsStayInStorage

\* Both tensors address only what they store, whatever the caller's calls.
THEOREM TensorsHeld == Spec => []Held
<1>1. Init => Held
  BY StartsAssumption DEF Init, Held
<1>2. Held /\ [Next]_vars => Held'
  BY StepHolds
<1> QED BY <1>1, <1>2, PTL DEF Spec

\* Everything a tensor addresses lies in its storage, whatever views, copies
\* and operations of src/src/tensor.rs the caller applies and in which order,
\* for tensors of every shape, so the unchecked reads of the packed and
\* device paths stay within what was allocated.
THEOREM ViewsInStorage == Spec => []ViewsStayInStorage
<1>1. Held => ViewsStayInStorage
  BY HeldWithin
<1> QED BY <1>1, TensorsHeld, PTL

\* A tensor of the device never has a history.
THEOREM TensorsPlaced == Spec => []Placed
<1>1. Init => Placed
  BY StartsAssumption DEF Init, Placed, Sited, Allocated
<1>2. Held /\ Placed /\ [Next]_vars => Placed'
  BY StepPlaces
<1> QED BY <1>1, <1>2, TensorsHeld, PTL DEF Spec

\* The whole-graph executor of src/src/tensor_cuda_graph.rs plans every
\* operation exactly as src/src/tensor.rs performs it: for tensors on the
\* device of every shape, whatever views and operations they come from, the
\* plan accepts an operation when the operator does and predicts the layout
\* of its result, so execute never meets another one after the first launch.
THEOREM PlansHold == Spec => []PlansMatchExecution
<1>1. Held /\ Placed => PlansMatchExecution
  BY PlansAgree
<1> QED BY <1>1, TensorsHeld, TensorsPlaced, PTL

\* For tensors of every shape and whatever views they have been through: a
\* layout is found dense exactly when its elements are one stretch of memory,
\* and every layout src/src/tensor.rs chooses for a result gives each element
\* a slot of its own and leaves no slot of the new storage unwritten.
THEOREM LayoutsHold == Spec => []LayoutsArePacked
<1>1. Held => LayoutsArePacked
  BY LayoutsPacked
<1> QED BY <1>1, TensorsHeld, PTL

\* view() and reshape() find strides for a shape of as many elements exactly
\* when there are some that address the same elements in the same order, for a
\* tensor of every shape and layout: compute_reshape_view_strides refuses no
\* view that could be had and invents none.
THEOREM ViewsHold == Spec => []ViewIffRepresentable
<1>1. Held => ViewIffRepresentable
  BY ViewsRepresented
<1> QED BY <1>1, TensorsHeld, PTL

=============================================================================
