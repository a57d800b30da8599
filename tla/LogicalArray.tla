---------------------------- MODULE LogicalArray ----------------------------
(***************************************************************************)
(* What a tensor is to its user: a shape and a value at every index tuple. *)
(* A call replaces the array by what the operation denotes; where values   *)
(* are stored, and which path computed them, cannot be told.  A value is   *)
(* its vector of coefficients over the elements the program started with.  *)
(***************************************************************************)
EXTENDS Integers, SequencesExt

CONSTANTS Bases   \* the arrays a program may start with: [shape, at]

VARIABLES array, other, call

Extent(shape) == FoldLeft(LAMBDA a, b : a * b, 1, shape)
Indices(shape) ==
    {i \in [DOMAIN shape -> 0 .. Max({0} \union {shape[d] : d \in DOMAIN shape})] :
        \A d \in DOMAIN shape : i[d] < shape[d]}

\* The position of an index tuple in row-major order.
RowMajorRank(shape, i) ==
    FoldLeft(LAMBDA rank, d : rank * shape[d] + i[d], 0, [d \in DOMAIN shape |-> d])

Array(shape, At(_)) == [shape |-> shape, at |-> [i \in Indices(shape) |-> At(i)]]

Scale(v, factor) == [e \in DOMAIN v |-> factor * v[e]]
Plus(v, w) == [e \in DOMAIN v |-> v[e] + w[e]]

Permuted(a, dimensions) ==
    Array([d \in DOMAIN dimensions |-> a.shape[dimensions[d]]],
          LAMBDA i : a.at[[d \in DOMAIN a.shape |-> i[CHOOSE k \in DOMAIN dimensions : dimensions[k] = d]]])

Regrouped(a, shape) ==
    Array(shape, LAMBDA i : a.at[CHOOSE j \in Indices(a.shape) :
                                    RowMajorRank(a.shape, j) = RowMajorRank(shape, i)])

\* A request may leave one extent open; the element count fixes it.
Requested(request, elements) ==
    CHOOSE shape \in [DOMAIN request -> 0 .. elements + 1] :
        /\ Extent(shape) = elements
        /\ \A d \in DOMAIN request : request[d] # -1 => shape[d] = request[d]

Window(a, dimension, start, length) ==
    Array([a.shape EXCEPT ![dimension] = length],
          LAMBDA i : a.at[[i EXCEPT ![dimension] = @ + start]])

Picked(a, dimension, index) ==
    Array(RemoveAt(a.shape, dimension), LAMBDA i : a.at[InsertAt(i, dimension, index)])

\* The index of an operand that is stretched to a larger shape.
Projection(shape, i) ==
    [d \in DOMAIN shape |-> IF shape[d] = 1 THEN 0 ELSE i[Len(i) - Len(shape) + d]]

Stretched(left, right) ==
    LET rank == Max({Len(left), Len(right)})
        extent(shape, d) == LET k == d - (rank - Len(shape)) IN IF k < 1 THEN 1 ELSE shape[k]
    IN  [d \in 1 .. rank |-> IF extent(left, d) = 1 THEN extent(right, d) ELSE extent(left, d)]

Combined(left, right, sign) ==
    Array(Stretched(left.shape, right.shape),
          LAMBDA i : Plus(left.at[Projection(left.shape, i)],
                          Scale(right.at[Projection(right.shape, i)], sign)))

Joined(left, right, dimension) ==
    LET first == left.shape[dimension]
    IN  Array([left.shape EXCEPT ![dimension] = @ + right.shape[dimension]],
              LAMBDA i : IF i[dimension] < first THEN left.at[i]
                         ELSE right.at[[i EXCEPT ![dimension] = @ - first]])

Piled(left, right, dimension) ==
    Array(InsertAt(left.shape, dimension, 2),
          LAMBDA i : IF i[dimension] = 0 THEN left.at[RemoveAt(i, dimension)]
                     ELSE right.at[RemoveAt(i, dimension)])

Multiplied(a, factor) == Array(a.shape, LAMBDA i : Scale(a.at[i], factor))

\* The sums over a set of dimensions, each kept as an extent of one.
Summed(a, dimensions, zero) ==
    Array([d \in DOMAIN a.shape |-> IF d \in dimensions THEN 1 ELSE a.shape[d]],
          LAMBDA i : FoldFunctionOnSet(Plus, zero, a.at,
                        {j \in Indices(a.shape) :
                            \A d \in DOMAIN i : d \notin dimensions => j[d] = i[d]}))

Result(c, a, b) ==
    CASE c.op = "permute" -> Permuted(a, c.dimensions)
      [] c.op = "regroup" -> Regrouped(a, c.shape)
      [] c.op = "reshape" -> Regrouped(a, Requested(c.request, Extent(a.shape)))
      [] c.op = "unflatten" ->
            Regrouped(a, SubSeq(a.shape, 1, c.dimension - 1)
                            \o Requested(c.request, a.shape[c.dimension])
                            \o SubSeq(a.shape, c.dimension + 1, Len(a.shape)))
      [] c.op = "window" -> Window(a, c.dimension, c.start, c.length)
      [] c.op = "pick" -> Picked(a, c.dimension, c.index)
      [] c.op = "same" -> a
      [] c.op = "combine" -> IF c.reversed THEN Combined(b, a, c.sign) ELSE Combined(a, b, c.sign)
      [] c.op = "join" -> IF c.reversed THEN Joined(b, a, c.dimension) ELSE Joined(a, b, c.dimension)
      [] c.op = "pile" -> IF c.reversed THEN Piled(b, a, c.dimension) ELSE Piled(a, b, c.dimension)
      [] c.op = "scale" -> Multiplied(a, c.factor)
      [] c.op = "sum" -> Regrouped(Summed(a, c.dimensions, c.zero), c.shape)

\* Nothing has been called yet.
NoCall == [op |-> "none"]

Init == array \in Bases /\ other = array /\ call = NoCall

\* The caller keeps the array it has as a second operand and goes on from
\* the array it started with.
Keep == /\ call'.op = "keep"
        /\ other' = array
        /\ array' = other

Operate == /\ call'.op \notin {"none", "keep"}
           /\ array' = Result(call', array, other)
           /\ UNCHANGED other

Next == Keep \/ Operate

Spec == Init /\ [][Next]_<<array, other, call>>
=============================================================================
