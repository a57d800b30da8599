---------------------------- MODULE TensorLayout ----------------------------
(***************************************************************************)
(* The layout arithmetic of src/src/tensor.rs: how a shape, one stride per *)
(* axis and an offset address a flat storage.  Axes are numbered from 1    *)
(* here and from 0 in the code; offsets and linear indices from 0 in both. *)
(* Extents are small naturals: the code's checked 64-bit products cannot   *)
(* fail on them, and their overflow errors are left out.                   *)
(***************************************************************************)
EXTENDS Integers, SequencesExt

Product(s) == FoldFunction(LAMBDA a, b : a * b, 1, s)
Total(s) == SumFunction(s)

element_count(shape) == Product(shape)

\* 0 .. n-1, the linear indices of n elements.
Linear(n) == 0 .. (n - 1)

contiguous_strides(shape) ==
    [axis \in DOMAIN shape |->
        Product([k \in 1 .. (Len(shape) - axis) |-> Max({1, shape[axis + k]})])]

\* The stride of every axis when the axes are laid out innermost first in
\* this order; a zero extent zeroes every stride outside it.
strides_in_physical_order(shape, order) ==
    [axis \in DOMAIN shape |->
        LET p == CHOOSE p \in DOMAIN order : order[p] = axis
        IN  Product([q \in 1 .. (p - 1) |-> shape[order[q]]])]

RowMajor(rank) == [p \in 1 .. rank |-> rank + 1 - p]
ChannelsLast == <<2, 4, 3, 1>>
ChannelsLast3d == <<2, 5, 4, 3, 1>>

\* Whether the axes longer than one are packed in this order.
layout_is_contiguous_in_order(shape, strides, order) ==
    /\ Len(shape) = Len(order)
    /\ \A p \in DOMAIN order :
          shape[order[p]] # 1 =>
             strides[order[p]] = Product([q \in 1 .. (p - 1) |-> shape[order[q]]])

layout_is_contiguous(shape, strides) ==
    \/ element_count(shape) = 0
    \/ layout_is_contiguous_in_order(shape, strides, RowMajor(Len(shape)))

\* The axes that tell two elements apart.
LongAxes(shape) == {axis \in DOMAIN shape : shape[axis] > 1}

\* Finds, from stride 1 outwards, the one axis with the stride expected next;
\* 0 once there is none, or more than one.
layout_is_non_overlapping_and_dense(shape, strides) ==
    LET long == LongAxes(shape)
        with(stride) == {axis \in long : strides[axis] = stride}
        expected[matched \in 0 .. Cardinality(long)] ==
            IF matched = 0 THEN 1
            ELSE LET before == expected[matched - 1]
                 IN  IF Cardinality(with(before)) # 1 THEN 0
                     ELSE before * shape[CHOOSE axis \in with(before) : TRUE]
    IN  element_count(shape) = 0 \/ expected[Cardinality(long)] # 0

\* The digits of a linear index in the mixed radix of the shape.
Coordinates(shape, index) ==
    [axis \in DOMAIN shape |->
        (index \div Product(SubSeq(shape, axis + 1, Len(shape)))) % shape[axis]]

Address(strides, offset, coordinates) ==
    offset + Total([axis \in DOMAIN strides |-> coordinates[axis] * strides[axis]])

logical_offset_for_linear_index(shape, strides, offset, index) ==
    Address(strides, offset, Coordinates(shape, index))

validate_view_bounds(shape, strides, offset, stored) ==
    \/ element_count(shape) = 0
    \/ Address(strides, offset, [axis \in DOMAIN shape |-> shape[axis] - 1]) < stored

(* Iteration over a strided view (StridedOffsetOdometer).                  *)
OdometerStart(shape, offset) ==
    [coordinates |-> [axis \in DOMAIN shape |-> 0],
     blocks |-> [axis \in DOMAIN shape |-> offset], next |-> offset]

\* The innermost axis that does not wrap takes a step from the start of its
\* own block; the blocks inside it restart there.  The outermost axis keeps
\* no coordinate.
Advance(shape, strides, o) ==
    LET inner == Len(shape)
        stays == {axis \in 2 .. inner : o.coordinates[axis] + 1 < shape[axis]}
        carry == Max(stays \union {1})
        next == IF carry = inner THEN o.next + strides[inner]
                                 ELSE o.blocks[carry] + strides[carry]
    IN  [coordinates |-> [axis \in 1 .. inner |->
                            IF axis > carry THEN 0
                            ELSE IF axis = carry /\ axis > 1 THEN o.coordinates[axis] + 1
                            ELSE o.coordinates[axis]],
         blocks |-> [axis \in 1 .. inner |->
                        IF axis \in carry .. (inner - 1) THEN next ELSE o.blocks[axis]],
         next |-> next]

\* The offsets the odometer yields, in order.
OdometerOffsets(shape, strides, offset) ==
    LET after[n \in Linear(element_count(shape))] ==
            IF n = 0 THEN OdometerStart(shape, offset) ELSE Advance(shape, strides, after[n - 1])
    IN  [n \in 1 .. element_count(shape) |-> after[n - 1].next]

(* Views of another shape over the same storage.                           *)
NoView == <<-1>>   \* no stride is negative

\* Mutant: an extent of one outside an axis ends its chunk.
EndsAtUnit(shape, strides, axis, next) == axis = 1 \/ strides[axis - 1] # next

\* The axis outside does not go on where this one stops, and moves at all.
EndsChunk(shape, strides, axis, next) ==
    axis = 1 \/ (shape[axis - 1] # 1 /\ strides[axis - 1] # next)

\* Old axes that step as one are a chunk; the new axes must split into the
\* same chunks.  The old axes are consumed from the last to the first.
ConsumeAxis(shape, strides, resolved, s, axis) ==
    LET elements == s.elements * shape[axis]
        covered(d) == Product(SubSeq(resolved, d + 1, s.view))
        left == Max({d \in 0 .. s.view : d = 0 \/ (covered(d) >= elements /\ resolved[d] # 1)})
    IN  IF s.failed \/ ~EndsChunk(shape, strides, axis, elements * s.base)
        THEN [s EXCEPT !.elements = elements]
        ELSE [view |-> left,
              base |-> IF axis > 1 THEN strides[axis - 1] ELSE s.base,
              elements |-> 1,
              failed |-> covered(left) # elements,
              out |-> [d \in DOMAIN resolved |->
                         IF d \in (left + 1) .. s.view THEN s.base * covered(d) ELSE s.out[d]]]

compute_reshape_view_strides(shape, strides, resolved) ==
    LET rank == Len(shape)
        after[n \in 0 .. rank] ==
            IF n = 0 THEN [view |-> Len(resolved), base |-> Last(strides), elements |-> 1,
                           failed |-> FALSE, out |-> [d \in DOMAIN resolved |-> 0]]
            ELSE ConsumeAxis(shape, strides, resolved, after[n - 1], rank + 1 - n)
        end == after[rank]
    IN  IF rank = 0 THEN contiguous_strides(resolved)
        ELSE IF end.failed \/ end.view # 0 THEN NoView
        ELSE end.out

\* Empty tensors view as anything; reshape_strides takes max(1) of every
\* extent, as contiguous_strides does.
reshape_view_strides(shape, strides, resolved) ==
    IF element_count(shape) = 0
    THEN IF resolved = shape THEN strides ELSE contiguous_strides(resolved)
    ELSE compute_reshape_view_strides(shape, strides, resolved)

\* The shapes a request with at most one -1 stands for: none or one.
resolve_reshape_shape(requested, elements) ==
    LET inferred == {axis \in DOMAIN requested : requested[axis] = -1}
        given == Product([axis \in DOMAIN requested |->
                            IF axis \in inferred THEN 1 ELSE requested[axis]])
        resolved == [axis \in DOMAIN requested |->
                        IF axis \in inferred THEN elements \div given ELSE requested[axis]]
    IN  IF \/ Cardinality(inferred) > 1
           \/ \E axis \in DOMAIN requested : requested[axis] < -1
           \/ (inferred # {} /\ (given = 0 \/ elements % given # 0))
        THEN {}
        ELSE {shape \in {resolved} : element_count(shape) = elements}

(* Broadcasting and the layout of elementwise results.                     *)
aligned_dimension(shape, rank, axis) ==
    LET leading == rank - Len(shape) IN IF axis <= leading THEN 1 ELSE shape[axis - leading]

broadcast_dimension(left, right) ==
    IF left = 1 THEN right ELSE IF right = 1 \/ left = right THEN left ELSE -1

aligned_broadcast_stride(operand, rank, axis, dimension) ==
    LET leading == rank - Len(operand.shape)
    IN  IF axis <= leading \/ (operand.shape[axis - leading] = 1 /\ dimension # 1) THEN 0
        ELSE operand.strides[axis - leading]

\* The first operand that moves along both axes and tells them apart decides.
compare_elementwise_dimensions(shape, operands, first, second) ==
    LET step(k, axis) == aligned_broadcast_stride(operands[k], Len(shape), axis, shape[axis])
        decides == {k \in DOMAIN operands :
                      /\ step(k, first) # 0 /\ step(k, second) # 0
                      /\ \/ step(k, first) # step(k, second)
                         \/ shape[first] > shape[second]}
    IN  IF decides = {} THEN 0
        ELSE IF step(Min(decides), first) < step(Min(decides), second) THEN -1 ELSE 1

\* One round of the insertion sort: the axis at this position moves inwards
\* past every axis that compares greater, over those that compare equal, and
\* stops at the first that compares less.
CompareAt(shape, operands, s, candidate) ==
    LET order == compare_elementwise_dimensions(shape, operands,
                     s.permutation[candidate], s.permutation[s.at])
    IN  IF s.stopped \/ order = 0 THEN s
        ELSE IF order < 0 THEN [s EXCEPT !.stopped = TRUE]
        ELSE [permutation |-> [s.permutation EXCEPT ![candidate] = s.permutation[s.at],
                                                    ![s.at] = s.permutation[candidate]],
              at |-> candidate, stopped |-> FALSE]

InsertDimension(shape, operands, permutation, position) ==
    LET after[n \in 0 .. (position - 1)] ==
            IF n = 0 THEN [permutation |-> permutation, at |-> position, stopped |-> FALSE]
            ELSE CompareAt(shape, operands, after[n - 1], position - n)
    IN  after[position - 1].permutation

elementwise_permutation(shape, operands) ==
    LET after[n \in 0 .. Len(shape)] ==
            IF n = 0 THEN RowMajor(Len(shape))
            ELSE InsertDimension(shape, operands, after[n - 1], n)
    IN  after[Len(shape)]

strides_permuted(shape, permutation) ==
    IF permutation = RowMajor(Len(shape)) THEN contiguous_strides(shape)
    ELSE strides_in_physical_order(shape, permutation)

elementwise_output_strides(shape, operands) ==
    strides_permuted(shape, elementwise_permutation(shape, operands))

\* The layout a leaf's gradient is kept in.
leaf_gradient_strides(shape, strides) ==
    IF /\ layout_is_non_overlapping_and_dense(shape, strides)
       /\ validate_view_bounds(shape, strides, 0, element_count(shape))
    THEN strides ELSE contiguous_strides(shape)

unsqueezed_strides(shape, strides, axis) ==
    InsertAt(strides, axis, IF axis = Len(shape) + 1 THEN 1 ELSE strides[axis] * shape[axis])

normalize_transpose_dimension(dimension, rank) ==
    LET effective == Max({rank, 1})
    IN  IF dimension \notin (-effective) .. (effective - 1) THEN {}
        ELSE {(IF dimension < 0 THEN dimension + effective ELSE dimension) + 1}
=============================================================================
