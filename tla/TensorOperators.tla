---------------------------- MODULE TensorOperators ----------------------------
(***************************************************************************)
(* The tensor operators of src/src/tensor.rs: views that share storage,    *)
(* copies that pack it, joins, elementwise operations and reductions, with *)
(* the fast paths each of them may take, and what each one sends back to   *)
(* its input in a backward pass.  Values are coefficient vectors over the  *)
(* elements of the tensor a program starts with, so that every linear      *)
(* operation on them is exact.                                             *)
(***************************************************************************)
EXTENDS TensorLayout

(* Values.                                                                 *)
Zero(n) == [e \in 1 .. n |-> 0]
Unit(n, k) == [e \in 1 .. n |-> IF e = k THEN 1 ELSE 0]
Values == Seq(Int)
Scaled(v, factor) == [e \in DOMAIN v |-> factor * v[e]]
Plus(v, w) == [e \in DOMAIN v |-> v[e] + w[e]]
Sum(values, zero) == FoldLeft(Plus, zero, values)

(* A tensor: its storage, whether that is plain memory of the CPU (a       *)
(* gradient shared with a leaf is not), and its layout.  width is the      *)
(* length of its values.  pull holds, for every element of a tensor with   *)
(* history, the gradient of the leaf when backward is seeded with that     *)
(* element alone.                                                          *)
elements(t) == element_count(t.shape)
stored_value(t, offset) == t.storage[offset + 1]
Operand(t) == [shape |-> t.shape, strides |-> t.strides]

is_contiguous(t) == layout_is_contiguous(t.shape, t.strides)
is_channels_last(t) == layout_is_contiguous_in_order(t.shape, t.strides, ChannelsLast)
is_dense(t) == layout_is_non_overlapping_and_dense(t.shape, t.strides)

Leaf(shape, origin) ==
    LET n == element_count(shape)
        data == [k \in 1 .. n |-> Unit(n, k)]
    IN  [device |-> "cpu", owned |-> origin # "gradient", tracked |-> origin = "leaf",
         width |-> n, storage |-> data, shape |-> shape, strides |-> contiguous_strides(shape), offset |-> 0,
         pull |-> IF origin = "leaf" THEN data ELSE <<>>]

\* A view keeps the storage.
ViewOf(t, shape, strides, offset, pull) ==
    [t EXCEPT !.shape = shape, !.strides = strides, !.offset = offset, !.pull = pull]

from_owned_parts(t, data, shape, strides, pull) ==
    [t EXCEPT !.owned = (t.device = "cpu"), !.storage = data, !.shape = shape, !.strides = strides,
              !.offset = 0, !.pull = pull]

(* Reading a tensor in logical order.                                      *)
has_contiguous_slice(t) == elements(t) = 0 \/ (is_contiguous(t) /\ t.owned)
has_dense_slice(t) == is_dense(t) /\ t.owned

\* Mutant: the memory is read from the start of the storage.
slice_from_start(t) == SubSeq(t.storage, 1, elements(t))

\* The storage from the offset on, as many values as there are elements.
physical_slice(t) == SubSeq(t.storage, t.offset + 1, t.offset + elements(t))

value_at_strided_linear_index(t, index) ==
    stored_value(t, logical_offset_for_linear_index(t.shape, t.strides, t.offset, index))

logical_values(t) ==
    IF has_contiguous_slice(t) THEN physical_slice(t)
    ELSE IF t.owned /\ Len(t.shape) \in 2 .. 6
    THEN LET offsets == OdometerOffsets(t.shape, t.strides, t.offset)
         IN  [k \in 1 .. elements(t) |-> stored_value(t, offsets[k])]
    ELSE [k \in 1 .. elements(t) |-> value_at_strided_linear_index(t, k - 1)]

\* data[at[k]] = values[k] for every k in turn; a later write replaces an
\* earlier one.
Scatter(data, at, values) ==
    [slot \in DOMAIN data |->
        LET writes == {k \in DOMAIN values : at[k] = slot - 1}
        IN  IF writes = {} THEN data[slot] ELSE values[Max(writes)]]

OutputSlots(shape, strides) ==
    [k \in 1 .. element_count(shape) |-> logical_offset_for_linear_index(shape, strides, 0, k - 1)]

\* The values in logical order, laid out with the given strides.
LaidOut(values, shape, strides) == Scatter(values, OutputSlots(shape, strides), values)

materialize_with_strides(t, strides, operation) ==
    LET image(values) == [k \in DOMAIN values |-> operation[values[k]]]
    IN  IF layout_is_contiguous(t.shape, strides) THEN image(logical_values(t))
        ELSE IF t.strides = strides /\ has_dense_slice(t) THEN image(physical_slice(t))
        ELSE LaidOut(image(logical_values(t)), t.shape, strides)

Copied == [value \in Values |-> value]

\* Mutant: gaps and repeats of the source are kept.
keep_strides(t) == t.strides

\* The strides a copy keeps: those of a dense tensor, otherwise their order.
preserve_format_strides(t) ==
    IF is_dense(t) THEN t.strides ELSE elementwise_output_strides(t.shape, <<Operand(t)>>)

(* Gradients.  transform_backward takes the gradient of an output to that  *)
(* of the input; the gradients here are vectors over the output elements,  *)
(* so that one evaluation gives the whole matrix.                          *)
Upstream(n) == [k \in 1 .. n |-> Unit(n, k)]

\* pull of the output, from the gradient of the input and its own pull.
Through(t, gradient, n) ==
    [k \in 1 .. n |->
        Sum([i \in DOMAIN t.pull |-> Scaled(t.pull[i], gradient[i][k])], Zero(t.width))]

LogicalIndex(shape, coordinates) == Address(contiguous_strides(shape), 0, coordinates)

slice_backward_into(gradient, shape, dimension, start, length, upstream) ==
    LET output == [shape EXCEPT ![dimension] = length]
    IN  Scatter(gradient, [k \in DOMAIN upstream |->
            LogicalIndex(shape, [Coordinates(output, k - 1) EXCEPT ![dimension] = @ + start])],
            upstream)

\* Mutant: the gradient goes to the first of the selected slices.
select_backward_first(gradient, shape, dimension, index, upstream) ==
    LET output == RemoveAt(shape, dimension)
    IN  Scatter(gradient, [k \in DOMAIN upstream |->
            LogicalIndex(shape, InsertAt(Coordinates(output, k - 1), dimension, 0))], upstream)

select_backward(gradient, shape, dimension, index, upstream) ==
    LET output == RemoveAt(shape, dimension)
    IN  Scatter(gradient, [k \in DOMAIN upstream |->
            LogicalIndex(shape, InsertAt(Coordinates(output, k - 1), dimension, index))], upstream)

permute_backward(gradient, shape, dimensions, upstream) ==
    LET output == [d \in DOMAIN dimensions |-> shape[dimensions[d]]]
    IN  IF dimensions = <<2, 1>>
        THEN [i \in DOMAIN gradient |->
                upstream[((i - 1) % shape[2]) * shape[1] + (i - 1) \div shape[2] + 1]]
        ELSE Scatter(gradient, [k \in DOMAIN upstream |->
                Total([d \in DOMAIN dimensions |->
                    Coordinates(output, k - 1)[d] * contiguous_strides(shape)[dimensions[d]]])],
                upstream)

transform_backward(t, mapping, n) ==
    LET upstream == Upstream(n)
        gradient == [i \in 1 .. elements(t) |-> Zero(n)]
    IN  CASE mapping.kind = "identity" -> upstream
          [] mapping.kind = "index" ->
                [i \in DOMAIN gradient |->
                    IF i - mapping.start \in 1 .. n THEN upstream[i - mapping.start] ELSE gradient[i]]
          [] mapping.kind = "slice" ->
                slice_backward_into(gradient, t.shape, mapping.dimension, mapping.start,
                                    mapping.length, upstream)
          [] mapping.kind = "select" ->
                select_backward(gradient, t.shape, mapping.dimension, mapping.index, upstream)
          [] mapping.kind = "permute" ->
                permute_backward(gradient, t.shape, mapping.dimensions, upstream)

Identity == [kind |-> "identity"]

record_transform(t, mapping, n) ==
    IF t.tracked THEN Through(t, transform_backward(t, mapping, n), n) ELSE <<>>

(* Operations.  Each is a set of results, empty when the code returns an   *)
(* error.                                                                  *)
When(accepted, result) == IF accepted THEN {result} ELSE {}

RecordedView(t, shape, strides, offset, mapping) ==
    ViewOf(t, shape, strides, offset, record_transform(t, mapping, element_count(shape)))

metadata_alias(t) == RecordedView(t, t.shape, t.strides, t.offset, Identity)

permute_axes(t, dimensions) ==
    When(Len(dimensions) = Len(t.shape) /\ IsInjective(dimensions),
         RecordedView(t, [d \in DOMAIN dimensions |-> t.shape[dimensions[d]]],
                      [d \in DOMAIN dimensions |-> t.strides[dimensions[d]]], t.offset,
                      [kind |-> "permute", dimensions |-> dimensions]))

reverse_dimensions(t) == permute_axes(t, RowMajor(Len(t.shape)))

Swapped(rank, first, second) ==
    [d \in 1 .. rank |-> IF d = first THEN second ELSE IF d = second THEN first ELSE d]

transpose(t, dim0, dim1) ==
    UNION {permute_axes(t, Swapped(Len(t.shape), first, second)) :
             first \in normalize_transpose_dimension(dim0, Len(t.shape)),
             second \in normalize_transpose_dimension(dim1, Len(t.shape))}

matrix_transpose(t) ==
    CASE Len(t.shape) = 0 -> {metadata_alias(t)}
      [] Len(t.shape) = 1 -> {}
      [] OTHER -> transpose(t, -2, -1)

unsqueeze_axis(t, axis) ==
    RecordedView(t, InsertAt(t.shape, axis, 1), unsqueezed_strides(t.shape, t.strides, axis),
                 t.offset, Identity)

Ascending(axes) ==
    [k \in 1 .. Cardinality(axes) |-> CHOOSE axis \in axes : Cardinality(axes \cap 1 .. axis) = k]

\* The axes a squeeze leaves, given those it was asked to remove.
Remaining(t, selected) ==
    Ascending({d \in DOMAIN t.shape : d \notin selected \/ t.shape[d] # 1})

squeeze_selected(t, selected) ==
    LET left == Remaining(t, selected)
    IN  RecordedView(t, [k \in DOMAIN left |-> t.shape[left[k]]],
                     [k \in DOMAIN left |-> t.strides[left[k]]], t.offset, Identity)

checked_offset(t, dimension, index) == t.offset + index * t.strides[dimension]

slice_dimension(t, dimension, start, length) ==
    LET shape == [t.shape EXCEPT ![dimension] = length]
        offset == checked_offset(t, dimension, start)
    IN  When(/\ start <= t.shape[dimension] /\ length <= t.shape[dimension] - start
             /\ validate_view_bounds(shape, t.strides, offset, Len(t.storage)),
             RecordedView(t, shape, t.strides, offset,
                [kind |-> "slice", dimension |-> dimension, start |-> start, length |-> length]))

chunk_lengths(size, chunks) ==
    LET width == (size + chunks - 1) \div chunks
        count == IF size = 0 THEN chunks ELSE (size + width - 1) \div width
    IN  [k \in 1 .. count |-> Min({width, size - width * (k - 1)})]

split_lengths(size, width) ==
    [k \in 1 .. (IF size = 0 THEN 1 ELSE (size + width - 1) \div width) |->
        Min({width, size - width * (k - 1)})]

\* One of the slices, whose gradient alone reaches the shared node.
partition_dimension(t, dimension, lengths, k) ==
    slice_dimension(t, dimension, Total(SubSeq(lengths, 1, k - 1)), lengths[k])

\* The leading axes are fixed; Index starts at the block of the output.
index_dimensions(t, indices) ==
    LET n == Len(indices)
        at == [d \in 1 .. n |-> IF indices[d] < 0 THEN t.shape[d] + indices[d] ELSE indices[d]]
        shape == SubSeq(t.shape, n + 1, Len(t.shape))
        strides == SubSeq(t.strides, n + 1, Len(t.shape))
        offset == Address(SubSeq(t.strides, 1, n), t.offset, at)
        prefix == FoldLeft(LAMBDA index, d : index * t.shape[d] + at[d], 0, [d \in 1 .. n |-> d])
    IN  When(/\ \A d \in 1 .. n : at[d] \in Linear(t.shape[d])
             /\ validate_view_bounds(shape, strides, offset, Len(t.storage)),
             RecordedView(t, shape, strides, offset,
                          [kind |-> "index", start |-> prefix * element_count(shape)]))

select_dimension(t, dimension, index) ==
    LET at == IF index < 0 THEN t.shape[dimension] + index ELSE index
        shape == RemoveAt(t.shape, dimension)
        strides == RemoveAt(t.strides, dimension)
        offset == checked_offset(t, dimension, at)
    IN  When(/\ at \in Linear(t.shape[dimension])
             /\ validate_view_bounds(shape, strides, offset, Len(t.storage)),
             RecordedView(t, shape, strides, offset,
                          [kind |-> "select", dimension |-> dimension, index |-> at]))

(* Copies.                                                                 *)
Packed(t, strides) ==
    from_owned_parts(t, materialize_with_strides(t, strides, Copied), t.shape, strides,
                     record_transform(t, Identity, elements(t)))

has_format(t, format) == IF format = "channels_last" THEN is_channels_last(t) ELSE is_contiguous(t)

format_strides(t, format) ==
    IF format = "channels_last" THEN strides_in_physical_order(t.shape, ChannelsLast)
    ELSE contiguous_strides(t.shape)

\* The device packs matrices and vectors only.
cuda_packs(t) == Len(t.shape) \in 1 .. 2 /\ (elements(t) = 0 \/ \A d \in DOMAIN t.strides : t.strides[d] # 0)

try_contiguous_impl(t, format, reuse) ==
    IF format = "channels_last" /\ Len(t.shape) # 4 THEN {}
    ELSE IF t.device = "cuda" /\ ~reuse THEN {}
    ELSE IF reuse /\ has_format(t, format) THEN {metadata_alias(t)}
    ELSE When(t.device = "cpu" \/ (format = "contiguous" /\ cuda_packs(t)),
              Packed(t, format_strides(t, format)))

try_contiguous(t, format) == try_contiguous_impl(t, format, TRUE)

try_clone_with_memory_format(t, format) ==
    When(/\ t.device = "cuda" => format = "preserve" /\ Len(t.shape) = 1 /\ is_contiguous(t)
         /\ format = "channels_last" => Len(t.shape) = 4,
         Packed(t, IF format = "preserve" THEN preserve_format_strides(t) ELSE format_strides(t, format)))

try_copy_with_memory_format(t, format) ==
    IF format = "preserve" THEN try_clone_with_memory_format(t, format)
    ELSE try_contiguous_impl(t, format, FALSE)

try_copy_cpu_to_cuda(t) ==
    LET strides == preserve_format_strides(t)
        data == IF has_dense_slice(t) THEN physical_slice(t)
                ELSE materialize_with_strides(t, strides, Copied)
    IN  When(t.device = "cpu" /\ ~t.tracked,
             [from_owned_parts(t, data, t.shape, strides, <<>>) EXCEPT !.device = "cuda", !.owned = FALSE])

\* The rectangle of source memory that each copy takes: as many inner axes
\* as are packed, and one more at its own pitch.
CopyRegion(shape, strides) ==
    LET real == SelectSeq(RowMajor(Len(shape)), LAMBDA d : shape[d] # 1)
        packed(p) == Product([q \in 1 .. (p - 1) |-> shape[real[q]]])
        breaks == {p \in DOMAIN real : strides[real[p]] # packed(p)}
    IN  IF breaks = {} THEN [width |-> element_count(shape), rows |-> 1, pitch |-> 1]
        ELSE LET p == Min(breaks)
             IN  [width |-> packed(p), rows |-> shape[real[p]], pitch |-> strides[real[p]]]

\* Axes from the outermost of the packed result inwards; those of one
\* stride may come in any order.
PhysicalOrders(strides) ==
    {order \in [DOMAIN strides -> DOMAIN strides] :
        /\ IsInjective(order)
        /\ \A p, q \in DOMAIN order : p < q => strides[order[p]] >= strides[order[q]]}

copy_cuda_packed(t, order) ==
    LET shape == [d \in DOMAIN order |-> t.shape[order[d]]]
        strides == [d \in DOMAIN order |-> t.strides[order[d]]]
        region == CopyRegion(shape, strides)
        taken == region.width * region.rows
        from(k) == logical_offset_for_linear_index(shape, strides, t.offset, (k \div taken) * taken)
                   + ((k % taken) \div region.width) * region.pitch + (k % region.width)
    IN  [k \in 1 .. elements(t) |-> stored_value(t, from(k - 1))]

try_copy_cuda_to_cpu(t) ==
    LET strides == preserve_format_strides(t)
        arrived(data) == [t EXCEPT !.device = "cpu", !.owned = TRUE, !.storage = data,
                                   !.strides = strides, !.offset = 0]
    IN  IF t.device = "cpu" THEN try_clone_with_memory_format(t, "preserve")
        ELSE IF is_dense(t) THEN {arrived(physical_slice(t))}
        ELSE {arrived(copy_cuda_packed(t, order)) : order \in PhysicalOrders(strides)}

(* Reshapes: a view when the strides allow it, otherwise a copy.           *)
RecordedReshape(t, shape) ==
    LET strides == reshape_view_strides(t.shape, t.strides, shape)
    IN  When(strides # NoView, RecordedView(t, shape, strides, t.offset, Identity))

\* Mutant: the copy is addressed at the offset of its source.
reshape_at_offset(t, shape) ==
    IF reshape_view_strides(t.shape, t.strides, shape) # NoView THEN RecordedReshape(t, shape)
    ELSE {[packed EXCEPT !.shape = shape, !.strides = contiguous_strides(shape), !.offset = t.offset] :
             packed \in try_contiguous(t, "contiguous")}

reshape_resolved(t, shape) ==
    IF reshape_view_strides(t.shape, t.strides, shape) # NoView THEN RecordedReshape(t, shape)
    ELSE {[packed EXCEPT !.shape = shape, !.strides = contiguous_strides(shape), !.offset = 0] :
             packed \in try_contiguous(t, "contiguous")}

reshape(t, request) ==
    UNION {reshape_resolved(t, shape) : shape \in resolve_reshape_shape(request, elements(t))}

view(t, request) ==
    UNION {RecordedReshape(t, shape) : shape \in resolve_reshape_shape(request, elements(t))}

unflatten(t, axis, request) ==
    UNION {RecordedReshape(t, SubSeq(t.shape, 1, axis - 1) \o split \o SubSeq(t.shape, axis + 1, Len(t.shape))) :
             split \in resolve_reshape_shape(request, t.shape[axis])}

CollapsedShape(shape, start, end) ==
    SubSeq(shape, 1, start - 1) \o <<Product(SubSeq(shape, start, end))>>
        \o SubSeq(shape, end + 1, Len(shape))

collapse_dimensions(t, start, end) ==
    CASE start > end -> {}
      [] Len(t.shape) = 0 -> reshape(t, <<1>>)
      [] Len(t.shape) > 0 /\ start = end -> {metadata_alias(t)}
      [] OTHER -> reshape(t, CollapsedShape(t.shape, start, end))

flatten(t, start_dim, end_dim) ==
    UNION {collapse_dimensions(t, start, end) :
             start \in normalize_transpose_dimension(start_dim, Len(t.shape)),
             end \in normalize_transpose_dimension(end_dim, Len(t.shape))}

ravel(t) ==
    UNION {IF Len(packed.shape) = 1 THEN {metadata_alias(packed)} ELSE flatten(packed, 0, -1) :
             packed \in try_contiguous(t, "contiguous")}

(* Elementwise operations on two operands.                                 *)
Op(l, r, sign) == Plus(l, Scaled(r, sign))
Zipped(left, right, sign) == [k \in DOMAIN left |-> Op(left[k], right[k], sign)]

same_shape_elementwise_output_strides(l, r) ==
    IF is_contiguous(l) /\ is_contiguous(r) THEN contiguous_strides(l.shape)
    ELSE IF is_channels_last(l) /\ is_channels_last(r)
    THEN strides_in_physical_order(l.shape, ChannelsLast)
    ELSE IF is_dense(l) /\ is_dense(r) /\ l.strides = r.strides THEN l.strides
    ELSE elementwise_output_strides(l.shape, <<Operand(l), Operand(r)>>)

\* Zipping the memory of both operands as it lies.
PhysicalZip(l, r, sign) == Zipped(physical_slice(l), physical_slice(r), sign)

zip_map_with_strides(l, r, sign, strides) ==
    LET physical == \/ has_contiguous_slice(l) /\ has_contiguous_slice(r)
                    \/ /\ l.strides = strides /\ r.strides = strides
                       /\ has_dense_slice(l) /\ has_dense_slice(r)
    IN  [data |-> IF physical THEN PhysicalZip(l, r, sign)
                  ELSE LaidOut(Zipped(logical_values(l), logical_values(r), sign), l.shape, strides),
         shape |-> l.shape, strides |-> strides]

zip_map_same_shape(l, r, sign) ==
    zip_map_with_strides(l, r, sign, same_shape_elementwise_output_strides(l, r))

\* Subtraction without history tries a path of its own first.
subtracts_matching_dense(l, r, sign) ==
    /\ sign = -1 /\ ~l.tracked /\ ~r.tracked
    /\ l.shape = r.shape /\ l.strides = r.strides /\ is_dense(l) /\ is_dense(r)
    /\ ~(is_contiguous(l) /\ is_contiguous(r) /\ l.offset = 0 /\ r.offset = 0)
    /\ l.strides = same_shape_elementwise_output_strides(l, r)
    /\ has_dense_slice(l) /\ has_dense_slice(r)

BroadcastShape(l, r) ==
    LET rank == Max({Len(l.shape), Len(r.shape)})
    IN  [d \in 1 .. rank |-> broadcast_dimension(aligned_dimension(l.shape, rank, d),
                                                 aligned_dimension(r.shape, rank, d))]

PlanFor(shape, l, r) ==
    [shape |-> shape, strides |-> elementwise_output_strides(shape, <<Operand(l), Operand(r)>>)]
BroadcastPlan(l, r) == PlanFor(BroadcastShape(l, r), l, r)

\* A vector against rows of its length, or one scalar per row, both packed.
trailing_broadcast(l, r, plan) ==
    LET vector(a, b) == Len(a.shape) > 1 /\ Len(b.shape) = 1 /\ Last(a.shape) = b.shape[1]
        scalars(a, b) == /\ Len(a.shape) = Len(b.shape) /\ Len(a.shape) > 0
                         /\ Front(a.shape) = Front(b.shape) /\ Last(a.shape) # 1 /\ Last(b.shape) = 1
        packed(broad) == /\ elements(broad) # 0
                         /\ has_contiguous_slice(l) /\ has_contiguous_slice(r)
                         /\ layout_is_contiguous(plan.shape, plan.strides)
    IN  CASE vector(l, r) \/ scalars(l, r) -> packed(l)
          [] vector(r, l) \/ scalars(r, l) -> packed(r)
          [] OTHER -> FALSE

\* The operand's value under every element of the result: a vector repeats
\* from row to row, a scalar within its row, the broad operand not at all.
RowValues(t, plan) ==
    LET n == element_count(plan.shape)
        width == Last(plan.shape)
        values == physical_slice(t)
    IN  [k \in 1 .. n |-> values[IF Len(values) = n THEN k
                                 ELSE IF Last(t.shape) = width THEN ((k - 1) % width) + 1
                                 ELSE ((k - 1) \div width) + 1]]

\* The offsets an operand is read at: a step along the axis that advances,
\* after rewinding every axis inside it.
BroadcastOffsets(t, shape) ==
    LET rank == Len(shape)
        step(d) == aligned_broadcast_stride(Operand(t), rank, d, shape[d])
        carry(n) == Max({d \in 1 .. rank : Coordinates(shape, n)[d] + 1 < shape[d]})
        offset[n \in Linear(element_count(shape))] ==
            IF n = 0 THEN t.offset
            ELSE offset[n - 1] + step(carry(n - 1))
                 - Total([d \in 1 .. rank |->
                            IF d > carry(n - 1) THEN step(d) * (shape[d] - 1) ELSE 0])
    IN  [k \in 1 .. element_count(shape) |-> offset[k - 1]]

materialize_broadcast(l, r, plan, sign) ==
    LET left == BroadcastOffsets(l, plan.shape)
        right == BroadcastOffsets(r, plan.shape)
        values == [k \in DOMAIN left |-> Op(stored_value(l, left[k]), stored_value(r, right[k]), sign)]
    IN  IF layout_is_contiguous(plan.shape, plan.strides) THEN values
        ELSE LaidOut(values, plan.shape, plan.strides)

zip_map_rank_zero(l, r, plan, sign) ==
    IF Len(l.shape) = 0
    THEN LET scalar == logical_values(l)[1]
         IN  materialize_with_strides(r, plan.strides, [value \in Values |-> Op(scalar, value, sign)])
    ELSE LET scalar == logical_values(r)[1]
         IN  materialize_with_strides(l, plan.strides, [value \in Values |-> Op(value, scalar, sign)])

zip_map_planned(l, r, sign, plan) ==
    [data |-> IF element_count(plan.shape) = 0 THEN <<>>
              ELSE IF trailing_broadcast(l, r, plan)
              THEN Zipped(RowValues(l, plan), RowValues(r, plan), sign)
              ELSE IF (Len(l.shape) = 0) # (Len(r.shape) = 0) THEN zip_map_rank_zero(l, r, plan, sign)
              ELSE materialize_broadcast(l, r, plan, sign),
     shape |-> plan.shape, strides |-> plan.strides]

zip_map_broadcast(l, r, sign) == zip_map_planned(l, r, sign, BroadcastPlan(l, r))

\* The element of an operand under an element of the result, found again by
\* the backward pass.
broadcast_position(shape, output, coordinates) ==
    LET leading == Len(output) - Len(shape)
    IN  FoldLeft(LAMBDA index, d : index * shape[d]
                                   + (IF shape[d] = 1 THEN 0 ELSE coordinates[leading + d]),
                 0, [d \in DOMAIN shape |-> d])

add_subtract_backward(t, output, factor) ==
    LET n == element_count(output)
        at == [k \in 1 .. n |-> broadcast_position(t.shape, output, Coordinates(output, k - 1))]
    IN  [i \in 1 .. elements(t) |->
            Sum([k \in 1 .. n |-> IF at[k] = i - 1 THEN Scaled(Unit(n, k), factor) ELSE Zero(n)], Zero(n))]

BothPulls(l, r, left, right, n) ==
    IF l.tracked THEN Zipped(Through(l, left, n), Through(r, right, n), 1) ELSE <<>>

zip_map(l, r, sign) ==
    IF subtracts_matching_dense(l, r, sign)
    THEN [data |-> PhysicalZip(l, r, sign), shape |-> l.shape, strides |-> l.strides]
    ELSE IF l.shape = r.shape THEN zip_map_same_shape(l, r, sign)
    ELSE zip_map_broadcast(l, r, sign)

RecordedSum(l, r, sign, out) ==
    from_owned_parts(l, out.data, out.shape, out.strides,
        BothPulls(l, r, add_subtract_backward(l, out.shape, 1),
                  add_subtract_backward(r, out.shape, sign), element_count(out.shape)))

add_subtract_cpu(l, r, sign) ==
    When(\A d \in DOMAIN BroadcastShape(l, r) : BroadcastShape(l, r)[d] # -1,
         RecordedSum(l, r, sign, zip_map(l, r, sign)))

\* Equal shapes, or a matrix and a vector of its columns; the matrix is
\* normalised to the left.
trails(a, b) == Len(a.shape) = 2 /\ Len(b.shape) = 1 /\ a.shape[2] = b.shape[1]

AddedOnDevice(a, b) ==
    LET columns == Last(b.shape)
        right == IF a.shape = b.shape THEN physical_slice(b)
                 ELSE [k \in 1 .. elements(a) |-> physical_slice(b)[((k - 1) % columns) + 1]]
    IN  from_owned_parts(a, Zipped(physical_slice(a), right, 1), a.shape,
            IF a.shape = b.shape THEN contiguous_strides(a.shape)
            ELSE elementwise_output_strides(a.shape, <<Operand(a), Operand(b)>>), <<>>)

add_cuda(l, r) ==
    When(/\ l.device = r.device /\ ~l.tracked
         /\ is_contiguous(l) /\ is_contiguous(r)
         /\ l.shape = r.shape \/ trails(l, r) \/ trails(r, l),
         IF trails(r, l) THEN AddedOnDevice(r, l) ELSE AddedOnDevice(l, r))

add_subtract(l, r, sign) ==
    IF "cuda" \in {l.device, r.device} THEN IF sign = 1 THEN add_cuda(l, r) ELSE {}
    ELSE add_subtract_cpu(l, r, sign)

unary_output_strides(t) ==
    IF is_contiguous(t) THEN contiguous_strides(t.shape)
    ELSE IF is_channels_last(t) THEN strides_in_physical_order(t.shape, ChannelsLast)
    ELSE IF is_dense(t) THEN t.strides
    ELSE elementwise_output_strides(t.shape, <<Operand(t)>>)

\* Every element times a factor, which the gradient is multiplied by too.
Multiplied(t, factor, strides) ==
    LET n == elements(t)
        gradient == [k \in 1 .. n |-> Scaled(Unit(n, k), factor)]
    IN  When(t.device = "cpu" \/ is_contiguous(t),
             from_owned_parts(t, materialize_with_strides(t, strides, [v \in Values |-> Scaled(v, factor)]),
                              t.shape, strides, IF t.tracked THEN Through(t, gradient, n) ELSE <<>>))

negate(t) == Multiplied(t, -1, unary_output_strides(t))

mul_scalar(t, scalar) ==
    Multiplied(t, scalar, elementwise_output_strides(t.shape, <<Operand(t)>>))

(* Joins.                                                                  *)
\* The rows of a matrix, or a vector as one row; read along the strides.
RowOf(t, row) ==
    [c \in 1 .. Last(t.shape) |->
        stored_value(t, t.offset + (IF Len(t.shape) = 2 THEN row * t.strides[1] ELSE 0)
                        + (c - 1) * Last(t.strides))]

RowsOf(t) ==
    IF Len(t.shape) = 1 THEN RowOf(t, 0)
    ELSE FlattenSeq([row \in 1 .. t.shape[1] |-> RowOf(t, row - 1)])

materialize_concat_rank_3_depth(l, r, shape) ==
    LET at(t, c, d) == stored_value(t, t.offset + c[1] * t.strides[1] + c[2] * t.strides[2] + d * t.strides[3])
    IN  [k \in 1 .. element_count(shape) |->
            LET c == Coordinates(shape, k - 1)
            IN  IF c[3] < l.shape[3] THEN at(l, c, c[3]) ELSE at(r, c, c[3] - l.shape[3])]

\* Blocks of each input in turn, drawn from its logical values.
Blocks(inputs, sizes, outer) ==
    FlattenSeq([b \in 1 .. outer |->
        FlattenSeq([k \in DOMAIN inputs |->
            SubSeq(inputs[k], (b - 1) * sizes[k] + 1, b * sizes[k])])])

materialize_concat(l, r, dimension, shape) ==
    LET rank == Len(shape)
        inner == Product(SubSeq(shape, dimension + 1, rank))
        readable == (l.owned \/ has_contiguous_slice(l)) /\ (r.owned \/ has_contiguous_slice(r))
    IN  IF element_count(shape) = 0 THEN <<>> ELSE
        CASE rank <= 2 /\ dimension = 1 /\ readable -> RowsOf(l) \o RowsOf(r)
          [] rank = 2 /\ dimension = 2 /\ readable ->
                FlattenSeq([row \in 1 .. shape[1] |-> RowOf(l, row - 1) \o RowOf(r, row - 1)])
          [] /\ rank = 3 /\ dimension = 3
             /\ (l.owned \/ elements(l) = 0) /\ (r.owned \/ elements(r) = 0) ->
                materialize_concat_rank_3_depth(l, r, shape)
          [] OTHER ->
                Blocks(<<logical_values(l), logical_values(r)>>,
                       <<l.shape[dimension] * inner, r.shape[dimension] * inner>>,
                       Product(SubSeq(shape, 1, dimension - 1)))

\* The slices of the gradient that belong to the input starting there.
concat_backward(t, dimension, output, axis_start) ==
    LET n == element_count(output)
        inner == Product(SubSeq(output, dimension + 1, Len(output)))
        block == t.shape[dimension] * inner
    IN  [i \in 1 .. elements(t) |->
            Unit(n, ((i - 1) \div block) * output[dimension] * inner
                    + axis_start * inner + ((i - 1) % block) + 1)]

concat_pull(l, r, dimension, output) ==
    BothPulls(l, r, concat_backward(l, dimension, output, 0),
              concat_backward(r, dimension, output, l.shape[dimension]), element_count(output))

cat(l, r, dimension) ==
    LET shape == [l.shape EXCEPT ![dimension] = @ + r.shape[dimension]]
    IN  When(/\ l.device = "cpu" /\ r.device = "cpu"
             /\ Len(l.shape) = Len(r.shape)
             /\ \A d \in DOMAIN l.shape : d # dimension => l.shape[d] = r.shape[d],
             from_owned_parts(l, materialize_concat(l, r, dimension, shape), shape,
                              contiguous_strides(shape), concat_pull(l, r, dimension, shape)))

\* Rank-one inputs are read along their stride; the others as packed slices.
materialize_stack(l, r, dimension) ==
    LET values(t) == IF has_contiguous_slice(t) THEN physical_slice(t)
                     ELSE IF Len(t.shape) = 1 /\ t.owned THEN RowOf(t, 0) ELSE logical_values(t)
        inner == Product(SubSeq(l.shape, dimension, Len(l.shape)))
    IN  Blocks(<<values(l), values(r)>>, <<inner, inner>>, Product(SubSeq(l.shape, 1, dimension - 1)))

\* The saved inputs carry the stacked axis, so a stack unwinds as a concat.
stack(l, r, dimension) ==
    LET shape == InsertAt(l.shape, dimension, 2)
        saved(t) == [t EXCEPT !.shape = InsertAt(t.shape, dimension, 1)]
    IN  When(l.device = "cpu" /\ r.device = "cpu" /\ l.shape = r.shape,
             from_owned_parts(l, materialize_stack(l, r, dimension), shape, contiguous_strides(shape),
                              concat_pull(saved(l), saved(r), dimension, shape)))

(* Reductions.                                                             *)
try_sum(t) ==
    LET gradient == [i \in 1 .. elements(t) |-> Unit(1, 1)]
    IN  When(t.device = "cpu",
             from_owned_parts(t, <<Sum(logical_values(t), Zero(t.width))>>, <<>>, <<>>,
                              IF t.tracked THEN Through(t, gradient, 1) ELSE <<>>))

\* Along the reduced axis from every start along the kept one.
dimension_sum(t, dimension) ==
    [k \in 1 .. t.shape[3 - dimension] |->
        Sum([n \in 1 .. t.shape[dimension] |->
                stored_value(t, t.offset + (n - 1) * t.strides[dimension] + (k - 1) * t.strides[3 - dimension])],
            Zero(t.width))]

\* Dimension 1 repeats the row of gradients, dimension 2 each gradient.
reduction_dimension_backward(t, dimension) ==
    LET n == t.shape[3 - dimension]
        columns == t.shape[2]
    IN  [i \in 1 .. elements(t) |->
            Unit(n, IF dimension = 1 THEN ((i - 1) % columns) + 1 ELSE ((i - 1) \div columns) + 1)]

reduced_rank_two_sum_shape(shape, dimension, keepdim) ==
    IF keepdim THEN [shape EXCEPT ![dimension] = 1] ELSE <<shape[3 - dimension]>>

sum_rank_two_dimension(t, dimension, keepdim) ==
    LET shape == reduced_rank_two_sum_shape(t.shape, dimension, keepdim)
    IN  When(/\ Len(t.shape) = 2
             /\ t.device = "cuda" => dimension = 2 /\ is_contiguous(t),
             from_owned_parts(t, dimension_sum(t, dimension), shape, contiguous_strides(shape),
                IF t.tracked
                THEN Through(t, reduction_dimension_backward(t, dimension), t.shape[3 - dimension])
                ELSE <<>>))

\* A product is not linear in its operands; only its layout is modelled.
cuda_matmul_layout(l, r) ==
    LET shape == <<l.shape[1], r.shape[2]>>
    IN  When(/\ l.device = r.device /\ ~l.tracked /\ ~r.tracked
             /\ Len(l.shape) = 2 /\ Len(r.shape) = 2
             /\ is_contiguous(l) /\ is_contiguous(r)
             /\ l.shape[2] = r.shape[1],
             [shape |-> shape, strides |-> contiguous_strides(shape), offset |-> 0])
===============================================================================
