------------------------------- MODULE CudaPlan -------------------------------
(***************************************************************************)
(* The whole-graph executor of src/src/tensor_cuda_graph.rs plans the      *)
(* layout of every intermediate of a captured graph before the first       *)
(* launch, from the layouts of the operands alone; execute then runs the   *)
(* operators and refuses a result whose layout is another one.             *)
(***************************************************************************)
EXTENDS TensorOperators

from_tensor(t) == [shape |-> t.shape, strides |-> t.strides, offset |-> t.offset]

contiguous(l) == layout_is_contiguous(l.shape, l.strides)
Fresh(shape, strides) == [shape |-> shape, strides |-> strides, offset |-> 0]
Bounded(l) == Len(l.shape) <= 2

planned_squeeze(l) ==
    LET left == Ascending({d \in DOMAIN l.shape : l.shape[d] # 1})
    IN  When(Bounded(l),
             [l EXCEPT !.shape = [k \in DOMAIN left |-> l.shape[left[k]]],
                       !.strides = [k \in DOMAIN left |-> l.strides[left[k]]]])

Exchanged(l, axis0, axis1) ==
    LET order == Swapped(Len(l.shape), axis0, axis1)
    IN  [l EXCEPT !.shape = [d \in DOMAIN order |-> l.shape[order[d]]],
                  !.strides = [d \in DOMAIN order |-> l.strides[order[d]]]]

planned_t(l) == When(Bounded(l), Exchanged(l, 1, Len(l.shape)))

planned_transpose(l, dim0, dim1) ==
    {Exchanged(l, axis0, axis1) :
        axis0 \in {d \in normalize_transpose_dimension(dim0, Len(l.shape)) : Bounded(l)},
        axis1 \in normalize_transpose_dimension(dim1, Len(l.shape))}

Packs(l) == Len(l.shape) \in 1 .. 2 /\ \A d \in DOMAIN l.strides : l.strides[d] # 0

PlannedReshape(l, shape, strides, alias_only) ==
    IF strides # NoView THEN {[l EXCEPT !.shape = shape, !.strides = strides]}
    ELSE When(~alias_only /\ Packs(l), Fresh(shape, contiguous_strides(shape)))

planned_reshape(l, request, alias_only) ==
    UNION {PlannedReshape(l, shape, reshape_view_strides(l.shape, l.strides, shape), alias_only) :
             shape \in {s \in resolve_reshape_shape(request, element_count(l.shape)) :
                          Bounded(l) /\ Len(request) <= 2}}

planned_contiguous(l) ==
    IF contiguous(l) THEN {l} ELSE When(Packs(l), Fresh(l.shape, contiguous_strides(l.shape)))

planned_map(l) == When(contiguous(l), Fresh(l.shape, contiguous_strides(l.shape)))

\* Mutant: planned as the other unary operations are.
planned_as_map(l) == planned_map(l)

planned_mul_scalar(l) ==
    When(contiguous(l), Fresh(l.shape, elementwise_output_strides(l.shape, <<Operand(l)>>)))

planned_add(l, r) ==
    LET spread(x, y) == Fresh(x.shape, elementwise_output_strides(x.shape, <<Operand(x), Operand(y)>>))
    IN  IF ~(contiguous(l) /\ contiguous(r)) THEN {}
        ELSE IF l.shape = r.shape THEN {Fresh(l.shape, contiguous_strides(l.shape))}
        ELSE IF trails(l, r) THEN {spread(l, r)}
        ELSE When(trails(r, l), spread(r, l))

planned_sum_rows(l, keepdim) ==
    LET shape == IF keepdim THEN <<l.shape[1], 1>> ELSE <<l.shape[1]>>
    IN  When(contiguous(l) /\ Len(l.shape) = 2, Fresh(shape, contiguous_strides(shape)))

planned_matmul(l, r) ==
    LET shape == <<l.shape[1], r.shape[2]>>
    IN  When(/\ contiguous(l) /\ contiguous(r)
             /\ Len(l.shape) = 2 /\ Len(r.shape) = 2 /\ l.shape[2] = r.shape[1],
             Fresh(shape, contiguous_strides(shape)))

\* The layouts execute would find.
Found(results) == {from_tensor(t) : t \in results}

\* For operands the bridge admits, the plan accepts what the operator
\* accepts and predicts the layout it returns.
UnaryPlansHold(t, requests) ==
    LET l == from_tensor(t)
        dimensions == -3 .. 2
    IN  Bounded(l) =>
        /\ planned_squeeze(l) = Found({squeeze_selected(t, DOMAIN t.shape)})
        /\ planned_t(l) = Found(reverse_dimensions(t))
        /\ \A dim0, dim1 \in dimensions :
              planned_transpose(l, dim0, dim1) = Found(transpose(t, dim0, dim1))
        /\ \A request \in {r \in requests : Len(r) <= 2} :
              /\ planned_reshape(l, request, FALSE) = Found(reshape(t, request))
              /\ planned_reshape(l, request, TRUE) = Found(view(t, request))
        /\ planned_contiguous(l) = Found(try_contiguous(t, "contiguous"))
        /\ planned_map(l) = Found(negate(t))
        /\ planned_mul_scalar(l) = Found(mul_scalar(t, 2))
        /\ \A keepdim \in BOOLEAN :
              planned_sum_rows(l, keepdim)
                = IF Len(t.shape) = 2 THEN Found(sum_rank_two_dimension(t, 2, keepdim)) ELSE {}

BinaryPlansHold(a, b) ==
    LET l == from_tensor(a)
        r == from_tensor(b)
    IN  Bounded(l) /\ Bounded(r) =>
        /\ planned_add(l, r) = Found(add_cuda(a, b))
        /\ planned_matmul(l, r) = cuda_matmul_layout(a, b)
===============================================================================
