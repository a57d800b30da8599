----------------------------- MODULE TensorViews -----------------------------
(***************************************************************************)
(* A caller drives the tensors of src/src/tensor.rs: it applies operators  *)
(* to the tensor it works on and to one it has kept, on the CPU and on a   *)
(* CUDA device, in any order.                                              *)
(***************************************************************************)
EXTENDS CudaPlan

CONSTANTS
    Starts,     \* the tensors a program may start with
    MaxRank,    \* bound on the rank of a view
    MaxLength,  \* bound on the number of elements
    MaxCalls    \* bound on the number of operations

ASSUME BoundsAssumption == MaxRank \in Nat /\ MaxLength \in Nat /\ MaxCalls \in Nat

Fields == {"device", "owned", "tracked", "width", "storage", "shape", "strides", "offset", "pull"}

\* A tensor, all of whose elements lie in its storage.
Allocated(t) ==
    /\ DOMAIN t = Fields
    /\ t.shape \in Seq(Nat) /\ t.strides \in Seq(Nat) /\ Len(t.strides) = Len(t.shape)
    /\ t.offset \in Nat
    /\ t.storage \in Seq(Range(t.storage))
    /\ validate_view_bounds(t.shape, t.strides, t.offset, Len(t.storage))

\* A tensor of the device has no history.
Resident(t) == t.device \in {"cpu", "cuda"} /\ (t.device = "cuda" => ~t.tracked)

ASSUME StartsAssumption == \A t \in Starts : Allocated(t) /\ Resident(t)

VARIABLES
    tensor,     \* the tensor being worked on
    kept,       \* a second tensor the caller holds
    call,       \* the operation that produced the tensor
    calls       \* number of operations so far

vars == <<tensor, kept, call, calls>>

(* Steps.  The caller chooses the operation and its arguments; call names  *)
(* the operation it denotes, whichever method was used.                    *)
Init ==
    /\ tensor \in Starts
    /\ kept = tensor
    /\ call = [op |-> "none"]
    /\ calls = 0

Return(c, results) ==
    /\ calls < MaxCalls
    /\ \E result \in results :
          /\ Len(result.shape) <= MaxRank
          /\ elements(result) <= MaxLength
          /\ tensor' = result
    /\ call' = c
    /\ calls' = calls + 1
    /\ UNCHANGED kept

Axes == DOMAIN tensor.shape
Rank == Len(tensor.shape)

\* Axis numbers as a caller writes them, from either end.
Dimensions == (-Rank - 1) .. Rank

\* The shapes of the same number of elements, and with one extent left open.
RegroupingsOf(t) == {shape \in UNION {[1 .. rank -> 0 .. elements(t)] : rank \in 0 .. 3} :
                       element_count(shape) = elements(t)}
Regroupings == RegroupingsOf(tensor)
Requests == Regroupings \union
            UNION {{[shape EXCEPT ![d] = -1] : d \in DOMAIN shape} : shape \in Regroupings}

Permute ==
    \E dimensions \in [Axes -> Axes] :
        Return([op |-> "permute", dimensions |-> dimensions], permute_axes(tensor, dimensions))

\* The axis a caller means: counted from the end when negative.
Meant(dimension) == (IF dimension < 0 THEN Max({Rank, 1}) + dimension ELSE dimension) + 1

Transpose ==
    \E dim0, dim1 \in Dimensions :
        Return([op |-> "permute", dimensions |-> Swapped(Rank, Meant(dim0), Meant(dim1))],
               transpose(tensor, dim0, dim1))

ReverseDimensions ==
    Return([op |-> "permute", dimensions |-> [d \in Axes |-> Rank + 1 - d]],
           reverse_dimensions(tensor))

MatrixTranspose ==
    Return([op |-> "permute", dimensions |-> Swapped(Rank, Rank - 1, Rank)], matrix_transpose(tensor))

Regroup(shape, results) == Return([op |-> "regroup", shape |-> shape], results)

Unsqueeze ==
    \E axis \in 1 .. (Rank + 1) :
        Regroup(InsertAt(tensor.shape, axis, 1), {unsqueeze_axis(tensor, axis)})

\* squeeze, squeeze_dim and squeeze_dims differ in the axes they select.
Squeeze ==
    \E selected \in SUBSET Axes :
        LET kept_axes == SelectSeq([d \in Axes |-> d],
                                   LAMBDA d : ~(d \in selected /\ tensor.shape[d] = 1))
        IN  Regroup([k \in DOMAIN kept_axes |-> tensor.shape[kept_axes[k]]],
                    {squeeze_selected(tensor, selected)})

Flatten ==
    \E start, end \in Dimensions :
        Regroup(IF Rank = 0 THEN <<1>> ELSE CollapsedShape(tensor.shape, Meant(start), Meant(end)),
                flatten(tensor, start, end))

Ravel == Regroup(<<elements(tensor)>>, ravel(tensor))

Reshape == \E request \in Requests :
    Return([op |-> "reshape", request |-> request], reshape(tensor, request))

View == \E request \in Requests :
    Return([op |-> "reshape", request |-> request], view(tensor, request))

Unflatten ==
    \E axis \in Axes : \E first \in 1 .. Max({1, tensor.shape[axis]}), second \in {-1, 1, 2} :
        Return([op |-> "unflatten", dimension |-> axis, request |-> <<first, second>>],
               unflatten(tensor, axis, <<first, second>>))

SliceCall(axis, start, length) ==
    [op |-> "window", dimension |-> axis, start |-> start, length |-> length]

Slice == \E axis \in Axes : \E start, length \in 0 .. tensor.shape[axis] :
    Return(SliceCall(axis, start, length), slice_dimension(tensor, axis, start, length))

Partition(axis, lengths) == \E k \in DOMAIN lengths :
    Return(SliceCall(axis, Total(SubSeq(lengths, 1, k - 1)), lengths[k]),
           partition_dimension(tensor, axis, lengths, k))

Chunk == \E axis \in Axes : \E chunks \in 1 .. 3 :
    Partition(axis, chunk_lengths(tensor.shape[axis], chunks))

Split == \E axis \in Axes : \E width \in 1 .. 3 :
    Partition(axis, split_lengths(tensor.shape[axis], width))

Index == \E axis \in Axes : \E index \in (-tensor.shape[axis]) .. (tensor.shape[axis] - 1) :
    Return([op |-> "pick", dimension |-> axis,
            index |-> IF index < 0 THEN tensor.shape[axis] + index ELSE index],
           IF axis = 1 THEN index_dimensions(tensor, <<index>>)
           ELSE select_dimension(tensor, axis, index))

Same(results) == Return([op |-> "same"], results)

Formats == {"preserve", "contiguous", "channels_last"}

Clone == \E format \in Formats : Same(try_clone_with_memory_format(tensor, format))
Contiguous == \E format \in Formats \ {"preserve"} : Same(try_contiguous(tensor, format))
Copy == \E format \in Formats : Same(try_copy_with_memory_format(tensor, format))
Alias == Same({metadata_alias(tensor)})
ToCuda == Same(try_copy_cpu_to_cuda(tensor))
ToCpu == Same(try_copy_cuda_to_cpu(tensor))

AddSubtract == \E sign \in {1, -1}, reversed \in BOOLEAN :
    Return([op |-> "combine", sign |-> sign, reversed |-> reversed],
           add_subtract(IF reversed THEN kept ELSE tensor, IF reversed THEN tensor ELSE kept, sign))

Negate == Return([op |-> "scale", factor |-> -1], negate(tensor))
MulScalar == Return([op |-> "scale", factor |-> 2], mul_scalar(tensor, 2))

Cat == \E axis \in Axes, reversed \in BOOLEAN :
    Return([op |-> "join", dimension |-> axis, reversed |-> reversed],
           IF ~(axis \in DOMAIN kept.shape) THEN {}
           ELSE IF reversed THEN cat(kept, tensor, axis) ELSE cat(tensor, kept, axis))

Stack == \E axis \in 1 .. (Rank + 1), reversed \in BOOLEAN :
    Return([op |-> "pile", dimension |-> axis, reversed |-> reversed],
           IF reversed THEN stack(kept, tensor, axis) ELSE stack(tensor, kept, axis))

SumAll == Return([op |-> "sum", dimensions |-> Axes, shape |-> <<>>, zero |-> Zero(tensor.width)],
                 try_sum(tensor))

SumDimension == \E axis \in Axes, keepdim \in BOOLEAN :
    /\ Rank = 2
    /\ Return([op |-> "sum", dimensions |-> {axis}, zero |-> Zero(tensor.width),
               shape |-> reduced_rank_two_sum_shape(tensor.shape, axis, keepdim)],
              sum_rank_two_dimension(tensor, axis, keepdim))

\* The caller turns to the tensor it kept.
Keep == /\ calls < MaxCalls
        /\ kept' = tensor
        /\ tensor' = kept
        /\ call' = [op |-> "keep"]
        /\ calls' = calls

Next == \/ Permute \/ Transpose \/ ReverseDimensions \/ MatrixTranspose
        \/ Unsqueeze \/ Squeeze \/ Flatten \/ Ravel \/ Reshape \/ View \/ Unflatten
        \/ Slice \/ Chunk \/ Split \/ Index
        \/ Clone \/ Contiguous \/ Copy \/ Alias \/ ToCuda \/ ToCpu
        \/ AddSubtract \/ Negate \/ MulScalar \/ Cat \/ Stack \/ SumAll \/ SumDimension
        \/ Keep

Spec == Init /\ [][Next]_vars

(* Properties.                                                             *)

\* Everything a tensor addresses lies in its storage: a view of a view of a
\* slice keeps within what was allocated, so the unchecked reads of the
\* packed and device paths do too.
ViewsStayInStorage ==
    \A t \in {tensor, kept} : validate_view_bounds(t.shape, t.strides, t.offset, Len(t.storage))

\* What backward sends to the leaf for an element is that element's own
\* dependence on the leaf, whatever views, copies, broadcasts, joins and sums
\* lie between: transform_backward and the other vjps undo exactly what the
\* operators did to the positions of the values.
GradientsFollowValues ==
    \A t \in {tensor, kept} : t.tracked =>
        t.pull = [k \in 1 .. elements(t) |-> value_at_strided_linear_index(t, k - 1)]

\* The strides a view of this shape would need: where its neighbour along
\* each axis is.
NeededStrides(t, shape) ==
    [d \in DOMAIN shape |->
        IF shape[d] = 1 THEN 0
        ELSE logical_offset_for_linear_index(t.shape, t.strides, 0,
                Product(SubSeq(shape, d + 1, Len(shape))))]

\* view() succeeds exactly when some strides address the same elements in
\* the same order; reshape() copies only when none do.
ViewIffRepresentable ==
    \A shape \in RegroupingsOf(tensor) : elements(tensor) > 0 =>
        ((reshape_view_strides(tensor.shape, tensor.strides, shape) # NoView)
            <=> \A k \in Linear(elements(tensor)) :
                   logical_offset_for_linear_index(shape, NeededStrides(tensor, shape), 0, k)
                     = logical_offset_for_linear_index(tensor.shape, tensor.strides, 0, k))

\* A tensor is called dense exactly when its elements are one stretch of
\* memory from its offset on, each in a place of its own; only then may its
\* memory be copied or combined as it lies.
DenseIsOneStretch ==
    elements(tensor) > 0 =>
        (is_dense(tensor) <=> Range(OutputSlots(tensor.shape, tensor.strides)) = Linear(elements(tensor)))

\* The layouts chosen for results give every element a slot of its own and
\* leave no slot of the new storage unwritten: the preserved format, that of
\* unary and broadcast results, and that of a leaf's gradient.
ResultsArePacked ==
    LET packed(shape, strides) == Range(OutputSlots(shape, strides)) = Linear(element_count(shape))
        plan == BroadcastPlan(tensor, kept)
    IN  /\ packed(tensor.shape, preserve_format_strides(tensor))
        /\ packed(tensor.shape, unary_output_strides(tensor))
        /\ packed(tensor.shape, leaf_gradient_strides(tensor.shape, tensor.strides))
        /\ (\A d \in DOMAIN plan.shape : plan.shape[d] # -1) => packed(plan.shape, plan.strides)

\* Whichever way a layout came about, by a view or as a result's, elements
\* and slots of memory correspond wherever the operators count on it.
LayoutsArePacked == DenseIsOneStretch /\ ResultsArePacked

\* The executor of captured graphs plans what the operators do: for tensors
\* on the device, whatever views they have been through, its plan accepts an
\* operation exactly when the operator does and predicts its layout, so that
\* no graph is refused after its first launch.
PlansMatchExecution ==
    tensor.device = "cuda" =>
        /\ UnaryPlansHold(tensor, Requests)
        /\ kept.device = "cuda" => BinaryPlansHold(tensor, kept) /\ BinaryPlansHold(kept, tensor)

\* What the user reads from a tensor: the value at every index tuple.
Meaning(t) ==
    LET indices == {i \in [DOMAIN t.shape -> 0 .. Max({0} \union Range(t.shape))] :
                       \A d \in DOMAIN t.shape : i[d] < t.shape[d]}
    IN  [shape |-> t.shape,
         at |-> [i \in indices |-> stored_value(t, Address(t.strides, t.offset, i))]]

Logical == INSTANCE LogicalArray WITH
    array <- Meaning(tensor), other <- Meaning(kept),
    Bases <- {Meaning(start) : start \in Starts}

\* Whatever the layouts of the operands and the path taken, an operator
\* returns the array its documentation denotes, and a view of a tensor never
\* changes when the tensor is copied, moved or combined.
OperatorsDenote == Logical!Spec
=============================================================================
