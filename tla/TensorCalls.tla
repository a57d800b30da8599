----------------------------- MODULE TensorCalls -----------------------------
(***************************************************************************)
(* The functions and methods of tensors that Python calls: which arguments *)
(* each takes, and what it does with them before its native code.          *)
(* Functions that differ in the native code alone share a definition.      *)
(***************************************************************************)
EXTENDS TensorFactories

(* Functions *)

cat_alias_variable_function(c) == dispatch_top_level_cat(bind_top_level_cat_arguments(c))

stack_variable_function(c) == dispatch_top_level_stack(bind_top_level_stack_arguments(c))

atleast_stack_variable_function(c) ==
  dispatch_top_level_atleast_stack(bind_top_level_atleast_stack_arguments(c))

adjoint_variable_function(c) == dispatch_adjoint(bind_legacy_single_tensor_or_override_argument(c))

\* ravel and detach are the same
positive_variable_function(c) ==
  dispatch_single_tensor_override(bind_legacy_single_tensor_or_override_argument(c))

\* and so are real, imag and the resolving of lazy bits.
conj_variable_function(c) ==
  dispatch_single_tensor_override(bind_legacy_single_tensor_or_override_argument(c))

is_conj_variable_function(c) == dispatch_is_conj(bind_legacy_single_tensor_or_override_argument(c))

is_inference_variable_function(c) ==
  dispatch_is_inference(bind_legacy_single_tensor_or_override_argument(c))

reshape_variable_function(c) == dispatch_top_level_reshape(bind_top_level_reshape_arguments(c))

unary_out_variable_function(c) == dispatch_top_level_unary_out(bind_unary_out_arguments(c))

pow_variable_function(c) == dispatch_top_level_pow(bind_top_level_pow_arguments(c))

sum_variable_function(c) == dispatch_top_level_sum(bind_top_level_sum_arguments(c))

mean_variable_function(c) == dispatch_top_level_mean(bind_top_level_mean_arguments(c))

unbind_variable_function(c) == dispatch_top_level_unbind(bind_top_level_unbind_arguments(c))

select_variable_function(c) == dispatch_top_level_select(bind_top_level_select_arguments(c))

narrow_variable_function(c) == dispatch_top_level_narrow(bind_top_level_narrow_arguments(c))

chunk_variable_function(c) == dispatch_top_level_chunk(bind_top_level_chunk_arguments(c))

permute_variable_function(c) == Native(bind_top_level_permute_arguments(c))

dimension_move_variable_function(c) == dispatch_top_level_movedim(bind_top_level_movedim_arguments(c))

matmul_variable_function(c) ==
  LET b == bind_legacy_binary_arguments(c)
  IN  dispatch_top_level_matmul(
        Checked(b, \A name \in DOMAIN b.slots : parse_tensor_or_torch_function_argument(b.slots[name])))

mm_variable_function(c) == dispatch_top_level_mm(bind_top_level_mm_arguments(c))

multiplication_variable_function(c) ==
  LET b == bind_legacy_binary_arguments(c)
  IN  dispatch_top_level_multiplication(
        Checked(b, \A name \in DOMAIN b.slots : parse_top_level_multiplication_operand(b.slots[name])))

add_variable_function(c) == dispatch_top_level_addition(bind_top_level_add_arguments(c))

subtraction_variable_function(c, subtract) ==
  dispatch_top_level_subtraction(bind_top_level_subtraction_arguments(c, subtract))

division_variable_function(c) == dispatch_top_level_division(bind_top_level_division_arguments(c))

dtype_binary_variable_function(c, names) ==
  dispatch_dtype_binary(bind_dtype_binary_arguments(c, names), names)

unsqueeze_function(c) == unsqueeze_variable_function(bind_top_level_unsqueeze_arguments(c))

(* Functions that take tensors alone *)

relu(c) == Native(bind_legacy_single_tensor_argument(c))

is_same_size(c) ==
  LET b == bind_legacy_binary_arguments(c)
  IN  Native(Checked(b, \A name \in DOMAIN b.slots : IsTensor(b.slots[name])))

equal(c) ==
  LET b == bind_tensor_arguments(c, <<"input", "other">>)
  IN  Native(Checked(b, \A name \in DOMAIN b.slots : IsTensor(b.slots[name])))

\* Nothing can override it, so that it is refused within a mode.
apply_allclose(b) == Call(b, "guarded", <<>>, "value")

allclose(c) == apply_allclose(bind_allclose_top_level_arguments(c))

apply_top_level_dimension_swap(c) ==
  LET b == bind_dimension_swap_arguments(c, <<"input", "dim0", "dim1">>)
  IN  Native(Checked(b, Fits(b, "input", IsTensor)))

squeeze(c) == Native(bind_top_level_squeeze_arguments(c))

flatten(c) == Native(bind_top_level_flatten_arguments(c))

(* Methods *)

tensor_unsqueeze(c) ==
  LET b == bind_tensor_arguments(c, <<"dim">>)
  IN  Call(Checked(b, Fits(b, "dim", is_dimension_swap_integer)), "guarded", <<>>, "value")

tensor_unbind(c) == dispatch_tensorbase_method_mode(bind_unbind_dimension(c))

tensor_select(c) == dispatch_tensorbase_method_mode(bind_select_arguments(c))

tensor_narrow(c) == dispatch_narrow_method(bind_narrow_arguments(c))

tensor_chunk(c) == dispatch_chunk_method(bind_chunk_arguments(c))

dimension_move_tensor_method(c) == dispatch_tensorbase_method_mode(bind_movedim_arguments(c))

tensor_view(c) == dispatch_tensorbase_method_mode(bind_view_argument(c))

tensor_permute(c) == Native(bind_permute_dimensions(c))

\* reshape_as, type_as, equal, is_same_size and is_set_to take a tensor.
tensor_reshape_as(c) ==
  LET b == bind_tensor_arguments(c, <<"other">>) IN Native(Checked(b, Fits(b, "other", IsTensor)))

tensor_view_as(c) ==
  LET b == bind_tensor_arguments(c, <<"other">>)
  IN  dispatch_view_as(Checked(b, Fits(b, "other", parse_tensor_or_torch_function_argument)))

tensor_matmul(c) == dispatch_matmul(bind_matmul_argument(c))

tensor_pow(c) == dispatch_tensor_pow_method(bind_tensor_pow_arguments(c))

apply_tensor_pow_dunder(c) == dispatch_tensor_pow_dunder(c)

multiplication_method(c) == Native(bind_multiplication_argument(c))

tensor_division_method(c) == dispatch_tensor_division_method(bind_tensor_division_method_arguments(c))

tensor_add_sub_method(c, operation) ==
  dispatch_tensor_add_sub_method(c,
    CASE operation = "add" -> bind_tensor_add_method_arguments(c)
      [] operation = "sub" -> bind_tensor_sub_method_arguments(c)
      [] operation = "subtract" -> bind_tensor_subtract_method_arguments(c))

tensor_split(c) == Native(bind_split_arguments(c))

tensor_transpose(c) == Native(bind_dimension_swap_arguments(c, <<"dim0", "dim1">>))

tensor_squeeze(c) == Native(bind_method_squeeze_arguments(c))

tensor_flatten(c) == Native(bind_method_flatten_arguments(c))

tensor_allclose(c) == apply_allclose(bind_allclose_method_arguments(c))

tensor_sum(c) == Native(bind_method_sum_arguments(c))

tensor_mean(c) == Native(bind_method_mean_arguments(c))

tensor_size(c) == dispatch_tensorbase_method_mode(bind_size_dimension(c))

\* sin(), abs() and so on, and the attributes: they have no arguments.
tensor_descriptor(c) ==
  dispatch_tensorbase_mode(IF c.positional = <<>> /\ DOMAIN c.keywords = {} THEN Bound(Rejected.slots)
                                                                            ELSE Rejected)

(* What Python finds under a name *)

variable_functions == {"cat", "stack", "vstack", "adjoint", "positive", "conj", "is_conj",
  "is_inference", "reshape", "sin", "pow", "sum", "mean", "unbind", "select", "narrow", "chunk",
  "permute", "movedim", "matmul", "mm", "mul", "add", "sub", "subtract", "div", "can_cast", "unsqueeze",
  "zeros_like", "full_like", "arange", "as_tensor", "asarray", "scalar_tensor", "atleast_1d", "broadcast_tensors"}

variable_function(name, c) ==
  CASE name = "cat" -> cat_alias_variable_function(c)
    [] name = "stack" -> stack_variable_function(c)
    [] name = "vstack" -> atleast_stack_variable_function(c)
    [] name = "adjoint" -> adjoint_variable_function(c)
    [] name = "positive" -> positive_variable_function(c)
    [] name = "conj" -> conj_variable_function(c)
    [] name = "is_conj" -> is_conj_variable_function(c)
    [] name = "is_inference" -> is_inference_variable_function(c)
    [] name = "reshape" -> reshape_variable_function(c)
    [] name = "sin" -> unary_out_variable_function(c)
    [] name = "pow" -> pow_variable_function(c)
    [] name = "sum" -> sum_variable_function(c)
    [] name = "mean" -> mean_variable_function(c)
    [] name = "unbind" -> unbind_variable_function(c)
    [] name = "select" -> select_variable_function(c)
    [] name = "narrow" -> narrow_variable_function(c)
    [] name = "chunk" -> chunk_variable_function(c)
    [] name = "permute" -> permute_variable_function(c)
    [] name = "movedim" -> dimension_move_variable_function(c)
    [] name = "matmul" -> matmul_variable_function(c)
    [] name = "mm" -> mm_variable_function(c)
    [] name = "mul" -> multiplication_variable_function(c)
    [] name = "add" -> add_variable_function(c)
    [] name = "sub" -> subtraction_variable_function(c, FALSE)
    [] name = "subtract" -> subtraction_variable_function(c, TRUE)
    [] name = "div" -> division_variable_function(c)
    [] name = "can_cast" -> dtype_binary_variable_function(c, <<"from_", "to">>)
    [] name = "unsqueeze" -> unsqueeze_function(c)
    [] name = "zeros_like" -> zeros_like_variable_function(c)
    [] name = "full_like" -> full_like_variable_function(c)
    [] name = "arange" -> arange_variable_function(c)
    [] name = "as_tensor" -> as_tensor_variable_function(c)
    [] name = "asarray" -> asarray_variable_function(c)
    [] name = "scalar_tensor" -> scalar_tensor_variable_function(c)
    [] name = "atleast_1d" -> atleast_1d_variable_function(c)
    [] name = "broadcast_tensors" -> broadcast_tensors_variable_function(c)

module_functions == {"relu", "is_same_size", "equal", "allclose", "transpose", "squeeze", "flatten",
  "empty", "zeros", "full", "eye"}

module_function(name, c) ==
  CASE name = "relu" -> relu(c)
    [] name = "is_same_size" -> is_same_size(c)
    [] name = "equal" -> equal(c)
    [] name = "allclose" -> allclose(c)
    [] name = "transpose" -> apply_top_level_dimension_swap(c)
    [] name = "squeeze" -> squeeze(c)
    [] name = "flatten" -> flatten(c)
    [] name = "empty" -> empty(c)
    [] name = "zeros" -> zeros(c)
    [] name = "full" -> full(c)
    [] name = "eye" -> eye(c)

tensor_methods == {"unsqueeze", "unbind", "select", "narrow", "chunk", "movedim", "view", "permute",
  "reshape_as", "view_as", "matmul", "pow", "__pow__", "mul", "div", "add", "sub", "subtract", "split",
  "transpose", "squeeze", "flatten", "allclose", "sum", "mean", "size", "sin", "to"}

tensor_method(name, c) ==
  CASE name = "unsqueeze" -> tensor_unsqueeze(c)
    [] name = "unbind" -> tensor_unbind(c)
    [] name = "select" -> tensor_select(c)
    [] name = "narrow" -> tensor_narrow(c)
    [] name = "chunk" -> tensor_chunk(c)
    [] name = "movedim" -> dimension_move_tensor_method(c)
    [] name = "view" -> tensor_view(c)
    [] name = "permute" -> tensor_permute(c)
    [] name = "reshape_as" -> tensor_reshape_as(c)
    [] name = "view_as" -> tensor_view_as(c)
    [] name = "matmul" -> tensor_matmul(c)
    [] name = "pow" -> tensor_pow(c)
    [] name = "__pow__" -> apply_tensor_pow_dunder(c)
    [] name = "mul" -> multiplication_method(c)
    [] name = "div" -> tensor_division_method(c)
    [] name \in {"add", "sub", "subtract"} -> tensor_add_sub_method(c, name)
    [] name = "split" -> tensor_split(c)
    [] name = "transpose" -> tensor_transpose(c)
    [] name = "squeeze" -> tensor_squeeze(c)
    [] name = "flatten" -> tensor_flatten(c)
    [] name = "allclose" -> tensor_allclose(c)
    [] name = "sum" -> tensor_sum(c)
    [] name = "mean" -> tensor_mean(c)
    [] name = "size" -> tensor_size(c)
    [] name = "sin" -> tensor_descriptor(c)
    [] name = "to" -> dispatch_tensor_to_method(c)
==============================================================================
