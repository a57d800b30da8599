--------------------------- MODULE PythonArguments ---------------------------
(***************************************************************************)
(* The arguments of calls that Python makes of the tensor functions, and   *)
(* what the parsers of single arguments accept.  A value is known by what  *)
(* the parsers ask of it:                                                  *)
(*   kind   "tensor", "int", "numpy int", "index" (whatever else has       *)
(*          __index__), "bool", "float", "none", "str", "dtype" (float32   *)
(*          is the only one), "device", "layout", "memory format",         *)
(*          "object", "list" (or a tuple, but for functions that take      *)
(*          nothing else than a "tuple"), "index list" (a list or tuple    *)
(*          whose class also has __index__; nothing else is of two kinds   *)
(*          at once here), "override" (an object whose class has a         *)
(*          __torch_function__) or "class" (a class that has one);         *)
(*   name   tells values of one call apart.  It is the class of an         *)
(*          override, what device a device or a string is, "scalar" for    *)
(*          a tensor of no dimensions, and "false" for that bool;          *)
(*   items  what a list holds.                                             *)
(* Tensor cannot be subclassed, so a tensor is always an exact one.        *)
(***************************************************************************)
EXTENDS Naturals, Sequences, FiniteSets, SequencesExt

AnyInt == {"int", "numpy int"}

Scalars == AnyInt \cup {"bool", "float"}

\* A probe finds a handler on objects and on classes that define one.
probe_torch_function_override(v) == v.kind \in {"override", "class"}

IsTensor(v) == v.kind = "tensor"

\* Most functions ask for a sequence before they ask for an integer.
IsList(v) == v.kind \in {"list", "index list"}

parse_tensor_or_torch_function_argument(v) ==
  IsTensor(v) \/ probe_torch_function_override(v)

is_dimension_swap_integer(v) == v.kind \in AnyInt

probe_select_index(v) == v.kind \in AnyInt \cup {"index", "index list"}

validate_select_index(v) == is_dimension_swap_integer(v) \/ probe_select_index(v)

python_number_index(v) == v.kind \in AnyInt \cup {"index", "index list", "bool"}

is_real_arithmetic_scalar(v) == v.kind \in Scalars

IntegerOrOverride(v) == is_dimension_swap_integer(v) \/ probe_torch_function_override(v)

parse_flatten_dimension(v) == v.kind \in AnyInt

\* size(None) is size().
validate_size_dimension(v) == v.kind = "none" \/ is_dimension_swap_integer(v)

IsBool(v) == v.kind = "bool"

parse_cat_tensors_argument(v) ==
  IF IsList(v) THEN \A i \in DOMAIN v.items : parse_tensor_or_torch_function_argument(v.items[i])
               ELSE probe_torch_function_override(v)

parse_stack_tensors_argument(v) == parse_cat_tensors_argument(v)

parse_atleast_stack_tensors_argument(v) == parse_cat_tensors_argument(v)

parse_out(v) == v.kind = "none" \/ parse_tensor_or_torch_function_argument(v)

\* A dimension argument of sum is none, an integer or integers.
is_sum_sequence_dimension_item(v) == ~IsBool(v) /\ python_number_index(v)

is_sum_dimension_argument(v) ==
  \/ v.kind = "none"
  \/ is_dimension_swap_integer(v)
  \/ /\ IsList(v)
     /\ \A i \in DOMAIN v.items : is_sum_sequence_dimension_item(v.items[i])

bind_top_level_sum_dtype(v) == v.kind \in {"none", "dtype"} \/ probe_torch_function_override(v)

bind_method_sum_dtype(v) == v.kind \in {"none", "dtype"}

parse_squeeze_integer(v, protocol) == v.kind \in AnyInt \/ (protocol /\ v.kind \in {"index", "index list"})

\* Only the first item of a sequence may not be a bool.
parse_squeeze_sequence(items) ==
  \A i \in DOMAIN items : parse_squeeze_integer(items[i], TRUE) \/ (i > 1 /\ IsBool(items[i]))

parse_squeeze_argument(v, protocol) ==
  IF IsList(v) THEN parse_squeeze_sequence(v.items) ELSE parse_squeeze_integer(v, protocol)

parse_split_sections(items) ==
  \A i \in DOMAIN items : python_number_index(items[i]) /\ (i = 1 => ~IsBool(items[i]))

\* One size may not be an integer of NumPy's.
parse_split_size(v) ==
  IF IsList(v) THEN parse_split_sections(v.items) ELSE v.kind = "int"

parse_allclose_tolerance(v) == is_real_arithmetic_scalar(v)

parse_dtype_operand(v) == v.kind = "dtype" \/ probe_torch_function_override(v)

(* The overloads of narrow differ in the type of start alone: a tensor, or  *)
(* anything that may be one, for the first, an integer for the second.      *)
narrow_integer_is_valid(v) == is_dimension_swap_integer(v) \/ probe_select_index(v)

narrow_length_status(v) == narrow_integer_is_valid(v) \/ probe_torch_function_override(v)

narrow_start_status(v) ==
  IF IsTensor(v) THEN "tensor"
  ELSE IF probe_torch_function_override(v) THEN "override"
  ELSE IF narrow_integer_is_valid(v) THEN "integer" ELSE "invalid"

integer_start_overload_matches(dim, start, length) ==
  IntegerOrOverride(dim) /\ narrow_start_status(start) = "integer" /\ narrow_length_status(length)

tensor_start_overload_matches(dim, start, length) ==
  /\ IntegerOrOverride(dim) /\ narrow_length_status(length)
  /\ narrow_start_status(start) \in {"tensor", "override"}

\* The first overload is only accepted to be refused, or for a handler to see.
narrow_matches(dim, start, length) ==
  \/ integer_start_overload_matches(dim, start, length)
  \/ /\ tensor_start_overload_matches(dim, start, length)
     /\ \/ narrow_start_status(start) = "tensor"
        \/ \E v \in {dim, start, length} : probe_torch_function_override(v)

(* Operands of arithmetic *)

ScalarOrOverride(v) == is_real_arithmetic_scalar(v) \/ probe_torch_function_override(v)

ArithmeticOperand(v) == IsTensor(v) \/ ScalarOrOverride(v)

parse_top_level_multiplication_operand(v) == ArithmeticOperand(v)

parse_top_level_add_operand(v) == ArithmeticOperand(v)

parse_top_level_subtraction_operand(v) == ArithmeticOperand(v)

parse_top_level_division_operand(v) == ArithmeticOperand(v)

parse_tensor_division_method_other(v) == ArithmeticOperand(v)

parse_tensor_add_sub_method_other(v) == ArithmeticOperand(v)

parse_top_level_pow_input(v) == ArithmeticOperand(v)

parse_pow_exponent(v) == ArithmeticOperand(v)

parse_top_level_add_alpha(v) == ScalarOrOverride(v)

parse_top_level_subtraction_alpha(v) == ScalarOrOverride(v)

parse_tensor_add_sub_method_alpha(v) == ScalarOrOverride(v)

parse_top_level_division_rounding_mode(v) ==
  v.kind \in {"none", "str"} \/ probe_torch_function_override(v)

parse_tensor_division_rounding_mode(v) ==
  v.kind \in {"none", "str"} \/ probe_torch_function_override(v)

(* Shapes and permutations: only the first of several dimensions decides    *)
(* whether an argument is one.                                              *)

is_view_shape_dimension(v) == ~IsBool(v) /\ python_number_index(v)

is_permute_variadic_dimension(v) == is_view_shape_dimension(v)

FirstIsDimension(v) == IsList(v) /\ (v.items # <<>> => is_view_shape_dimension(v.items[1]))

validate_view_shape_first(v) == FirstIsDimension(v)

validate_permute_sequence_first(v) == FirstIsDimension(v)

movedim_sequence_argument_matches_overload(v) == FirstIsDimension(v)

movedim_argument_form(source, destination) ==
  \/ is_dimension_swap_integer(source) /\ is_dimension_swap_integer(destination)
  \/ /\ movedim_sequence_argument_matches_overload(source)
     /\ movedim_sequence_argument_matches_overload(destination)

bind_top_level_reshape_shape(v) ==
  IF IsList(v)
  THEN v.items # <<>> => \/ probe_torch_function_override(v.items[1])
                        \/ is_view_shape_dimension(v.items[1])
  ELSE probe_torch_function_override(v)
==============================================================================
