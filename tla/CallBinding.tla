----------------------------- MODULE CallBinding -----------------------------
(***************************************************************************)
(* Which argument of a Python call goes to which parameter.  A call has a  *)
(* sequence "positional" of values and a function "keywords" from names to *)
(* values.  Binding it gives "ok", and the arguments bound by parameter.   *)
(* What a rejected call raises is left out.                                *)
(*                                                                         *)
(* A parameter is the sequence of the names it goes by, its own first.     *)
(***************************************************************************)
EXTENDS PythonArguments

Input == <<"input", "x", "a", "x1">>

Other == <<"other", "x2">>

Rejected == [ok |-> FALSE, slots |-> [p \in {} |-> 0]]

Bound(slots) == [ok |-> TRUE, slots |-> slots]

\* These arguments, and one more.
With(slots, name, v) == [n \in DOMAIN slots \cup {name} |-> IF n = name THEN v ELSE slots[n]]

\* The names of a parameter that a call spells out.
Spelled(c, param) == {name \in ToSet(param) : name \in DOMAIN c.keywords}

\* The one of them that is looked for first.
FirstSpelled(c, param) == param[Min({k \in DOMAIN param : param[k] \in DOMAIN c.keywords})]

Given(c, params, i) == i <= Len(c.positional) \/ Spelled(c, params[i]) # {}

ArgumentFor(c, params, i) ==
  IF i <= Len(c.positional) THEN c.positional[i] ELSE c.keywords[FirstSpelled(c, params[i])]

Slots(c, params) ==
  LET given == {i \in DOMAIN params : Given(c, params, i)}
  IN  [name \in {params[i][1] : i \in given} |->
         ArgumentFor(c, params, CHOOSE i \in given : params[i][1] = name)]

\* Of "params" the first "limit" may be positional, and the first
\* "required" are needed.
Fills(c, params, limit, required) ==
  /\ Len(c.positional) <= limit
  /\ \A i \in 1..required : Given(c, params, i)

\* Mutant: the tensor, which was bound as well, is not counted.
chunk_keyword_error_uncounted(c, params, bound) ==
  /\ Cardinality(DOMAIN c.keywords) > bound + 1
  /\ \E key \in DOMAIN c.keywords :
       \A i \in DOMAIN params : params[i][1] = key => i <= Len(c.positional)

\* The keywords are examined only when there are more of them than were bound.
chunk_keyword_error(c, params, bound) ==
  /\ Cardinality(DOMAIN c.keywords) > bound
  /\ \E key \in DOMAIN c.keywords :
       \A i \in DOMAIN params : params[i][1] = key => i <= Len(c.positional)

ByCount(c, params, limit, required) ==
  LET bound == Cardinality({i \in DOMAIN params : i > Len(c.positional) /\ Given(c, params, i)})
  IN  IF Fills(c, params, limit, required) /\ ~chunk_keyword_error(c, params, bound)
      THEN Bound(Slots(c, params)) ELSE Rejected

\* Each keyword is looked up, and must find its parameter still free.
bind_narrow_keywords(c, params) ==
  \A key \in DOMAIN c.keywords : \E i \in DOMAIN params :
    i > Len(c.positional) /\ Spelled(c, params[i]) = {key}

ByWalk(c, params, limit, required) ==
  IF Fills(c, params, limit, required) /\ bind_narrow_keywords(c, params)
  THEN Bound(Slots(c, params)) ELSE Rejected

\* An argument, if there is one, has the type that its parser accepts.
Fits(b, name, Parser(_)) == name \in DOMAIN b.slots => Parser(b.slots[name])

Checked(b, fits) == IF b.ok /\ fits THEN b ELSE Rejected

Has(b, name) == name \in DOMAIN b.slots

\* A variadic parameter takes all the positional arguments, as one list.
AllPositional(c) == [kind |-> "list", name |-> "arguments", items |-> c.positional]

Variadic(c, name, fits) ==
  IF fits /\ DOMAIN c.keywords = {} THEN Bound(With(Rejected.slots, name, AllPositional(c))) ELSE Rejected

\* The first of them stands for all of them, and the others are forgotten.
FirstAlone(c, name, fits) ==
  IF fits /\ DOMAIN c.keywords = {} THEN Bound(With(Rejected.slots, name, c.positional[1])) ELSE Rejected

(* Splitting and selecting *)

bind_unbind_dimension(c) ==
  LET b == ByWalk(c, <<<<"dim">>>>, 1, 0)
  IN  Checked(b, Fits(b, "dim", is_dimension_swap_integer))

bind_top_level_unbind_arguments(c) ==
  LET b == ByCount(c, <<Input, <<"dim">>>>, 2, 1)
  IN  Checked(b, Fits(b, "input", parse_tensor_or_torch_function_argument)
                 /\ Fits(b, "dim", is_dimension_swap_integer))

bind_top_level_unsqueeze_arguments(c) ==
  LET b == ByCount(c, <<Input, <<"dim">>>>, 2, 2)
  IN  Checked(b, Fits(b, "input", IsTensor) /\ Fits(b, "dim", is_dimension_swap_integer))

bind_select_arguments(c) ==
  LET b == ByWalk(c, <<<<"dim">>, <<"index">>>>, 2, 2)
  IN  Checked(b, Fits(b, "dim", is_dimension_swap_integer) /\ Fits(b, "index", validate_select_index))

bind_top_level_select_arguments(c) ==
  LET b == ByCount(c, <<Input, <<"dim">>, <<"index">>>>, 3, 3)
  IN  Checked(b, /\ Fits(b, "input", parse_tensor_or_torch_function_argument)
                 /\ Fits(b, "dim", is_dimension_swap_integer)
                 /\ Fits(b, "index", validate_select_index))

\* Nothing is bound yet when the keywords of split are examined.
bind_split_arguments(c) ==
  LET params == <<<<"split_size">>, <<"dim">>>>
      b == IF Fills(c, params, 2, 1) /\ ~chunk_keyword_error(c, params, 0)
           THEN Bound(Slots(c, params)) ELSE Rejected
  IN  Checked(b, Fits(b, "split_size", parse_split_size) /\ Fits(b, "dim", is_dimension_swap_integer))

bind_chunk_arguments(c) ==
  LET b == ByCount(c, <<<<"chunks">>, <<"dim">>>>, 2, 1)
  IN  Checked(b, Fits(b, "chunks", IntegerOrOverride) /\ Fits(b, "dim", IntegerOrOverride))

bind_top_level_chunk_arguments(c) ==
  LET b == ByCount(c, <<Input, <<"chunks">>, <<"dim">>>>, 3, 2)
  IN  Checked(b, /\ Fits(b, "input", parse_tensor_or_torch_function_argument)
                 /\ Fits(b, "chunks", IntegerOrOverride) /\ Fits(b, "dim", IntegerOrOverride))

NarrowFits(b) == b.ok => narrow_matches(b.slots["dim"], b.slots["start"], b.slots["length"])

bind_narrow_arguments(c) ==
  LET b == ByWalk(c, <<<<"dim">>, <<"start">>, <<"length">>>>, 3, 3)
  IN  Checked(b, NarrowFits(b))

bind_top_level_narrow_arguments(c) ==
  LET b == ByWalk(c, <<Input, <<"dim">>, <<"start">>, <<"length">>>>, 4, 4)
  IN  Checked(b, Fits(b, "input", parse_tensor_or_torch_function_argument) /\ NarrowFits(b))

bind_size_dimension(c) ==
  LET b == ByCount(c, <<<<"dim">>>>, 1, 0)
  IN  Checked(b, Fits(b, "dim", validate_size_dimension))

(* Joining *)

bind_top_level_cat_arguments(c) ==
  LET b == ByWalk(c, <<<<"tensors">>, <<"dim", "axis">>, <<"out">>>>, 2, 1)
  IN  Checked(b, /\ Fits(b, "tensors", parse_cat_tensors_argument)
                 /\ Fits(b, "dim", IntegerOrOverride) /\ Fits(b, "out", parse_out))

bind_top_level_stack_arguments(c) ==
  LET b == ByWalk(c, <<<<"tensors">>, <<"dim", "axis">>, <<"out">>>>, 2, 1)
  IN  Checked(b, /\ Fits(b, "tensors", parse_stack_tensors_argument)
                 /\ Fits(b, "dim", IntegerOrOverride) /\ Fits(b, "out", parse_out))

bind_top_level_atleast_stack_arguments(c) ==
  LET b == ByWalk(c, <<<<"tensors">>, <<"out">>>>, 1, 1)
  IN  Checked(b, Fits(b, "tensors", parse_atleast_stack_tensors_argument) /\ Fits(b, "out", parse_out))

(* Reducing: an argument of the second overload calls for its dimension *)

ReductionParams == <<Input, <<"dim">>, <<"keepdim">>, <<"dtype">>, <<"out">>>>

bind_top_level_sum_arguments(c) ==
  LET b == ByWalk(c, ReductionParams, 3, 1)
  IN  Checked(b, /\ Has(b, "keepdim") \/ Has(b, "out") => Has(b, "dim")
                 /\ Fits(b, "input", parse_tensor_or_torch_function_argument)
                 /\ Fits(b, "dim", is_sum_dimension_argument) /\ Fits(b, "keepdim", IsBool)
                 /\ Fits(b, "dtype", bind_top_level_sum_dtype) /\ Fits(b, "out", parse_out))

bind_top_level_mean_arguments(c) ==
  LET b == ByWalk(c, ReductionParams, 3, 1)
  IN  Checked(b, /\ Has(b, "keepdim") => Has(b, "dim")
                 /\ Fits(b, "input", parse_tensor_or_torch_function_argument)
                 /\ Fits(b, "dim", is_sum_dimension_argument) /\ Fits(b, "keepdim", IsBool)
                 /\ Fits(b, "dtype", bind_top_level_sum_dtype) /\ Fits(b, "out", parse_out))

MethodReduction(c) ==
  LET b == ByWalk(c, <<<<"dim">>, <<"keepdim">>, <<"dtype">>>>, 2, 0)
  IN  Checked(b, /\ Has(b, "keepdim") => Has(b, "dim")
                 /\ Fits(b, "dim", is_sum_dimension_argument) /\ Fits(b, "keepdim", IsBool)
                 /\ Fits(b, "dtype", bind_method_sum_dtype))

bind_method_sum_arguments(c) == MethodReduction(c)

bind_method_mean_arguments(c) == MethodReduction(c)

\* What a reduction is over, once bound.
bind_sum_reduction(b) ==
  IF Has(b, "out") /\ b.slots["out"].kind # "none" THEN "unsupported"
  ELSE IF ~Has(b, "dim") \/ b.slots["dim"].kind = "none" THEN "full"
  ELSE IF IsList(b.slots["dim"])
       THEN CASE Len(b.slots["dim"].items) = 0 -> "full"
              [] Len(b.slots["dim"].items) = 1 -> "dimension"
              [] OTHER -> "unsupported"
  ELSE "dimension"

(* Reshaping *)

bind_method_flatten_arguments(c) ==
  LET b == ByWalk(c, <<<<"start_dim">>, <<"end_dim">>>>, 2, 0)
  IN  Checked(b, Fits(b, "start_dim", parse_flatten_dimension) /\ Fits(b, "end_dim", parse_flatten_dimension))

bind_top_level_flatten_arguments(c) ==
  LET b == ByWalk(c, <<<<"input">>, <<"start_dim">>, <<"end_dim">>>>, 3, 1)
  IN  Checked(b, /\ Fits(b, "input", IsTensor)
                 /\ Fits(b, "start_dim", parse_flatten_dimension)
                 /\ Fits(b, "end_dim", parse_flatten_dimension))

\* The method takes its dimensions as one argument or as many.
bind_method_squeeze_arguments(c) ==
  LET keyword == ByWalk(c, <<<<"dim", "axis">>>>, 0, 0)
  IN  CASE DOMAIN c.keywords # {} ->
             Checked(keyword, Fits(keyword, "dim", LAMBDA v : parse_squeeze_argument(v, FALSE)))
        [] Len(c.positional) = 1 /\ DOMAIN c.keywords = {} ->
             Variadic(c, "dim", parse_squeeze_argument(c.positional[1], TRUE))
        [] OTHER ->
             Variadic(c, "dim", \A i \in DOMAIN c.positional : parse_squeeze_integer(c.positional[i], TRUE))

bind_top_level_squeeze_arguments(c) ==
  LET b == ByWalk(c, <<<<"input">>, <<"dim", "axis">>>>, 2, 1)
  IN  Checked(b, Fits(b, "input", IsTensor) /\ Fits(b, "dim", LAMBDA v : parse_squeeze_argument(v, FALSE)))

(* One tensor, under one of four names: an alias may not accompany another  *)
(* keyword, unless the function takes it on top of the tensor.              *)

select_legacy_single_argument(c) == Slots(c, <<Input>>)

validate_legacy_single_keywords(c, others) ==
  LET sole == Len(c.positional) = 0 /\ Cardinality(DOMAIN c.keywords \ others) = 1
  IN  \A key \in DOMAIN c.keywords \ others :
        \/ sole /\ {key} = Spelled(c, Input)
        \/ key = "input" /\ Len(c.positional) = 0

LegacySingle(c) ==
  IF Fills(c, <<Input>>, 1, 1) /\ validate_legacy_single_keywords(c, {})
  THEN Bound(select_legacy_single_argument(c)) ELSE Rejected

bind_legacy_single_tensor_argument(c) ==
  LET b == LegacySingle(c) IN Checked(b, Fits(b, "input", IsTensor))

bind_legacy_single_tensor_or_override_argument(c) ==
  LET b == LegacySingle(c)
  IN  Checked(b, Fits(b, "input", parse_tensor_or_torch_function_argument))

bind_unary_out_arguments(c) ==
  LET b == IF Fills(c, <<Input>>, 1, 1) /\ validate_legacy_single_keywords(c, {"out"})
           THEN Bound(Slots(c, <<Input, <<"out">>>>)) ELSE Rejected
  IN  Checked(b, Fits(b, "input", parse_tensor_or_torch_function_argument) /\ Fits(b, "out", parse_out))

(* Several tensors: the callers parse what was bound *)

Required(c, names) == ByWalk(c, [i \in DOMAIN names |-> <<names[i]>>], Len(names), Len(names))

bind_tensor_arguments(c, names) == Required(c, names)

bind_allclose_top_level_arguments(c) ==
  LET b == ByWalk(c, <<Input, Other, <<"rtol">>, <<"atol">>, <<"equal_nan">>>>, 5, 2)
  IN  Checked(b, /\ Fits(b, "input", IsTensor) /\ Fits(b, "other", IsTensor)
                 /\ Fits(b, "rtol", parse_allclose_tolerance) /\ Fits(b, "atol", parse_allclose_tolerance)
                 /\ Fits(b, "equal_nan", IsBool))

bind_allclose_method_arguments(c) ==
  LET b == ByWalk(c, <<Other, <<"rtol">>, <<"atol">>, <<"equal_nan">>>>, 4, 1)
  IN  Checked(b, /\ Fits(b, "other", IsTensor)
                 /\ Fits(b, "rtol", parse_allclose_tolerance) /\ Fits(b, "atol", parse_allclose_tolerance)
                 /\ Fits(b, "equal_nan", IsBool))

bind_dtype_binary_arguments(c, names) ==
  LET b == Required(c, names)
  IN  Checked(b, \A name \in DOMAIN b.slots : parse_dtype_operand(b.slots[name]))

(* Arithmetic: functions *)

bind_legacy_binary_arguments(c) == ByCount(c, <<Input, Other>>, 2, 2)

bind_top_level_mm_arguments(c) ==
  LET b == ByCount(c, <<Input, <<"mat2">>, <<"out">>>>, 2, 2)
  IN  Checked(b, /\ Fits(b, "input", parse_tensor_or_torch_function_argument)
                 /\ Fits(b, "mat2", parse_tensor_or_torch_function_argument)
                 /\ Fits(b, "out", parse_out))

bind_top_level_pow_arguments(c) ==
  LET b == ByWalk(c, <<Input, <<"exponent">>, <<"out">>>>, 2, 2)
  IN  Checked(b, /\ Fits(b, "input", parse_top_level_pow_input)
                 /\ Fits(b, "exponent", parse_pow_exponent) /\ Fits(b, "out", parse_out))

bind_top_level_add_arguments(c) ==
  LET b == ByCount(c, <<Input, Other, <<"alpha">>, <<"out">>>>, 2, 2)
  IN  Checked(b, /\ Fits(b, "input", parse_top_level_add_operand)
                 /\ Fits(b, "other", parse_top_level_add_operand)
                 /\ Fits(b, "alpha", parse_top_level_add_alpha) /\ Fits(b, "out", parse_out))

\* subtract alone takes a third positional argument, the factor of the second.
bind_top_level_subtract_positional_scalar_overload(c) ==
  LET b == ByWalk(c, <<<<"input">>, <<"other">>, <<"alpha">>>>, 3, 3)
  IN  Checked(b, \/ \E i \in 1..3 : probe_torch_function_override(c.positional[i])
                 \/ /\ IsTensor(c.positional[1])
                    /\ \A i \in 2..3 : is_real_arithmetic_scalar(c.positional[i]))

bind_top_level_subtraction_arguments(c, subtract) ==
  LET b == IF subtract /\ Len(c.positional) = 3
           THEN bind_top_level_subtract_positional_scalar_overload(c)
           ELSE ByCount(c, <<Input, Other, <<"alpha">>, <<"out">>>>, 2, 2)
  IN  Checked(b, /\ Fits(b, "input", parse_top_level_subtraction_operand)
                 /\ Fits(b, "other", parse_top_level_subtraction_operand)
                 /\ Fits(b, "alpha", parse_top_level_subtraction_alpha) /\ Fits(b, "out", parse_out))

\* Here the aliases count as their parameter, so that two of one are looked for.
bind_top_level_division_keyword_error(c, bound) ==
  /\ Cardinality(DOMAIN c.keywords) > bound
  /\ \/ \E param \in {Input, Other} : Cardinality(Spelled(c, param)) > 1
     \/ \E key \in DOMAIN c.keywords :
          \/ ~Contains(Input \o Other \o <<"rounding_mode", "out">>, key)
          \/ Contains(Input, key) /\ Len(c.positional) > 0
          \/ Contains(Other, key) /\ Len(c.positional) > 1

bind_top_level_division_arguments(c) ==
  LET params == <<Input, Other, <<"rounding_mode">>, <<"out">>>>
      bound == Cardinality({i \in DOMAIN params : i > Len(c.positional) /\ Given(c, params, i)})
      b == IF Fills(c, params, 2, 2) /\ ~bind_top_level_division_keyword_error(c, bound)
           THEN Bound(Slots(c, params)) ELSE Rejected
  IN  Checked(b, /\ Fits(b, "input", parse_top_level_division_operand)
                 /\ Fits(b, "other", parse_top_level_division_operand)
                 /\ Fits(b, "rounding_mode", parse_top_level_division_rounding_mode)
                 /\ Fits(b, "out", parse_out))

(* Arithmetic: methods.  add and sub still take a factor before the         *)
(* operand, which only the types of the arguments can tell.                 *)

OtherFirst == <<Other, <<"alpha">>>>

AlphaFirst == <<<<"alpha">>, Other>>

MethodOperands(b) ==
  Checked(b, /\ Fits(b, "other", parse_tensor_add_sub_method_other)
             /\ Fits(b, "alpha", parse_tensor_add_sub_method_alpha))

bind_tensor_add_method_positional_arguments(c) ==
  Len(c.positional) = 2 => ScalarOrOverride(c.positional[1]) /\ ArithmeticOperand(c.positional[2])

tensor_add_method_positional_other_can_be_alpha(c) ==
  /\ Len(c.positional) = 1 /\ ScalarOrOverride(c.positional[1])
  /\ Spelled(c, Other) # {}

bind_tensor_add_method_arguments(c) ==
  LET b == IF Len(c.positional) = 2 \/ tensor_add_method_positional_other_can_be_alpha(c)
           THEN ByWalk(c, AlphaFirst, 2, 2) ELSE ByWalk(c, OtherFirst, 1, 1)
  IN  Checked(MethodOperands(b), bind_tensor_add_method_positional_arguments(c))

bind_tensor_sub_method_positional_arguments(c) ==
  CASE Len(c.positional) < 2 -> ByWalk(c, OtherFirst, 1, 1)
    [] Len(c.positional) = 2 /\ parse_tensor_or_torch_function_argument(c.positional[2]) -> ByWalk(c, AlphaFirst, 2, 2)
    [] OTHER -> Checked(ByWalk(c, OtherFirst, 2, 2), is_real_arithmetic_scalar(c.positional[2]))

bind_tensor_sub_method_arguments(c) ==
  Checked(MethodOperands(bind_tensor_sub_method_positional_arguments(c)),
          Len(c.positional) = 2 => ScalarOrOverride(c.positional[1]))

bind_tensor_subtract_method_positional_arguments(c) ==
  Len(c.positional) = 2 => \A i \in 1..2 : ScalarOrOverride(c.positional[i])

bind_tensor_subtract_method_arguments(c) ==
  Checked(MethodOperands(ByWalk(c, OtherFirst, 2, 1)), bind_tensor_subtract_method_positional_arguments(c))

tensor_add_sub_method_alpha_precedes_other(c, b) ==
  Has(b, "alpha") /\ c.positional # <<>> /\ c.positional[1] = b.slots["alpha"]

bind_tensor_pow_arguments(c) ==
  LET b == ByWalk(c, <<<<"exponent">>>>, 1, 1)
  IN  Checked(b, Fits(b, "exponent", parse_pow_exponent))

\* An operator that cannot bind its operand declines instead of failing.
bind_tensor_pow_dunder_exponent(c) == ByWalk(c, <<<<"exponent">>>>, 1, 1)

bind_tensor_division_method_arguments(c) ==
  LET b == ByWalk(c, <<Other, <<"rounding_mode">>>>, 1, 1)
  IN  Checked(b, /\ Fits(b, "other", parse_tensor_division_method_other)
                 /\ Fits(b, "rounding_mode", parse_tensor_division_rounding_mode))

\* x2 passes for other only when it is all there is.
bind_other_argument_with_x2_fallback(c) ==
  IF DOMAIN c.keywords = {"x2"} /\ c.positional = <<>>
  THEN ByWalk(c, <<Other>>, 0, 1) ELSE ByWalk(c, <<<<"other">>>>, 1, 1)

bind_matmul_argument(c) ==
  LET b == bind_other_argument_with_x2_fallback(c)
  IN  Checked(b, Fits(b, "other", parse_tensor_or_torch_function_argument))

\* The methods mul and multiply take no override.
bind_multiplication_argument(c) ==
  LET b == bind_other_argument_with_x2_fallback(c)
  IN  Checked(b, Fits(b, "other", LAMBDA v : IsTensor(v) \/ is_real_arithmetic_scalar(v)))

(* Shapes and dimensions *)

bind_top_level_reshape_arguments(c) ==
  LET b == ByCount(c, <<Input, <<"shape">>>>, 2, 2)
  IN  Checked(b, /\ Fits(b, "input", parse_tensor_or_torch_function_argument)
                 /\ Fits(b, "shape", bind_top_level_reshape_shape))

bind_top_level_permute_arguments(c) ==
  LET b == ByCount(c, <<Input, <<"dims">>>>, 2, 2)
  IN  Checked(b, Fits(b, "input", IsTensor) /\ Fits(b, "dims", validate_permute_sequence_first))

\* As many arguments as parameters, and every parameter given once.
bind_movedim_call_arguments(c, params) ==
  IF /\ Len(c.positional) + Cardinality(DOMAIN c.keywords) = Len(params)
     /\ Fills(c, params, Len(params), Len(params))
     /\ \A i \in 1..Len(c.positional) : Spelled(c, params[i]) = {}
  THEN Bound(Slots(c, params)) ELSE Rejected

bind_movedim_arguments(c) ==
  LET b == bind_movedim_call_arguments(c, <<<<"source">>, <<"destination">>>>)
  IN  Checked(b, b.ok => movedim_argument_form(b.slots["source"], b.slots["destination"]))

bind_top_level_movedim_arguments(c) ==
  LET b == bind_movedim_call_arguments(c, <<Input, <<"source">>, <<"destination">>>>)
  IN  Checked(b, /\ Fits(b, "input", parse_tensor_or_torch_function_argument)
                 /\ b.ok => movedim_argument_form(b.slots["source"], b.slots["destination"]))

bind_dimension_swap_arguments(c, names) ==
  LET b == Required(c, names)
  IN  Checked(b, \A name \in DOMAIN b.slots \ {"input"} : is_dimension_swap_integer(b.slots[name]))

(* Shapes given in one argument or in many *)

\* A sequence is the shape even if it could be the first of several dimensions.
bind_view_argument(c) ==
  LET size == ByWalk(c, <<<<"size">>>>, 0, 1)
      dtype == ByWalk(c, <<<<"dtype">>>>, 0, 1)
      first == c.positional[1]
  IN  CASE c.positional = <<>> /\ "dtype" \in DOMAIN c.keywords ->
             Checked(dtype, Fits(dtype, "dtype", LAMBDA v : v.kind = "dtype"))
        [] c.positional = <<>> /\ "dtype" \notin DOMAIN c.keywords ->
             Checked(size, Fits(size, "size", validate_view_shape_first))
        [] Len(c.positional) = 1 ->
             Variadic(c, "size", IF IsList(first) THEN validate_view_shape_first(first)
                                 ELSE is_view_shape_dimension(first) \/ first.kind = "dtype")
        [] Len(c.positional) > 1 /\ validate_view_shape_first(first) ->
             FirstAlone(c, "size", is_view_shape_dimension(first))
        [] OTHER -> Variadic(c, "size", is_view_shape_dimension(first))

bind_permute_dimensions(c) ==
  LET dims == ByWalk(c, <<<<"dims">>>>, 0, 1)
      first == c.positional[1]
  IN  CASE c.positional = <<>> -> Checked(dims, Fits(dims, "dims", validate_permute_sequence_first))
        [] Len(c.positional) = 1 ->
             Variadic(c, "dims", IF IsList(first) THEN validate_permute_sequence_first(first)
                                 ELSE is_permute_variadic_dimension(first))
        [] OTHER -> Variadic(c, "dims", is_permute_variadic_dimension(first))

==============================================================================
