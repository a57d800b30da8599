--------------------------- MODULE TensorFactories ---------------------------
(***************************************************************************)
(* The functions that make tensors from sizes, numbers, sequences and      *)
(* other tensors, and the method that converts one: which arguments they   *)
(* take, whom they ask first, and what they do not support.                *)
(*                                                                         *)
(* Their options may be given as None, as if they were not.  They have no  *)
(* handlers: an object that has one is an argument like others, except of  *)
(* "to".  The sizes that would not fit into memory are left out.           *)
(***************************************************************************)
EXTENDS TorchDispatch

IsNone(v) == v.kind = "none"

Options(names) == [i \in DOMAIN names |-> <<names[i]>>]

(* Options *)

parse_dtype(v) == v.kind \in {"none", "dtype"}

parse_factory_layout(v) == v.kind \in {"none", "layout"}

parse_factory_bool(v) == IsNone(v) \/ IsBool(v)

parse_factory_requires_grad(v) == parse_factory_bool(v)

validate_device_argument_type(v) == v.kind \in {"none", "device", "str"}

validate_creation_out(v) == IsNone(v) \/ IsTensor(v)

parse_like_factory_memory_format(v) == v.kind \in {"none", "memory format"}

\* Every option has the type that all the functions that know it ask for.
OptionsFit(b) ==
  /\ Fits(b, "out", validate_creation_out) /\ Fits(b, "dtype", parse_dtype)
  /\ Fits(b, "layout", parse_factory_layout) /\ Fits(b, "device", validate_device_argument_type)
  /\ Fits(b, "pin_memory", parse_factory_bool)
  /\ Fits(b, "requires_grad", parse_factory_requires_grad)
  /\ Fits(b, "memory_format", parse_like_factory_memory_format)

Chosen(b, name) == Has(b, name) /\ ~IsNone(b.slots[name])

Set(b, name) == Chosen(b, name) /\ b.slots[name].name # "false"

OnDevice(b, devices) == Chosen(b, "device") => b.slots["device"].name \in devices

\* A device of the CPU with an index is another one only for conversions.
parse_device(b) == OnDevice(b, {"cpu", "cpu:0"})

parse_as_tensor_device(b) == OnDevice(b, {"cpu"})

Supports(holds) == IF holds THEN "value" ELSE "unsupported"

\* Into a new tensor of unpinned memory of the CPU.
Created(b) == Supports(parse_device(b) /\ ~OutGiven(b) /\ ~Set(b, "pin_memory"))

Creates(b, native) == Call(b, "native", <<>>, IF b.ok THEN native ELSE "value")

(* Sizes: empty, zeros and ones *)

CreationOptions == <<"out", "dtype", "layout", "device", "pin_memory", "requires_grad">>

creation_variadic_size_start(v) == ~IsBool(v) /\ python_number_index(v) /\ ~IsList(v)

\* The first dimension says whether these are dimensions, the others may be bools.
parse_creation_dimensions(items) ==
  \A i \in DOMAIN items : python_number_index(items[i]) /\ (i = 1 => ~IsBool(items[i]))

bind_creation_positional_dimension(v) == probe_select_index(v)

bind_creation_arguments(c) ==
  LET others == Options(<<"shape">> \o CreationOptions)
      rest == ByWalk([c EXCEPT !.positional = <<>>], others, 0, 0)
  IN  CASE Len(c.positional) <= 1 -> ByWalk(c, <<<<"size">>>> \o others, 1, 0)
        [] Len(c.positional) > 1 ->
             Checked([rest EXCEPT !.slots = With(@, "size", AllPositional(c))],
                     creation_variadic_size_start(c.positional[1]))

\* The size is given under one of two names, and only one.
parse_creation_size(c, b) ==
  LET given == {name \in {"size", "shape"} : Chosen(b, name)}
  IN  /\ Cardinality(given) = 1
      /\ \A name \in given :
           IF IsList(b.slots[name]) THEN parse_creation_dimensions(b.slots[name].items)
           ELSE /\ name = "size" /\ c.positional # <<>>
                /\ bind_creation_positional_dimension(b.slots[name])

parse_creation_arguments(c) ==
  LET b == bind_creation_arguments(c) IN Checked(b, parse_creation_size(c, b) /\ OptionsFit(b))

empty(c) == LET b == parse_creation_arguments(c) IN Creates(b, Created(b))

\* Zeros alone, of a vector or a matrix that takes no gradient, may be on
\* another device.
CudaZeros(b) ==
  /\ OnDevice(b, {"cuda:0"}) /\ ~Set(b, "requires_grad") /\ ~OutGiven(b) /\ ~Set(b, "pin_memory")
  /\ \A name \in {"size", "shape"} :
       Chosen(b, name) /\ IsList(b.slots[name]) => Len(b.slots[name].items) \in {1, 2}

zeros(c) ==
  LET b == parse_creation_arguments(c)
  IN  Creates(b, IF CudaZeros(b) THEN "value" ELSE Created(b))

(* Sizes: full and eye *)

\* A number, or a tensor of one: it has no dimensions, and takes no gradient.
parse_fill_value(v) == v.kind \in Scalars \/ (IsTensor(v) /\ v.name = "scalar")

parse_size(v) == IsList(v) /\ \A i \in DOMAIN v.items : probe_select_index(v.items[i])

bind_full_arguments(c) == ByWalk(c, Options(<<"size", "fill_value">> \o CreationOptions), 2, 2)

parse_full_arguments(c) ==
  LET b == bind_full_arguments(c)
  IN  Checked(b, Fits(b, "size", parse_size) /\ Fits(b, "fill_value", parse_fill_value) /\ OptionsFit(b))

full(c) == LET b == parse_full_arguments(c) IN Creates(b, Created(b))

parse_eye_dimension(v) == probe_select_index(v)

bind_eye_arguments(c) == ByWalk(c, Options(<<"n", "m", "dtype", "device", "requires_grad">>), 2, 1)

parse_eye_arguments(c) ==
  LET b == bind_eye_arguments(c)
  IN  Checked(b, Fits(b, "n", parse_eye_dimension) /\ Fits(b, "m", parse_eye_dimension) /\ OptionsFit(b))

eye(c) == LET b == parse_eye_arguments(c) IN Creates(b, Created(b))

(* Like another tensor, which nothing can override *)

LikeOptions == <<"dtype", "layout", "device", "requires_grad", "memory_format">>

LikeFormat(b) == Chosen(b, "memory_format") => b.slots["memory_format"].name \in {"preserve", "contiguous"}

Likened(b) ==
  Call(b, "guarded", <<>>, IF b.ok THEN Supports(parse_as_tensor_device(b) /\ LikeFormat(b)) ELSE "value")

bind_like_factory_arguments(c) == ByWalk(c, <<Input>> \o Options(LikeOptions), 1, 1)

parse_like_factory_arguments(c) ==
  LET b == bind_like_factory_arguments(c) IN Checked(b, Fits(b, "input", IsTensor) /\ OptionsFit(b))

\* empty_like and ones_like are the same.
zeros_like_variable_function(c) == Likened(parse_like_factory_arguments(c))

bind_full_like_arguments(c) ==
  ByWalk(c, <<Input>> \o Options(<<"fill_value">> \o LikeOptions), 2, 2)

parse_full_like_arguments(c) ==
  LET b == bind_full_like_arguments(c)
  IN  Checked(b, Fits(b, "input", IsTensor) /\ Fits(b, "fill_value", parse_fill_value) /\ OptionsFit(b))

full_like_variable_function(c) == Likened(parse_full_like_arguments(c))

(* Ranges *)

IsFloatEndpoint(v) == v.kind = "float"

IsIntegerEndpoint(v) == v.kind \in AnyInt

has_explicit_float32_dtype(b) == Chosen(b, "dtype")

\* A keyword "end" turns the only positional argument into the start.
bind_arange_arguments(c) ==
  LET bounds == IF Len(c.positional) = 2 \/ (Len(c.positional) = 1 /\ "end" \in DOMAIN c.keywords)
                THEN <<"start", "end">> ELSE <<"end", "start">>
      b == ByWalk(c, Options(bounds \o CreationOptions), 2, 1)
  IN  Checked(b, /\ Has(b, "end") /\ OptionsFit(b)
                 /\ Len(c.positional) = 1 => "start" \notin DOMAIN c.keywords)

parse_two_bound_arange_arguments(b) ==
  Fits(b, "start", IsIntegerEndpoint) /\ Fits(b, "end", IsIntegerEndpoint) /\ has_explicit_float32_dtype(b)

parse_arange_arguments(c) ==
  LET b == bind_arange_arguments(c)
  IN  Checked(b, IF Has(b, "start") THEN parse_two_bound_arange_arguments(b)
                 ELSE \/ Fits(b, "end", IsFloatEndpoint)
                      \/ Fits(b, "end", IsIntegerEndpoint) /\ has_explicit_float32_dtype(b))

\* The mode is asked before the arguments are bound.
arange_variable_function(c) ==
  LET b == parse_arange_arguments(c)
  IN  [ok |-> TRUE, slots |-> b.slots, form |-> "unbound", overrides |-> <<>>,
       native |-> IF b.ok THEN Created(b) ELSE "rejected"]

(* Conversions *)

AsksMode(b, native) == Call(b, "mode", <<>>, IF b.ok THEN native ELSE "value")

extract_integer_as_float32_scalar(v) == v.kind \in AnyInt

FloatScalar(v, integers) == v.kind = "float" \/ (integers /\ extract_integer_as_float32_scalar(v))

FloatRow(v, integers) == v.kind = "list" /\ \A i \in DOMAIN v.items : FloatScalar(v.items[i], integers)

\* Numbers, or rows of equally many: what follows an empty row is not looked
\* at.  Sequences are no deeper here.
as_tensor_float_sequence(v, integers) ==
  \/ FloatRow(v, integers)
  \/ /\ v.kind = "list" /\ v.items # <<>> /\ FloatRow(v.items[1], integers)
     /\ \/ v.items[1].items = <<>>
        \/ \A i \in DOMAIN v.items :
             FloatRow(v.items[i], integers) /\ Len(v.items[i].items) = Len(v.items[1].items)

bind_as_tensor_arguments(c) == ByWalk(c, Options(<<"data", "dtype", "device">>), 1, 1)

AsTensor(b) ==
  LET integers == has_explicit_float32_dtype(b)
      data == b.slots["data"]
  IN  Supports(/\ parse_as_tensor_device(b)
               /\ IsTensor(data) \/ FloatScalar(data, integers) \/ as_tensor_float_sequence(data, integers))

as_tensor_variable_function(c) ==
  LET bound == bind_as_tensor_arguments(c)
      b == Checked(bound, OptionsFit(bound))
  IN  AsksMode(b, AsTensor(b))

bind_asarray_arguments(c) ==
  ByWalk(c, Options(<<"obj", "dtype", "device", "copy", "requires_grad">>), 1, 1)

\* What is not a tensor is always copied, and says so of a number of NumPy's.
asarray_non_tensor_object(b) ==
  LET integers == has_explicit_float32_dtype(b)
      obj == b.slots["obj"]
  IN  /\ Chosen(b, "copy") => Set(b, "copy") /\ obj.kind # "numpy int"
      /\ FloatScalar(obj, integers) \/ as_tensor_float_sequence(obj, integers)

asarray_variable_function(c) ==
  LET bound == bind_asarray_arguments(c)
      b == Checked(bound, OptionsFit(bound) /\ Fits(bound, "copy", parse_factory_bool))
  IN  AsksMode(b, Supports(/\ parse_as_tensor_device(b) /\ ~Chosen(b, "requires_grad")
                           /\ IsTensor(b.slots["obj"]) \/ asarray_non_tensor_object(b)))

validate_scalar_tensor_value(v) == parse_fill_value(v)

bind_scalar_tensor_arguments(c) ==
  ByWalk(c, Options(<<"s", "dtype", "layout", "device", "pin_memory", "requires_grad">>), 1, 1)

parse_scalar_tensor_arguments(c) ==
  LET b == bind_scalar_tensor_arguments(c)
  IN  Checked(b, Fits(b, "s", validate_scalar_tensor_value) /\ OptionsFit(b))

scalar_tensor_variable_function(c) ==
  LET b == parse_scalar_tensor_arguments(c) IN Creates(b, Created(b))

(* At least so many dimensions *)

OneInput(c) == Len(c.positional) = 1 /\ DOMAIN c.keywords = {}

\* No tensors at all are for the mode to see.
dispatch_empty_variadic_tensor_input(c) ==
  Call(Bound([input |-> c.positional[1]]), "mode", <<>>, "value")

IsEmptyTuple(c) == OneInput(c) /\ c.positional[1].kind = "tuple" /\ c.positional[1].items = <<>>

\* atleast_2d and atleast_3d are the same.
atleast_1d_variable_function(c) ==
  IF IsEmptyTuple(c) THEN dispatch_empty_variadic_tensor_input(c)
  ELSE Native(IF OneInput(c) /\ IsTensor(c.positional[1]) THEN Bound([input |-> c.positional[1]]) ELSE Rejected)

broadcast_tensors_variable_function(c) ==
  LET input == c.positional[1]
  IN  IF IsEmptyTuple(c) THEN dispatch_empty_variadic_tensor_input(c)
      ELSE Native(IF OneInput(c) /\ input.kind = "tuple" /\ \A i \in DOMAIN input.items : IsTensor(input.items[i])
                  THEN Bound([inputs |-> input]) ELSE Rejected)

(* The method "to", whose overloads differ in the type of their first       *)
(* argument.                                                               *)

is_to_native_device_argument(v) == v.kind \in {"device", "str", "int"}

is_to_native_dtype_or_none_argument(v) == v.kind \in {"none", "dtype"}

\* What the positional arguments are; nothing, if the first is of no use.
classify_to_first_argument(c) ==
  LET first == c.positional[1]
      others == <<"non_blocking", "copy">>
  IN  CASE c.positional = <<>> \/ IsNone(first) \/ is_to_native_device_argument(first) -> <<"device", "dtype">> \o others
        [] IsTensor(first) -> <<"other">> \o others
        [] first.kind = "dtype" -> <<"dtype">> \o others
        [] probe_torch_function_override(first) ->
             IF Len(c.positional) \in {2, 3} /\ ~is_to_native_dtype_or_none_argument(c.positional[2])
             THEN <<"other">> \o others ELSE <<"device", "dtype">> \o others
        [] OTHER -> <<>>

parse_to_device(v) == IsNone(v) \/ is_to_native_device_argument(v) \/ probe_torch_function_override(v)

parse_to_dtype(v) == parse_dtype(v) \/ probe_torch_function_override(v)

parse_to_bool(v) == IsBool(v) \/ probe_torch_function_override(v)

parse_to_memory_format(v) == parse_like_factory_memory_format(v) \/ probe_torch_function_override(v)

bind_to_arguments(c) ==
  LET names == classify_to_first_argument(c)
      b == ByWalk(c, Options(names \o <<"memory_format">>), Len(names), 0)
  IN  Checked(b, /\ Fits(b, "device", parse_to_device) /\ Fits(b, "dtype", parse_to_dtype)
                 /\ Fits(b, "non_blocking", parse_to_bool) /\ Fits(b, "copy", parse_to_bool)
                 /\ Fits(b, "memory_format", parse_to_memory_format))

\* What is known to be unsupported is raised only when nobody was to be asked.
ToNative(b) ==
  Supports(/\ ~Set(b, "non_blocking")
           /\ OnDevice(b, {"cpu", "cpu:0", "cuda:0"})
           /\ Chosen(b, "memory_format") => b.slots["memory_format"].name = "preserve")

dispatch_tensor_to_method(c) ==
  LET b == bind_to_arguments(c)
  IN  Function(b, <<"other", "device", "dtype", "non_blocking", "copy", "memory_format">>, ToNative(b))
==============================================================================
