---------------------------- MODULE TorchDispatch ----------------------------
(***************************************************************************)
(* What a call of a tensor function leads to: its arguments bound, the     *)
(* objects whose __torch_function__ is to be asked before the native code, *)
(* in the order they are asked in, and what the native code would do.      *)
(*                                                                         *)
(*   ok         the call was bound; otherwise it raised                    *)
(*   slots      the bound arguments                                        *)
(*   overrides  the objects to ask, after the active mode                  *)
(*   form       how the active mode and those objects are asked: as for a  *)
(*              "function"; as for a "descriptor", a "mode" or "unbound"   *)
(*              the mode alone, for the last one before its arguments are  *)
(*              bound; "dunder" if it may decline; "guarded" if it refuses *)
(*              to run within a mode; "native" if it asks nobody           *)
(*   native     "value", "unsupported", or "panic" where an argument has a *)
(*              type that the native code takes for impossible             *)
(***************************************************************************)
EXTENDS CallBinding

CONSTANT Subclass   \* pairs of a class and a class it is, or derives from

\* Classes are ordered, and "type" derives from none that has a handler.
ASSUME DispatchConstants ==
  /\ \A p, q \in Subclass : p[2] = q[1] => <<p[1], q[2]>> \in Subclass
  /\ \A p, q \in Subclass : p[1] = q[2] /\ p[2] = q[1] => p[1] = p[2]
  /\ \A p \in Subclass : p[1] = "type" => p[2] = "type"

(* Whom to ask *)

\* The type of an object, which for a class is its metaclass, orders it ...
PrecedenceType(v) == IF v.kind = "class" THEN "type" ELSE v.name

\* ... and what a handler is told of is that type, or else the class itself.
DispatchType(v) == v.name

\* Mutant: every object comes after those before it.
insert_in_order(overrides, v) == Append(overrides, v)

insert_ordered_torch_function_override(overrides, v) ==
  LET above == {i \in DOMAIN overrides : <<PrecedenceType(v), DispatchType(overrides[i])>> \in Subclass}
  IN  IF \E i \in DOMAIN overrides : DispatchType(overrides[i]) = PrecedenceType(v) THEN overrides
      ELSE IF above = {} THEN Append(overrides, v)
      ELSE InsertAt(overrides, Min(above), v)

\* The sequences whose items may be asked are those of tensors and of sizes.
Operands(b, name) ==
  IF ~Has(b, name) THEN <<>>
  ELSE IF name \in {"tensors", "shape"} /\ IsList(b.slots[name]) THEN b.slots[name].items
  ELSE <<b.slots[name]>>

\* Those of the objects that have a handler, in the order they are asked in.
Ordered(objects) ==
  LET upto[n \in 0..Len(objects)] ==
        IF n = 0 THEN <<>>
        ELSE IF probe_torch_function_override(objects[n])
             THEN insert_ordered_torch_function_override(upto[n - 1], objects[n])
             ELSE upto[n - 1]
  IN  upto[Len(objects)]

OrderedOverrides(b, names) ==
  Ordered(FlattenSeq([i \in DOMAIN names |-> Operands(b, names[i])]))

(* What the native code does *)

NoOverride(b, names) ==
  \A name \in names : \A v \in ToSet(Operands(b, name)) : ~probe_torch_function_override(v)

TensorsOnly(b, names) == \A name \in names : \A v \in ToSet(Operands(b, name)) : IsTensor(v)

OutGiven(b) == Has(b, "out") /\ b.slots["out"].kind # "none"

\* A result that goes to a tensor of the caller's is not supported.
OutRefused(b, native) == IF OutGiven(b) THEN "unsupported" ELSE native

Expects(holds) == IF holds THEN "value" ELSE "panic"

\* Arithmetic on a tensor and a tensor or a number.
Arithmetic(b) ==
  IF ~NoOverride(b, {"input", "other"}) THEN "panic"
  ELSE IF Has(b, "input") /\ ~IsTensor(b.slots["input"]) /\ ~IsTensor(b.slots["other"])
       THEN "unsupported" ELSE "value"

\* Only a factor of one is supported.
Alpha(b, native) ==
  IF ~Has(b, "alpha") THEN native
  ELSE IF ~NoOverride(b, {"alpha"}) THEN "panic"
  ELSE IF IsBool(b.slots["alpha"]) \/ b.slots["alpha"].name # "one" THEN "unsupported" ELSE native

Rounding(b, native) ==
  IF ~Has(b, "rounding_mode") \/ b.slots["rounding_mode"].kind = "none" THEN native
  ELSE IF ~NoOverride(b, {"rounding_mode"}) THEN "panic" ELSE "unsupported"

Power(b) ==
  IF /\ Has(b, "input") => IsTensor(b.slots["input"])
     /\ is_real_arithmetic_scalar(b.slots["exponent"]) /\ b.slots["exponent"].name = "two"
  THEN "value" ELSE "unsupported"

JoinedTensors(b) ==
  IF ~(Has(b, "tensors") /\ IsList(b.slots["tensors"])) THEN "panic"
  ELSE IF b.slots["tensors"].items = <<>> THEN "unsupported"
  ELSE IF ~TensorsOnly(b, {"tensors"}) \/ ~NoOverride(b, {"dim"}) THEN "panic"
  ELSE OutRefused(b, "value")

Reduced(b) ==
  IF ~TensorsOnly(b, {"input"}) THEN "panic"
  ELSE IF bind_sum_reduction(b) = "unsupported" THEN "unsupported" ELSE "value"

(* Functions of the module.  Every one binds its arguments, asks the mode   *)
(* and the overrides, and only then runs natively.                         *)

Call(b, form, names, native) ==
  [ok |-> b.ok, slots |-> b.slots, form |-> form, native |-> native,
   overrides |-> IF b.ok THEN OrderedOverrides(b, names) ELSE <<>>]

Function(b, names, native) == Call(b, "function", names, IF b.ok THEN native ELSE "value")

\* A call that no handler hears of.
Native(b) == Call(b, "native", <<>>, "value")

\* Mutant: nobody asks the object that stands for the number of chunks.
dispatch_top_level_chunk_input(b) ==
  Function(b, <<"input">>, Expects(TensorsOnly(b, {"input"}) /\ NoOverride(b, {"chunks", "dim"})))

dispatch_top_level_chunk(b) ==
  Function(b, <<"input", "chunks", "dim">>,
           Expects(TensorsOnly(b, {"input"}) /\ NoOverride(b, {"chunks", "dim"})))

dispatch_top_level_unbind(b) == Function(b, <<"input">>, Expects(TensorsOnly(b, {"input"})))

dispatch_top_level_select(b) == Function(b, <<"input">>, Expects(TensorsOnly(b, {"input"})))

\* A tensor for a start is for handlers to see, and not supported.
NarrowStart(b, native) == IF IsTensor(b.slots["start"]) THEN "unsupported" ELSE native

dispatch_top_level_narrow(b) ==
  Function(b, <<"input", "dim", "start", "length">>,
           IF ~TensorsOnly(b, {"input"}) THEN "panic"
           ELSE NarrowStart(b, Expects(NoOverride(b, {"dim", "start", "length"}))))

dispatch_top_level_cat(b) == Function(b, <<"tensors", "dim", "out">>, JoinedTensors(b))

dispatch_top_level_stack(b) == Function(b, <<"tensors", "dim", "out">>, JoinedTensors(b))

dispatch_top_level_atleast_stack(b) == Function(b, <<"tensors", "out">>, JoinedTensors(b))

dispatch_single_tensor_override(b) == Function(b, <<"input">>, Expects(TensorsOnly(b, {"input"})))

dispatch_adjoint(b) == Function(b, <<"input">>, Expects(TensorsOnly(b, {"input"})))

dispatch_is_conj(b) == Function(b, <<"input">>, Expects(TensorsOnly(b, {"input"})))

dispatch_is_inference(b) == Function(b, <<"input">>, Expects(TensorsOnly(b, {"input"})))

dispatch_top_level_movedim(b) == Function(b, <<"input">>, Expects(TensorsOnly(b, {"input"})))

dispatch_top_level_reshape(b) ==
  Function(b, <<"input", "shape">>, Expects(TensorsOnly(b, {"input"}) /\ NoOverride(b, {"shape"})))

dispatch_top_level_unary_out(b) ==
  Function(b, <<"input", "out">>, OutRefused(b, Expects(TensorsOnly(b, {"input"}))))

dispatch_top_level_sum(b) == Function(b, <<"input", "dtype", "out">>, Reduced(b))

dispatch_top_level_mean(b) == Function(b, <<"input", "dtype", "out">>, Reduced(b))

dispatch_dtype_binary(b, names) == Function(b, names, Expects(NoOverride(b, ToSet(names))))

dispatch_top_level_matmul(b) ==
  Function(b, <<"input", "other">>, Expects(TensorsOnly(b, {"input", "other"})))

dispatch_top_level_mm(b) ==
  Function(b, <<"input", "mat2", "out">>, OutRefused(b, Expects(TensorsOnly(b, {"input", "mat2"}))))

dispatch_top_level_multiplication(b) == Function(b, <<"input", "other">>, Arithmetic(b))

dispatch_top_level_addition(b) ==
  Function(b, <<"input", "other", "alpha", "out">>, OutRefused(b, Alpha(b, Arithmetic(b))))

dispatch_top_level_subtraction(b) ==
  Function(b, <<"input", "other", "alpha", "out">>, OutRefused(b, Alpha(b, Arithmetic(b))))

dispatch_top_level_division(b) ==
  Function(b, <<"input", "other", "rounding_mode", "out">>, OutRefused(b, Rounding(b, Arithmetic(b))))

\* A power of a number by a number is refused before any handler is asked.
top_level_pow_is_scalar_base_scalar_exponent(b) ==
  is_real_arithmetic_scalar(b.slots["input"]) /\ is_real_arithmetic_scalar(b.slots["exponent"])

dispatch_top_level_pow(b) ==
  IF b.ok /\ top_level_pow_is_scalar_base_scalar_exponent(b) THEN Function(Rejected, <<>>, "value")
  ELSE Function(b, <<"input", "exponent", "out">>, OutRefused(b, Power(b)))

(* Methods.  Their tensor is a tensor, and is not among the arguments.      *)

dispatch_tensorbase_method_mode(b) == Function(b, <<>>, "value")

dispatch_chunk_method(b) ==
  Function(b, <<"chunks", "dim">>, Expects(NoOverride(b, {"chunks", "dim"})))

dispatch_narrow_method(b) ==
  Function(b, <<"dim", "start", "length">>,
           NarrowStart(b, Expects(NoOverride(b, {"dim", "start", "length"}))))

dispatch_view_as(b) == Function(b, <<"other">>, Expects(TensorsOnly(b, {"other"})))

dispatch_matmul(b) == Function(b, <<"other">>, Expects(TensorsOnly(b, {"other"})))

dispatch_tensor_pow_method(b) == Function(b, <<"exponent">>, Power(b))

dispatch_tensor_division_method(b) ==
  Function(b, <<"other", "rounding_mode">>, Rounding(b, Arithmetic(b)))

dispatch_tensor_add_sub_method(c, b) ==
  Function(b, IF b.ok /\ tensor_add_sub_method_alpha_precedes_other(c, b)
              THEN <<"alpha", "other">> ELSE <<"other", "alpha">>,
           Alpha(b, Arithmetic(b)))

\* The operator asks about whatever it was given, before binding it, and
\* where nobody has an answer declines instead of failing.
dispatch_tensor_pow_dunder(c) ==
  LET b == bind_tensor_pow_dunder_exponent(c)
      asked == IF c.positional = <<>>
               THEN IF "exponent" \in DOMAIN c.keywords THEN <<c.keywords["exponent"]>> ELSE <<>>
               ELSE SubSeq(c.positional, 1, Min({2, Len(c.positional)}))
  IN  [ok |-> "self" \notin DOMAIN c.keywords,
       slots |-> b.slots, form |-> "dunder",
       overrides |-> Ordered(asked),
       native |-> IF ~b.ok \/ ~(IsTensor(b.slots["exponent"]) \/ is_real_arithmetic_scalar(b.slots["exponent"]))
                  THEN "declined" ELSE Power(b)]

\* Reading an attribute, or calling a method of no arguments, of the base class.
dispatch_tensorbase_mode(b) == Call(b, "descriptor", <<>>, "value")

\* unsqueeze cannot be overridden, and does not pretend otherwise.
unsqueeze_variable_function(b) == Call(b, "guarded", <<>>, Expects(TensorsOnly(b, {"input"})))
==============================================================================
