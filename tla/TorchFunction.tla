---------------------------- MODULE TorchFunction ----------------------------
(***************************************************************************)
(* __torch_function__: before a call runs natively, the topmost of the     *)
(* modes of its thread is asked for its result, and after it the objects   *)
(* among the arguments whose class defines a handler.  Handlers are Python *)
(* code: they give a result, decline, or raise, and first call whatever    *)
(* else they please, within further modes or not.  A mode is off the stack *)
(* while it is asked, so that what it calls reaches the next one.          *)
(*                                                                         *)
(* The stack is thread-local and so is everything here.  A frame is either *)
(* the body of a "with" statement or an attempt to have a call overridden, *)
(* whose handler is running:                                               *)
(*   mode     the mode to ask, or NoMode                                   *)
(*   asking   "mode", or "override"                                        *)
(*   asked    the objects asked so far, the last one running               *)
(*   left     those still to ask                                           *)
(*   tensor   Python's fallback for tensors is still to come               *)
(*   retries  how often the call was tried anew                            *)
(*   before   the modes when it began                                      *)
(***************************************************************************)
EXTENDS TensorCalls

CONSTANTS
  Modes,             \* TorchFunctionMode objects
  ClassmethodModes,  \* those whose handler is not bound to them
  NoMode,
  RecursionLimit     \* how often a call that is tried anew fits on the stack

ASSUME TorchConstants == NoMode \notin Modes /\ ClassmethodModes \subseteq Modes

VARIABLES
  modes,       \* TORCH_FUNCTION_MODE_STACK, the topmost last
  frames,      \* of the thread, the innermost last
  begun,       \* calls so far
  outcome      \* of the last step, if it ended a call

torchVars == <<modes, frames, begun, outcome>>

NoOutcome == [result |-> "none"]

TorchInit == modes = <<>> /\ frames = <<>> /\ begun = 0 /\ outcome = NoOutcome

(* Calls *)

is_empty == modes = <<>>

\* Python asks about one argument, or has only tensors.
has_torch_function_unary(v) == ~is_empty \/ probe_torch_function_override(v)

\* Whether an object has a handler is asked of its class, so a class has none.
_overloaded_unary_arguments(v) == IF v.kind = "override" THEN <<v>> ELSE <<>>

Unary(c) ==
  LET v == c.positional[1]
  IN  [ok |-> TRUE, slots |-> [input |-> v], form |-> "unary",
       overrides |-> _overloaded_unary_arguments(v), native |-> IF IsTensor(v) THEN "value" ELSE "unsupported"]

ExactVariadic(c) ==
  [ok |-> TRUE, form |-> "variadic", overrides |-> <<>>, native |-> "value",
   slots |-> With(c.keywords, "inputs", AllPositional(c))]

Entry(call) ==
  CASE call.of = "function" -> variable_function(call.name, call.arguments)
    [] call.of = "module" -> module_function(call.name, call.arguments)
    [] call.of = "method" -> tensor_method(call.name, call.arguments)
    [] call.of = "unary" -> Unary(call.arguments)
    [] call.of = "variadic" -> ExactVariadic(call.arguments)

\* Neither "type" nor an instance of it that is not a class has a handler, and
\* "arguments" is no argument's name.
Passable(v) ==
  LET named(u) == probe_torch_function_override(u) => u.name # "type"
  IN  /\ named(v)
      /\ IsList(v) =>
           v.items \in Seq(ToSet(v.items)) /\ \A i \in DOMAIN v.items : named(v.items[i])

Argument(v) == Passable(v) /\ v.name # "arguments"

Passes(c) ==
  /\ c.positional \in Seq(ToSet(c.positional)) /\ IsFiniteSet(DOMAIN c.keywords)
  /\ \A i \in DOMAIN c.positional : Argument(c.positional[i])
  /\ \A key \in DOMAIN c.keywords : Argument(c.keywords[key])

\* What can be called, and with what: those that Python gives many tensors get
\* no keyword of that name.
Callable(call) ==
  /\ CASE call.of = "function" -> call.name \in variable_functions
       [] call.of = "module" -> call.name \in module_functions
       [] call.of = "method" -> call.name \in tensor_methods
       [] call.of = "unary" -> call.arguments.positional # <<>>
       [] call.of = "variadic" -> "inputs" \notin DOMAIN call.arguments.keywords
       [] OTHER -> FALSE
  /\ Passes(call.arguments)

\* A call, with what its entry makes of its arguments.
Made(call) ==
  LET entry == Entry(call)
  IN  [of |-> call.of, name |-> call.name, arguments |-> call.arguments,
       ok |-> entry.ok, slots |-> entry.slots, form |-> entry.form,
       overrides |-> entry.overrides, native |-> entry.native]

(* Whether anybody has to be asked *)
Overridable(call) ==
  CASE call.form \in {"function", "dunder"} -> ~is_empty \/ call.overrides # <<>>
    [] call.form = "unary" -> has_torch_function_unary(call.slots["input"])
    [] call.form \in {"variadic", "descriptor", "mode", "unbound"} -> ~is_empty
    [] call.form \in {"native", "guarded"} -> FALSE

\* The forms of Python itself do not look at how a mode defines its handler.
InPython(form) == form \in {"unary", "variadic"}

validate_torch_function_mode_handler(call) ==
  ~InPython(call.form) /\ ~is_empty => Last(modes) \notin ClassmethodModes

Ends(call, result, asked) == [call |-> call, result |-> result, asked |-> asked]

\* A call that nobody is to be asked about, or nobody can be.
Runs(call) ==
  LET result == CASE ~call.ok -> "rejected"
                  [] call.ok /\ Overridable(call) -> "raised"
                  [] call.ok /\ call.form = "guarded" /\ ~is_empty -> "unsupported"
                  [] OTHER -> call.native
  IN  /\ ~(call.ok /\ Overridable(call) /\ validate_torch_function_mode_handler(call))
      /\ outcome' = Ends(call, result, <<>>)
      /\ UNCHANGED <<modes, frames>>

Tried(call, mode) ==
  [call |-> call, mode |-> mode, before |-> modes, tensor |-> InPython(call.form), retries |-> 0,
   asking |-> IF mode = NoMode THEN "override" ELSE "mode",
   asked |-> IF mode = NoMode THEN SubSeq(call.overrides, 1, 1) ELSE <<>>,
   left |-> IF mode = NoMode THEN SubSeq(call.overrides, 2, Len(call.overrides)) ELSE call.overrides]

\* ActiveTorchFunctionMode: the top mode comes off the stack, if there is one.
pop == IF is_empty THEN modes ELSE Front(modes)

Attempts(call) ==
  LET mode == IF is_empty THEN NoMode ELSE Last(modes)
  IN  /\ call.ok /\ Overridable(call) /\ validate_torch_function_mode_handler(call)
      /\ IF mode = NoMode /\ call.overrides = <<>>
         THEN outcome' = Ends(call, "refused", <<>>) /\ UNCHANGED <<modes, frames>>
         ELSE /\ modes' = pop
              /\ frames' = Append(frames, Tried(call, mode))
              /\ outcome' = NoOutcome

Begins(call) ==
  /\ begun' = begun + 1
  /\ \E made \in {Made(call)} : Runs(made) \/ Attempts(made)

(* What a handler does in the end *)

Attempt == frames # <<>> /\ "call" \in DOMAIN Last(frames)

\* Rust holds the mode until the attempt is over, Python while it is asked.
OffStack(f) ==
  f.mode # NoMode /\ (f.asking = "mode" \/ ~InPython(f.call.form))

\* Mutant: the mode comes back only where it was the one asked last.
restore_asked(f) == IF f.asking = "mode" THEN Append(modes, f.mode) ELSE modes

restore(f) == IF OffStack(f) THEN Append(modes, f.mode) ELSE modes

Over(result) ==
  LET f == Last(frames)
  IN  /\ modes' = restore(f)
      /\ frames' = Front(frames)
      /\ outcome' = Ends(f.call, result, f.asked)
      /\ UNCHANGED begun

Returns == Attempt /\ Over("returned")

Raises == Attempt /\ Over("raised")

(* A handler that declines leaves the call to the next one.                 *)

AsksNext ==
  LET f == Last(frames)
  IN  /\ frames' = Append(Front(frames),
                          [f EXCEPT !.asking = "override", !.asked = Append(@, Head(f.left)), !.left = Tail(@)])
      /\ modes' = IF InPython(f.call.form) THEN restore(f) ELSE modes
      /\ outcome' = NoOutcome
      /\ UNCHANGED begun

\* The call is made again, which asks the mode again.
TriesAgain(retries, tensor) ==
  /\ frames' = Append(Front(frames), [Last(frames) EXCEPT !.retries = retries, !.tensor = tensor])
  /\ outcome' = NoOutcome
  /\ UNCHANGED <<modes, begun>>

\* Descriptors, and a function of many tensors with keywords, try forever.
Recurses(f) == IF f.retries < RecursionLimit THEN TriesAgain(f.retries + 1, f.tensor) ELSE Over("raised")

dispatch_torch_function_declined(f) ==
  IF f.left # <<>> THEN AsksNext
  ELSE Over(IF f.call.form = "dunder" THEN "declined" ELSE "refused")

_dispatch_unary_torch_function_declined(f) ==
  IF f.left = <<>> /\ f.tensor /\ IsTensor(f.call.arguments.positional[1])
  THEN TriesAgain(f.retries, FALSE) ELSE dispatch_torch_function_declined(f)

_dispatch_exact_native_variadic_torch_function_declined(f) ==
  CASE f.tensor /\ DOMAIN f.call.arguments.keywords # {} -> Recurses(f)
    [] f.tensor /\ DOMAIN f.call.arguments.keywords = {} -> TriesAgain(f.retries, FALSE)
    [] ~f.tensor -> Over("refused")

Declines ==
  /\ Attempt
  /\ LET f == Last(frames)
     IN  CASE f.call.form \in {"function", "dunder", "mode", "unbound"} -> dispatch_torch_function_declined(f)
           [] f.call.form = "descriptor" -> Recurses(f)
           [] f.call.form = "unary" -> _dispatch_unary_torch_function_declined(f)
           [] OTHER -> _dispatch_exact_native_variadic_torch_function_declined(f)

(* with TorchFunctionMode(): ... *)

\* __enter__
_push_mode(m) ==
  /\ modes' = Append(modes, m)
  /\ frames' = Append(frames, [scope |-> m, before |-> modes])
  /\ outcome' = NoOutcome
  /\ UNCHANGED begun

\* __exit__, whether the body ended or raised
_pop_mode ==
  /\ frames # <<>> /\ "scope" \in DOMAIN Last(frames)
  /\ modes # <<>>
  /\ modes' = Front(modes)
  /\ frames' = Front(frames)
  /\ outcome' = NoOutcome
  /\ UNCHANGED begun

\* Some calls, of some function, so many in all, in frames so deep.
TorchStep(calls, limit, entered, depth) ==
  \/ Len(frames) < depth /\ begun < limit /\ \E some \in calls : \E call \in some : Begins(call)
  \/ Len(frames) < depth /\ begun < limit /\ \E m \in entered : _push_mode(m)
  \/ _pop_mode \/ Returns \/ Raises \/ Declines

-------------------------------------------------------------------------------

Values(slots) == {slots[name] : name \in DOMAIN slots}

\* The arguments of a call, and the values that its slots hold, each with
\* where it is.
Passed(c) ==
  {[at |-> <<"positional", i>>, value |-> c.positional[i]] : i \in DOMAIN c.positional}
  \cup {[at |-> <<"keyword", key>>, value |-> c.keywords[key]] : key \in DOMAIN c.keywords}

Taken(slots) ==
  LET gathered == {name \in DOMAIN slots : slots[name].name = "arguments"}
  IN  {[at |-> <<"slot", name>>, value |-> slots[name]] : name \in DOMAIN slots \ gathered}
      \cup UNION {{[at |-> <<name, i>>, value |-> slots[name].items[i]] : i \in DOMAIN slots[name].items} :
                    name \in gathered}

Count(s, v) == Cardinality({x \in s : x.value = v})

\* A shape given to view as a sequence is all of its shape, whatever follows.
ShapeAlone(call) ==
  LET positional == call.arguments.positional
  IN  /\ call.of = "method" /\ call.name = "view" /\ Len(positional) > 1
      /\ validate_view_shape_first(positional[1]) /\ is_view_shape_dimension(positional[1])

\* The arguments that a call has to bind.
Counted(call) ==
  IF ShapeAlone(call)
  THEN [positional |-> <<call.arguments.positional[1]>>, keywords |-> call.arguments.keywords]
  ELSE call.arguments

(* A call that is bound has every one of its arguments bound, once: however *)
(* arguments are spelled, and whichever aliases of parameters there are,    *)
(* none is dropped and none is used for two parameters.  The binders        *)
(* account for keywords by counting them, which is right only if the counts *)
(* are those of the parameters that keywords fill.                          *)
(* There is one exception, which tests/test_view.py:1286-1392 asks for: of  *)
(* several positional arguments of view, a first one that is a sequence of  *)
(* dimensions and has an __index__ as well is bound alone, and the others   *)
(* are dropped.  Then it is bound once, and nothing else is.                *)
EveryArgumentBound ==
  /\ outcome # NoOutcome /\ outcome.result # "rejected" /\ outcome.call.form # "unary"
  /\ outcome.call.form \in {"dunder", "unbound"} => outcome.result \in {"value", "unsupported"}
  => LET passed == Passed(Counted(outcome.call))
         taken == Taken(outcome.call.slots)
     IN  \A v \in {x.value : x \in passed \cup taken} : Count(passed, v) = Count(taken, v)

(* The native code of a call is reached only with arguments that it can     *)
(* have: none of its "unreachable!" branches, one for each parameter that   *)
(* an override may take, is taken.                                          *)
NativeNeverPanics == outcome # NoOutcome => outcome.result # "panic"

\* Who has a handler among the arguments, those in a sequence included: of
\* conversions and of ranges nobody is asked but the mode.
Handlers(call) ==
  {v \in Values(call.slots) \cup UNION {ToSet(Operands(call, name)) : name \in DOMAIN call.slots} :
     IF call.form = "unary" THEN v.kind = "override"
     ELSE call.form \notin {"mode", "unbound"} /\ probe_torch_function_override(v)}

StrictlyBelow(v, w) == v.kind = "override" /\ v.name # w.name /\ <<v.name, w.name>> \in Subclass

(* Handlers are asked a class at most once in a call, except that a class   *)
(* may be an argument itself, a subclass before the classes that it derives *)
(* from; and a call is refused only when the class of every argument that   *)
(* has a handler has been asked.                                            *)
AskedInOrder ==
  /\ \A i \in DOMAIN frames : "call" \in DOMAIN frames[i] =>
       LET asked == frames[i].asked
       IN  \A j \in DOMAIN asked, k \in DOMAIN asked : j < k =>
             /\ ~StrictlyBelow(asked[k], asked[j])
             /\ asked[k].kind = "override" => asked[j].name # asked[k].name
  /\ outcome # NoOutcome /\ outcome.result \in {"refused", "declined"} =>
       \A v \in Handlers(outcome.call) : \E i \in DOMAIN outcome.asked : outcome.asked[i].name = v.name

WhileIn(f) ==
  IF "scope" \in DOMAIN f THEN Append(f.before, f.scope)
  ELSE IF OffStack(f) THEN Front(f.before) ELSE f.before

\* What the code of the i-th frame sees between the frames within it.
SeenIn(i) == IF i = 0 THEN <<>> ELSE WhileIn(frames[i])

(* However calls nest, and whether their handlers return, decline or raise, *)
(* the code of every frame sees the modes its "with" statements entered:    *)
(* a mode that was asked is back in its place when the attempt is over, and *)
(* leaving a "with" removes the mode that it entered.                       *)
ScopesRestored ==
  /\ \A i \in DOMAIN frames : frames[i].before = SeenIn(i - 1)
  /\ modes = SeenIn(Len(frames))
=============================================================================
