----------------------------- MODULE MCTorchCalls -----------------------------
(***************************************************************************)
(* The calls that TLC makes in TorchFunction.                              *)
(***************************************************************************)
EXTENDS TorchFunction

Value(kind, name) == [kind |-> kind, name |-> name, items |-> <<>>]

ListOf(name, items) == [kind |-> "list", name |-> name, items |-> items]

IndexListOf(name, items) == [kind |-> "index list", name |-> name, items |-> items]

Only(of, name, positional) ==
  [of |-> of, name |-> name, arguments |-> [positional |-> positional, keywords |-> <<>>]]

\* Classes with a handler: C derives from B, and B from A.
MCSubclass ==
  {<<"A", "A">>, <<"B", "B">>, <<"C", "C">>, <<"B", "A">>, <<"C", "B">>, <<"C", "A">>, <<"type", "type">>}

A == Value("override", "A")
B == Value("override", "B")
C == Value("override", "C")
ClassA == Value("class", "A")

Params(call) ==
  CASE call = <<"function", "cat">> -> <<"tensors", "dim", "out">>
    [] call = <<"function", "stack">> -> <<"tensors", "dim", "out">>
    [] call = <<"function", "vstack">> -> <<"tensors", "out">>
    [] call \in {"function"} \X {"adjoint", "positive", "conj", "is_conj", "is_inference"} -> <<"input">>
    [] call = <<"function", "reshape">> -> <<"input", "shape">>
    [] call = <<"function", "sin">> -> <<"input", "out">>
    [] call = <<"function", "pow">> -> <<"input", "exponent", "out">>
    [] call \in {"function"} \X {"sum", "mean"} -> <<"input", "dim", "keepdim", "dtype", "out">>
    [] call \in {"function"} \X {"unbind", "unsqueeze"} -> <<"input", "dim">>
    [] call = <<"function", "select">> -> <<"input", "dim", "index">>
    [] call = <<"function", "narrow">> -> <<"input", "dim", "start", "length">>
    [] call = <<"function", "chunk">> -> <<"input", "chunks", "dim">>
    [] call = <<"function", "permute">> -> <<"input", "dims">>
    [] call = <<"function", "movedim">> -> <<"input", "source", "destination">>
    [] call \in {"function"} \X {"matmul", "mul"} -> <<"input", "other">>
    [] call = <<"function", "mm">> -> <<"input", "mat2", "out">>
    [] call \in {"function"} \X {"add", "sub", "subtract"} -> <<"input", "other", "alpha", "out">>
    [] call = <<"function", "div">> -> <<"input", "other", "rounding_mode", "out">>
    [] call = <<"function", "can_cast">> -> <<"from_", "to">>
    [] call = <<"module", "relu">> -> <<"input">>
    [] call \in {"module"} \X {"is_same_size", "equal"} -> <<"input", "other">>
    [] call = <<"module", "allclose">> -> <<"input", "other", "rtol", "atol", "equal_nan">>
    [] call = <<"module", "transpose">> -> <<"input", "dim0", "dim1">>
    [] call = <<"module", "squeeze">> -> <<"input", "dim">>
    [] call = <<"module", "flatten">> -> <<"input", "start_dim", "end_dim">>
    [] call \in {"method"} \X {"unsqueeze", "unbind", "squeeze", "size"} -> <<"dim">>
    [] call = <<"method", "select">> -> <<"dim", "index">>
    [] call = <<"method", "narrow">> -> <<"dim", "start", "length">>
    [] call = <<"method", "chunk">> -> <<"chunks", "dim">>
    [] call = <<"method", "movedim">> -> <<"source", "destination">>
    [] call = <<"method", "view">> -> <<"size">>
    [] call = <<"method", "permute">> -> <<"dims">>
    [] call \in {"method"} \X {"reshape_as", "view_as", "matmul", "mul"} -> <<"other">>
    [] call \in {"method"} \X {"pow", "__pow__"} -> <<"exponent">>
    [] call = <<"method", "div">> -> <<"other", "rounding_mode">>
    [] call \in {"method"} \X {"add", "sub", "subtract"} -> <<"other", "alpha">>
    [] call = <<"method", "split">> -> <<"split_size", "dim">>
    [] call = <<"method", "transpose">> -> <<"dim0", "dim1">>
    [] call = <<"method", "flatten">> -> <<"start_dim", "end_dim">>
    [] call = <<"method", "allclose">> -> <<"other", "rtol", "atol", "equal_nan">>
    [] call \in {"method"} \X {"sum", "mean"} -> <<"dim", "keepdim", "dtype">>
    [] call = <<"method", "sin">> -> <<>>
    [] call = <<"function", "zeros_like">> -> <<"input">>
    [] call = <<"function", "full_like">> -> <<"input", "fill_value">>
    [] call = <<"function", "arange">> -> <<"start", "end">>
    [] call = <<"function", "as_tensor">> -> <<"data">>
    [] call = <<"function", "asarray">> -> <<"obj">>
    [] call = <<"function", "scalar_tensor">> -> <<"s">>
    [] call \in {"function"} \X {"atleast_1d", "broadcast_tensors"} -> <<"inputs">>
    [] call \in {"module"} \X {"empty", "zeros"} -> <<"size">>
    [] call = <<"module", "full">> -> <<"size", "fill_value">>
    [] call = <<"module", "eye">> -> <<"n", "m">>
    [] call = <<"method", "to">> -> <<"device", "dtype", "non_blocking", "copy", "memory_format">>

Named ==
  ({"function"} \X variable_functions) \cup ({"module"} \X module_functions) \cup ({"method"} \X tensor_methods)

\* A value that suits a parameter, called after where it is given.
Suits(param, at) ==
  CASE param \in {"input", "x", "a", "other", "x2", "mat2", "out", "bogus"} -> Value("tensor", at)
    [] param = "alpha" -> Value("int", "one")
    [] param = "exponent" -> Value("int", "two")
    [] param = "tensors" -> ListOf(at, <<Value("tensor", "u"), Value("tensor", "v")>>)
    [] param \in {"shape", "size", "dims"} -> ListOf(at, <<Value("int", "three"), Value("int", "four")>>)
    [] param \in {"keepdim", "equal_nan"} -> Value("bool", at)
    [] param \in {"rtol", "atol"} -> Value("float", at)
    [] param \in {"dtype", "from_", "to"} -> Value("dtype", at)
    [] param = "rounding_mode" -> Value("none", at)
    [] param = "device" -> Value("device", "cpu")
    [] param \in {"non_blocking", "copy", "pin_memory", "requires_grad"} -> Value("bool", "false")
    [] param = "layout" -> Value("layout", at)
    [] param = "memory_format" -> Value("memory format", "preserve")
    [] param \in {"data", "obj"} -> ListOf(at, <<Value("float", "half"), Value("float", "third")>>)
    [] OTHER -> Value("int", at)

\* What else is given for it.
Alternatives(param) ==
  {Suits(param, param)}
  \cup (CASE param \in {"input", "other", "from_"} -> {A, B, C, ClassA}
          [] param \in {"out", "to", "mat2"} -> {A, B, Value("object", "z")}
          [] param \in {"alpha", "exponent", "rounding_mode"} -> {A, B, Value("float", "half")}
          [] param \in {"chunks", "start", "length", "dtype"} -> {A, B, Value("tensor", "w")}
          [] param = "dim" -> {A, B, Value("tensor", "w"), IndexListOf("dim", <<Value("int", "three")>>)}
          [] param = "tensors" ->
               {A, ListOf("tensors", <<>>), ListOf("tensors", <<A, C, B>>), ListOf("tensors", <<ClassA, B, ClassA>>),
                ListOf("tensors", <<Value("tensor", "u"), C>>)}
          [] param = "shape" ->
               {B, ListOf("shape", <<A, B>>), IndexListOf("shape", <<Value("int", "three"), C>>)}
          [] param = "split_size" ->
               {Value("numpy int", "z"), IndexListOf("split_size", <<Value("int", "three"), Value("bool", "true")>>)}
          [] param \in {"size", "dims", "source", "destination", "index"} ->
               {Value("int", param), Value("object", "z"), IndexListOf(param, <<Value("int", "three")>>),
                IndexListOf(param, <<Value("float", "half"), Value("int", "three")>>)}
          [] param = "device" -> {Value("device", "cuda:0"), Value("str", "cuda"), Value("none", "device"),
                                  Value("tensor", "t"), Value("dtype", "float32"), A}
          [] param \in {"non_blocking", "copy"} -> {Value("bool", "true"), Value("none", "z"), B}
          [] param = "memory_format" -> {Value("memory format", "channels last"), A}
          [] param \in {"pin_memory", "requires_grad"} -> {Value("bool", "true"), Value("none", param)}
          [] param \in {"data", "obj", "inputs", "s", "fill_value"} ->
               {Value("tensor", "scalar"), Value("numpy int", "one"), Value("float", "half"), A,
                ListOf(param, <<ListOf("row", <<Value("int", "one")>>), ListOf("row", <<Value("int", "two")>>)>>),
                ListOf(param, <<Value("float", "half"), ListOf("row", <<>>)>>),
                [kind |-> "tuple", name |-> param, items |-> <<>>],
                [kind |-> "tuple", name |-> param, items |-> <<Value("tensor", "t"), Value("tensor", "u")>>]}
          [] OTHER -> {Value("object", "z")})

\* Parameters in order, the first few by position.
ValuesOf(params) ==
  FoldLeft(LAMBDA found, param : {Append(s, v) : s \in found, v \in Alternatives(param)}, {<<>>}, params)

Canonical(params) ==
  UNION {{[positional |-> SubSeq(values, 1, p),
           keywords |-> [k \in {params[i] : i \in (p + 1)..n} |-> values[CHOOSE i \in 1..n : params[i] = k]]]
          : values \in ValuesOf(SubSeq(params, 1, n)), p \in {0, Min({2, n}), n}}
         : n \in 1..Len(params)}

\* Any names, aliases and unknown ones among them, with suitable values.
Spellings(params) ==
  LET names == ToSet(params) \cup {"x", "x2", "bogus"}
               \cup (IF "input" \in ToSet(params) THEN {"a"} ELSE {})
               \cup (IF "dim" \in ToSet(params) THEN {"axis"} ELSE {})
      suitable == [k \in names |-> Suits(k, k)]
      some == {[k \in K |-> suitable[k]] : K \in UNION {kSubset(n, names) : n \in 0..3}}
      at == <<"p1", "p2", "p3", "p4">>
      first == [i \in 1..Min({Len(params) + 1, 4}) |->
                  Suits(IF i <= Len(params) THEN params[i] ELSE "bogus", at[i])]
  IN  {[positional |-> SubSeq(first, 1, p), keywords |-> ks] : p \in 0..Len(first), ks \in some}

\* The options of the functions that make tensors, one of them or a suitable
\* second, after arguments by position.
Factories ==
  ({"function"} \X {"zeros_like", "full_like", "arange", "as_tensor", "asarray", "scalar_tensor"})
  \cup ({"module"} \X {"empty", "zeros", "full", "eye"})

WithOptions(params) ==
  LET options == {"out", "dtype", "layout", "device", "pin_memory", "requires_grad", "memory_format", "copy",
                  "shape", "end"}
  IN  UNION {{[positional |-> [i \in 1..p |-> Suits(params[i], params[i])], keywords |-> k :> v @@ l :> Suits(l, l)]
              : v \in Alternatives(k)}
             : p \in 1..Len(params), k \in options, l \in options}

\* Dimensions, of which the first may be all of them.
Dimensions ==
  {<<x>> \o y
   : x \in {Value("int", "p1"), A, ListOf("p1", <<Value("int", "three")>>)}
          \cup {IndexListOf("p1", items) : items \in {<<>>, <<Value("int", "three")>>, <<Value("float", "half")>>}},
     y \in {<<Value("int", "p2")>>, <<Value("bool", "p2")>>, <<Value("int", "p2"), Value("int", "p3")>>}}

\* The methods that still take a factor first, and many dimensions.
Deprecated ==
  {[of |-> "method", name |-> name, arguments |-> [positional |-> <<x, y>>, keywords |-> <<>>]]
   : name \in {"add", "sub", "subtract", "__pow__"},
     x \in {A, B, Value("int", "one"), Value("tensor", "p1")},
     y \in {B, C, ClassA, Value("int", "two"), Value("tensor", "p2")}}
  \cup {[of |-> "method", name |-> name, arguments |-> [positional |-> <<x>>, keywords |-> "other" :> y]]
        : name \in {"add", "sub"}, x \in {A, B, Value("int", "one")}, y \in {B, C, Value("tensor", "k")}}
  \cup {Only("method", name, positional) : name \in {"view", "permute", "squeeze"}, positional \in Dimensions}
  \cup {Only("module", "zeros", positional) : positional \in Dimensions}

Unaries ==
  {[of |-> "unary", name |-> "split", arguments |-> [positional |-> <<v>>, keywords |-> <<>>]]
   : v \in {Value("tensor", "t"), A, ClassA, Value("object", "z")}}
  \cup {[of |-> "variadic", name |-> "broadcast_tensors",
         arguments |-> [positional |-> <<Value("tensor", "t"), Value("tensor", "u")>>, keywords |-> ks]]
        : ks \in {<<>>, "indexing" :> Value("str", "xy")}}

CallsOf(named, some) == {[of |-> named[1], name |-> named[2], arguments |-> c] : c \in some}

\* Calls of one function each.
MCArgumentCalls ==
  {CallsOf(named, Canonical(Params(named))) : named \in Named}
  \cup {CallsOf(named, Spellings(Params(named))) : named \in Named}
  \cup {CallsOf(named, WithOptions(Params(named))) : named \in Factories}
  \cup {Deprecated, Unaries}

\* One call of each form.
MCModeCalls ==
  {{Only("function", "mm", <<A, B>>), Only("function", "adjoint", <<Value("tensor", "t")>>),
    Only("method", "__pow__", <<A>>), Only("method", "sin", <<>>),
    Only("function", "asarray", <<Value("tensor", "t")>>), Only("function", "arange", <<>>)},
   Unaries}
=============================================================================
