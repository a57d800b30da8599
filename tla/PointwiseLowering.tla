--------------------------- MODULE PointwiseLowering ---------------------------
(***************************************************************************)
(* The numerical lowering of src/src/pointwise_lowering.rs: one region of  *)
(* a graph is interned, its signs normalized, and its products contracted  *)
(* into fused multiply-adds, consumer before operand.  Expressions are     *)
(* nodes of PointwiseGraph with five more operations: selfsub, zero,       *)
(* folded, flip (an exact change of sign) and signed (minus a product by   *)
(* two).  The sign of a zero is left out.                                  *)
(***************************************************************************)
EXTENDS PointwiseGraph

LOAD_RANK_BASE == 65536
Never == 2147483647

(* The table.  out is the expression last interned, node the operation     *)
(* being normalized.                                                       *)
NoneFound == 0
EmptyTable == [nodes |-> <<>>, constants |-> <<>>, signs |-> <<>>, out |-> NoneFound,
               node |-> Leaf("zero", 0)]

PlaceOf(nodes, expr) == CHOOSE id \in DOMAIN nodes : nodes[id] = expr

\* Whether an expression depends on no input and no run-time scalar.
ConstantExpression(l, expr) ==
    /\ expr.op \notin {"input", "scalar"}
    /\ \A k \in DOMAIN expr.args : l.constants[expr.args[k]]

intern(l, expr) ==
    IF expr \in Range(l.nodes) THEN [l EXCEPT !.out = PlaceOf(l.nodes, expr)]
    ELSE [l EXCEPT !.nodes = Append(@, expr),
                   !.constants = Append(@, ConstantExpression(l, expr)),
                   !.out = Len(l.nodes) + 1]

IsConstant(l, id) == l.nodes[id].op \in {"constant", "integer", "boolean"}
ConstantIs(l, id, value) == IsConstant(l, id) /\ l.nodes[id].leaf = value
IsProduct(l, id) == l.nodes[id].op = "mul"
subtracts_scalar_zero(l, id) == l.nodes[id].op = "sub" /\ ConstantIs(l, l.nodes[id].args[2], 0)

(* Identities of tensors computed from a tensor zero.                      *)
Propagated(l, id) == l.nodes[id].op \in {"zero", "folded"}
Known(l, id) == Propagated(l, id) \/ IsConstant(l, id)
Folds(l, node) ==
    /\ node.op \in Binary
    /\ \E k \in 1 .. 2 : Propagated(l, node.args[k])
    /\ \A k \in 1 .. 2 : Known(l, node.args[k])
Exact(op, a, b) == CASE op = "add" -> a + b [] op = "sub" -> a - b [] op = "mul" -> a * b
fold_tensor_arithmetic(l, node) ==
    intern(l, Leaf("folded", Exact(node.op, l.nodes[node.args[1]].leaf, l.nodes[node.args[2]].leaf)))

\* The operands of arithmetic are binary32: one constant for every kind.
WithOperand(l, k) == [l EXCEPT !.node.args[k] = l.out]
float_operand(l, k) ==
    IF IsConstant(l, l.node.args[k])
    THEN WithOperand(intern(l, Leaf("constant", l.nodes[l.node.args[k]].leaf)), k) ELSE l
float_operands(l, node) ==
    IF node.op \in Binary THEN float_operand(float_operand([l EXCEPT !.node = node], 1), 2)
    ELSE [l EXCEPT !.node = node]

\* The other factor of a multiplication by one, or none.
unit_product(l) ==
    IF l.node.op # "mul" THEN NoneFound
    ELSE IF ConstantIs(l, l.node.args[2], 1) THEN l.node.args[1]
    ELSE IF ConstantIs(l, l.node.args[1], 1) THEN l.node.args[2]
    ELSE NoneFound

(* Signs.                                                                  *)
Equivalent(l, id) == [l EXCEPT !.signs = Append(@, <<id, l.out>>)]
IsFlip(l, id) == l.nodes[id].op = "flip"
NegativeConstant(l, id) == IsConstant(l, id) /\ l.nodes[id].leaf < 0
Opposed(l, id) == Leaf("constant", -l.nodes[id].leaf)

\* The product, with a factor replaced by the one without its sign.
LeftOpposed(l, id, b) == intern(intern(l, Opposed(l, id)), Apply("mul", <<intern(l, Opposed(l, id)).out, b>>))
RightOpposed(l, a, id) == intern(intern(l, Opposed(l, id)), Apply("mul", <<a, intern(l, Opposed(l, id)).out>>))

PositiveProduct(l, id, a, b, single_use) ==
    IF single_use /\ IsFlip(l, a) THEN Equivalent(intern(l, Apply("mul", <<l.nodes[a].args[1], b>>)), id)
    ELSE IF single_use /\ IsFlip(l, b) THEN Equivalent(intern(l, Apply("mul", <<a, l.nodes[b].args[1]>>)), id)
    ELSE IF NegativeConstant(l, a) THEN Equivalent(LeftOpposed(l, a, b), id)
    ELSE IF NegativeConstant(l, b) THEN Equivalent(RightOpposed(l, a, b), id)
    ELSE [l EXCEPT !.out = NoneFound]

\* The expression without its sign; none if it has none to take away.
positive(l, id, single_use) ==
    IF IsFlip(l, id) THEN [l EXCEPT !.out = l.nodes[id].args[1]]
    ELSE IF IsProduct(l, id) THEN PositiveProduct(l, id, l.nodes[id].args[1], l.nodes[id].args[2], single_use)
    ELSE [l EXCEPT !.out = NoneFound]

\* A signed double gives its factors back to a consumer that may have them.
Expose(l, k, eligible) ==
    IF eligible /\ l.nodes[l.node.args[k]].op = "signed"
    THEN WithOperand(intern(l, Apply("flip", l.nodes[l.node.args[k]].args)), k) ELSE l
Exposed(l, last_use) ==
    CASE l.node.op = "add" -> Expose(Expose(l, 1, last_use[1]), 2, last_use[2])
      [] l.node.op = "sub" /\ l.node.args[1] # l.node.args[2] -> Expose(Expose(l, 1, TRUE), 2, TRUE)
      [] l.node.op = "neg" -> Expose(l, 1, TRUE)
      [] OTHER -> l

\* A factor a sign may move onto.
Movable(l, id) == ~l.constants[id] /\ l.nodes[id].op # "scalar"
MovesInward(l, value, uses) ==
    uses = 1 /\ IsProduct(l, value) /\ \A k \in 1 .. 2 : Movable(l, l.nodes[value].args[k])

OntoSecond(l, a) == intern(l, Apply("mul", <<a, l.out>>))
Opposite(l, value, uses) ==
    IF MovesInward(l, value, uses)
    THEN OntoSecond(intern(l, Apply("flip", <<l.nodes[value].args[2]>>)), l.nodes[value].args[1])
    ELSE intern(l, Apply("flip", <<value>>))

Signed(l) == intern(l, Apply("signed", <<l.out>>))
DoubledBy(l, value, reversed) ==
    Signed(intern(l, Apply("mul", IF reversed THEN <<l.out, value>> ELSE <<value, l.out>>)))

Scaled(l, value, scalar, reversed, uses) ==
    IF scalar = -1 THEN Opposite(l, value, uses[IF reversed THEN 2 ELSE 1])
    ELSE IF scalar = -2 THEN DoubledBy(intern(l, Leaf("constant", 2)), value, reversed)
    ELSE intern(l, l.node)

NormalizeProduct(l, a, b, uses) ==
    IF IsConstant(l, b) THEN Scaled(l, a, l.nodes[b].leaf, FALSE, uses)
    ELSE IF IsConstant(l, a) THEN Scaled(l, b, l.nodes[a].leaf, TRUE, uses)
    ELSE intern(l, l.node)

\* What to do with a positive form, and without one.
SubtractPositive(l, from, otherwise) ==
    IF l.out = NoneFound THEN otherwise ELSE intern(l, Apply("sub", <<from, l.out>>))
AddPositive(l, a, otherwise) ==
    IF l.out = NoneFound THEN otherwise ELSE intern(l, Apply("add", <<a, l.out>>))

NormalizeSum(l, a, b, uses) ==
    SubtractPositive(positive(l, b, uses[2] = 1), a,
        SubtractPositive(positive(l, a, uses[1] = 1), b, intern(l, l.node)))
NormalizeDifference(l, a, b, uses) ==
    IF a = b THEN intern(l, Apply("selfsub", <<a>>))
    ELSE AddPositive(positive(l, b, uses[2] = 1), a, intern(l, l.node))

PlusZero(l, value) == intern(intern(l, Leaf("constant", 0)),
                             Apply("add", <<value, intern(l, Leaf("constant", 0)).out>>))
PlusZeroOf(l) == PlusZero(l, l.out)
NormalizeNegation(l, a) ==
    CASE Propagated(l, a) -> intern(l, Leaf("folded", -l.nodes[a].leaf))
      [] l.nodes[a].op = "sub" /\ l.nodes[a].args[1] # l.nodes[a].args[2] ->
            PlusZeroOf(intern(l, Apply("sub", Reverse(l.nodes[a].args))))
      [] l.nodes[a].op \in {"neg", "flip"} -> PlusZero(l, l.nodes[a].args[1])
      [] OTHER -> intern(l, l.node)

NormalizeNode(l, args, uses) ==
    CASE l.node.op = "mul" -> NormalizeProduct(l, args[1], args[2], uses)
      [] l.node.op = "add" -> NormalizeSum(l, args[1], args[2], uses)
      [] l.node.op = "sub" -> NormalizeDifference(l, args[1], args[2], uses)
      [] l.node.op = "neg" -> NormalizeNegation(l, args[1])
      [] l.node.op = "integer" /\ l.node.leaf # 0 -> intern(l, Leaf("constant", l.node.leaf))
      [] OTHER -> intern(l, l.node)

NormalizeExposed(l, uses) == NormalizeNode(l, l.node.args, uses)
NormalizeFloats(l, last_use, uses) ==
    IF unit_product(l) # NoneFound THEN [l EXCEPT !.out = unit_product(l)]
    ELSE NormalizeExposed(Exposed(l, last_use), uses)

normalize(l, node, last_use, uses) ==
    IF Folds(l, node) THEN fold_tensor_arithmetic(l, node)
    ELSE NormalizeFloats(float_operands(l, node), last_use, uses)

(* Consumers of the canonical expressions, before signs are normalized.    *)
\* One node of a graph translated: aliases follow, zeros are marked.
Mapped(s) == [s EXCEPT !.mapped = Append(@, s.l.out)]
Translate(s, id, node, aliases, lowered) ==
    IF aliases[id] # id THEN [s EXCEPT !.mapped = Append(@, s.mapped[aliases[id]])]
    ELSE Mapped([s EXCEPT !.l = IF node = ZeroProducer THEN intern(s.l, Leaf("zero", 0))
                                ELSE lowered])

InternFloats(l) ==
    IF unit_product(l) # NoneFound THEN [l EXCEPT !.out = unit_product(l)] ELSE intern(l, l.node)
InternPlain(l, node) ==
    IF Folds(l, node) THEN fold_tensor_arithmetic(l, node) ELSE InternFloats(float_operands(l, node))

Interning(nodes, aliases) ==
    FoldLeft(LAMBDA s, id : Translate(s, id, nodes[id], aliases, InternPlain(s.l, remap(nodes[id], s.mapped))),
             [l |-> EmptyTable, mapped |-> <<>>], Ids(nodes))

CountOperands(uses, args) == FoldLeft(LAMBDA u, a : [u EXCEPT ![a] = @ + 1], uses, args)
live_uses(nodes, outputs) ==
    FoldRight(LAMBDA id, uses : IF uses[id] = 0 THEN uses ELSE CountOperands(uses, nodes[id].args),
              Ids(nodes), [id \in DOMAIN nodes |-> IF id \in Range(outputs) THEN 1 ELSE 0])

LastUse(nodes, uses, a) ==
    Max({0} \union {id \in DOMAIN nodes : uses[id] # 0 /\ a \in Range(nodes[id].args)})

\* For every node: is it the last consumer of each operand, and how often
\* is each operand used.
Consumers(nodes, mapped, uses) ==
    [id \in DOMAIN mapped |->
        [last |-> IF nodes[mapped[id]].op = "add"
                  THEN [k \in 1 .. 2 |-> LastUse(nodes, uses, nodes[mapped[id]].args[k]) = mapped[id]]
                  ELSE <<TRUE, TRUE>>,
         uses |-> IF nodes[mapped[id]].op \in Binary
                  THEN [k \in 1 .. 2 |-> uses[nodes[mapped[id]].args[k]]] ELSE <<0, 0>>]]
ConsumersOf(s, roots) ==
    Consumers(s.l.nodes, s.mapped, live_uses(s.l.nodes, [k \in DOMAIN roots |-> s.mapped[roots[k]]]))
consumer_analysis(nodes, aliases, roots) == ConsumersOf(Interning(nodes, aliases), roots)

(* Ranks: loads in the order of evaluation, calls in that of completion.   *)
Push(s, pushed) == [s EXCEPT !.pending = pushed \o Tail(@)]
Complete(s, value, l) ==
    IF l.constants[value] \/ s.calls[value] # 0 THEN Push(s, <<>>)
    ELSE [Push(s, <<>>) EXCEPT !.calls[value] = s.call_rank + LOAD_RANK_BASE,
                               !.call_rank = s.call_rank + LOAD_RANK_BASE]
\* A node is entered, or left once its argument was visited.
Entered(s, id, node) ==
    CASE node.op = "input" /\ s.inputs[node.leaf] = 0 ->
            [Push(s, <<>>) EXCEPT !.inputs[node.leaf] = s.input_rank + 1, !.input_rank = @ + 1]
      [] node.op \in {"sin", "cos"} -> Push(s, <<[id |-> node.args[1], left |-> FALSE], [id |-> id, left |-> TRUE]>>)
      [] OTHER -> Push(s, [k \in DOMAIN node.args |-> [id |-> node.args[k], left |-> FALSE]])
Visit(s, id, left, nodes, mapped, l) ==
    IF left THEN Complete(s, mapped[id], l)
    ELSE IF id \in s.seen \/ nodes[id] = ZeroProducer THEN Push(s, <<>>)
    ELSE Entered([s EXCEPT !.seen = @ \union {id}], id, nodes[id])

\* Every node pushes at most three entries, so the traversal is over by then.
materialization_ranks(nodes, inputs, aliases, mapped, l, roots) ==
    FoldLeft(LAMBDA s, step : IF s.pending = <<>> THEN s
                              ELSE Visit(s, aliases[Head(s.pending).id], Head(s.pending).left, nodes, mapped, l),
             [pending |-> [k \in DOMAIN roots |-> [id |-> roots[k], left |-> FALSE]], seen |-> {},
              inputs |-> [i \in 1 .. inputs |-> 0], input_rank |-> LOAD_RANK_BASE,
              calls |-> [id \in DOMAIN l.nodes |-> 0], call_rank |-> LOAD_RANK_BASE],
             [step \in 1 .. (Len(roots) + 3 * Len(nodes)) |-> step])

RankOf(l, id, node, ranks, visited) ==
    IF l.constants[id] THEN 0 ELSE
    CASE node.op = "input" -> visited.inputs[node.leaf]
      [] node.op = "scalar" -> IF node.leaf < 0 THEN -node.leaf ELSE node.leaf
      [] node.op \in {"sin", "cos"} -> visited.calls[id]
      [] node.op \in Binary /\ ~subtracts_scalar_zero(l, id) -> Max({ranks[node.args[1]], ranks[node.args[2]]}) + 1
      [] node.op = "relu" -> ranks[node.args[1]] + 2
      [] node.op \in {"neg", "selfsub"} -> ranks[node.args[1]] + 1
      [] node.op \in {"flip", "signed", "sub"} -> ranks[node.args[1]]
contraction_ranks(l, visited) ==
    FoldLeft(LAMBDA ranks, id : Append(ranks, RankOf(l, id, l.nodes[id], ranks, visited)), <<>>, Ids(l.nodes))

(* Contraction.  An operation of the program is a node too: fma takes the  *)
(* two factors and, unless it is the literal zero, the addend; its leaf    *)
(* has 1 for a negated product and 2 for a negated addend.                 *)
\* The deadline of a value: the rank of the first call after which it is used.
Deadline(deadline, call) == IF call = 0 THEN deadline ELSE Min({deadline, call})
call_deadlines(nodes, calls, uses) ==
    FoldRight(LAMBDA id, before :
                 IF uses[id] = 0 THEN before
                 ELSE [a \in DOMAIN nodes |->
                         IF a \in Range(nodes[id].args) THEN Min({before[a], Deadline(before[id], calls[id])})
                         ELSE before[a]],
              Ids(nodes), [id \in DOMAIN nodes |-> Never])

\* The uses of a value within its block, one more if it leaves the block.
\* A use is a consumer, the place of the operand, and the block it is in.
UsesIn(nodes, calls, before, live) ==
    {<<id, k, IF calls[id] = 0 THEN before[id] ELSE calls[id]>> :
        <<id, k>> \in {e \in (DOMAIN nodes) \X {1, 2} : live[e[1]] # 0 /\ e[2] \in DOMAIN nodes[e[1]].args}}
Observed(outputs) == {<<a, 0, Never>> : a \in Range(outputs)}
UsedBy(nodes, use) == IF use[2] = 0 THEN use[1] ELSE nodes[use[1]].args[use[2]]
LocalUses(nodes, before, uses) ==
    [a \in DOMAIN nodes |->
        Cardinality({u \in uses : UsedBy(nodes, u) = a /\ before[a] = u[3]})
        + (IF \E u \in uses : UsedBy(nodes, u) = a /\ before[a] # u[3] THEN 1 ELSE 0)]
local_uses(nodes, outputs, calls, before, live) ==
    LocalUses(nodes, before, UsesIn(nodes, calls, before, live) \union Observed(outputs))

\* The smallest expression of the same value up to sign.
Join(parents, a, b) == [parents EXCEPT ![Max({a, b})] = Min({a, b})]
Wrappers(l) ==
    LET wraps(id) == l.nodes[id].op \in {"flip", "signed"} \/ subtracts_scalar_zero(l, id)
        found == SelectSeq(Ids(l.nodes), wraps)
    IN  [k \in DOMAIN found |-> <<found[k], l.nodes[found[k]].args[1]>>] \o l.signs
FamilyRoots(parents) == [id \in DOMAIN parents |-> Resolve(parents, id)]
sign_families(l) ==
    FamilyRoots(FoldLeft(LAMBDA parents, w : Join(parents, Resolve(parents, w[1]), Resolve(parents, w[2])),
                      Ids(l.nodes), Wrappers(l)))

\* Uses of a product by anything but its own wrappers.
product_uses(l, id, c) ==
    LET family == {m \in DOMAIN l.nodes : c.families[m] = c.families[id] /\ c.before[m] = c.before[id]}
        live == {m \in family : c.uses[m] # 0}
        internal == {e \in live \X {1, 2} : e[2] \in DOMAIN l.nodes[e[1]].args /\ l.nodes[e[1]].args[e[2]] \in family}
    IN  FoldFunctionOnSet(+, 0, c.uses, live) - Cardinality(internal)

\* One wrapper taken away: an exact flip, or a subtraction of zero outside
\* or inside the flips.
Peel(l, s) ==
    CASE subtracts_scalar_zero(l, s.id) ->
            [s EXCEPT !.id = l.nodes[s.id].args[1], !.inner = @ \/ s.flipped, !.outer = @ \/ ~s.flipped]
      [] IsFlip(l, s.id) -> [s EXCEPT !.id = l.nodes[s.id].args[1], !.negative = ~@, !.flipped = TRUE]
      [] OTHER -> s
Peeled(l, id) ==
    FoldLeft(LAMBDA s, step : Peel(l, s),
             [id |-> id, negative |-> FALSE, flipped |-> FALSE, inner |-> FALSE, outer |-> FALSE], Ids(l.nodes))

NoProduct == [factors |-> <<>>, negative |-> FALSE, direct |-> FALSE, uses |-> 0]
Found(product) == product # NoProduct
\* Mutant: the sign of a peeled product is lost.
UnsignedAt(l, s, c) ==
    IF c.before[s.id] < c.before[c.consumer] \/ ~IsProduct(l, s.id) THEN NoProduct
    ELSE [factors |-> l.nodes[s.id].args, negative |-> FALSE,
          direct |-> ~s.negative \/ (s.outer /\ ~s.inner), uses |-> product_uses(l, s.id, c)]

ProductAt(l, s, c) ==
    IF c.before[s.id] < c.before[c.consumer] \/ ~IsProduct(l, s.id) THEN NoProduct
    ELSE [factors |-> l.nodes[s.id].args, negative |-> s.negative,
          direct |-> ~s.negative \/ (s.outer /\ ~s.inner), uses |-> product_uses(l, s.id, c)]
contraction_product(l, id, c) == IF l.constants[id] THEN NoProduct ELSE ProductAt(l, Peeled(l, id), c)

\* Whether the left product is the one contracted.
PrefersLeft(left, right) ==
    /\ Found(left)
    /\ \/ /\ left.direct \/ (left.negative /\ Found(right) /\ right.negative)
          /\ right.direct => left.uses <= right.uses
       \/ ~right.direct

NoContraction == [operation |-> Leaf("zero", 0), product |-> NoneFound]
Fma(factors, addend, negative_product, negative_addend) ==
    [op |-> "fma", args |-> factors \o addend,
     leaf |-> (IF negative_product THEN 1 ELSE 0) + (IF negative_addend THEN 2 ELSE 0)]
Contracted(left, right, a, b, subtract) ==
    CASE PrefersLeft(left, right) ->
            [operation |-> Fma(left.factors, <<b>>, left.negative, subtract), product |-> a]
      [] Found(right) /\ ~PrefersLeft(left, right) ->
            [operation |-> Fma(right.factors, <<a>>, right.negative # subtract, FALSE), product |-> b]
      [] OTHER -> NoContraction

\* Two positive products of an addition compete in the order of their ranks.
Competes(product) == product.direct /\ ~product.negative
contract(left, right, a, b, subtract, c) ==
    IF ~subtract /\ Competes(left) /\ Competes(right) /\ c.ranks[b] < c.ranks[a]
    THEN Contracted(right, left, b, a, FALSE)
    ELSE Contracted(left, right, a, b, subtract)
ContractSum(l, a, b, subtract, c) ==
    contract(contraction_product(l, a, c), contraction_product(l, b, c), a, b, subtract, c)

ContractionOf(l, id, args, c) ==
    CASE l.nodes[id].op = "add" -> ContractSum(l, args[1], args[2], FALSE, c)
      [] l.nodes[id].op = "sub" /\ ~subtracts_scalar_zero(l, id) -> ContractSum(l, args[1], args[2], TRUE, c)
      [] l.nodes[id].op = "neg" /\ c.before[args[1]] = c.before[id] /\ IsProduct(l, args[1]) ->
            [operation |-> Fma(l.nodes[args[1]].args, <<>>, TRUE, FALSE), product |-> args[1]]
      [] OTHER -> NoContraction

\* One more for every operand in the consumer's block.
CountLocal(before, consumer, counts, args) ==
    FoldLeft(LAMBDA n, a : IF before[a] = before[consumer] THEN [n EXCEPT ![a] = @ + 1] ELSE n, counts, args)

\* The product loses a use and, if that was its last, so do its operands.
DropUses(nodes, before, s, id) ==
    IF s.drops[id] = 0 THEN s
    ELSE [uses |-> [s.uses EXCEPT ![id] = @ - s.drops[id]],
          drops |-> IF s.uses[id] = s.drops[id] THEN CountLocal(before, id, s.drops, nodes[id].args) ELSE s.drops]
RemoveUse(nodes, before, uses, consumer, product) ==
    FoldRight(LAMBDA id, s : DropUses(nodes, before, s, id), Ids(nodes),
              [uses |-> uses, drops |-> CountLocal(before, consumer, [id \in DOMAIN nodes |-> 0], <<product>>)]).uses

Select(l, s, id, found, before) ==
    IF found.product = NoneFound THEN s
    ELSE [uses |-> RemoveUse(l.nodes, before,
                             CountLocal(before, id, s.uses, SubSeq(found.operation.args, 1, 2)),
                             id, found.product),
          selected |-> [s.selected EXCEPT ![id] = found.operation]]

\* What became of every expression, and the uses that are left.
Contractions(l, ranks, before, families, uses) ==
    FoldRight(LAMBDA id, s :
                 IF s.uses[id] = 0 THEN s
                 ELSE Select(l, s, id, ContractionOf(l, id, l.nodes[id].args,
                                [ranks |-> ranks, uses |-> s.uses, before |-> before, families |-> families,
                                 consumer |-> id]), before),
              Ids(l.nodes), [uses |-> uses, selected |-> l.nodes])
ContractBlocks(l, ranks, calls, live, outputs, before) ==
    Contractions(l, ranks, before, sign_families(l), local_uses(l.nodes, outputs, calls, before, live))
contractions(l, visited, live, outputs) ==
    ContractBlocks(l, contraction_ranks(l, visited), visited.calls, live, outputs,
                   call_deadlines(l.nodes, visited.calls, live))

(* A region: its operations, and where its roots are among them.           *)
OperationOf(l, node, imports, inputs) ==
    CASE node.op = "input" /\ node.leaf > inputs -> Leaf("import", imports[node.leaf - inputs])
      [] node.op \in {"integer", "boolean", "folded", "zero"} -> Leaf("constant", node.leaf)
      [] node.op = "sub" /\ ConstantIs(l, node.args[2], 0) -> Apply("copy", <<node.args[1]>>)
      [] node.op = "signed" -> Apply("flip", node.args)
      [] node.op = "selfsub" -> Apply("sub", <<node.args[1], node.args[1]>>)
      [] OTHER -> node
Emitted(l, s, imports, inputs, roots) ==
    [operations |-> [id \in DOMAIN l.nodes |-> OperationOf(l, s.selected[id], imports, inputs)],
     roots |-> roots, uses |-> s.uses]

Lower(l, nodes, inputs, aliases, mapped, roots, imports, places) ==
    Emitted(l, contractions(l, materialization_ranks(nodes, inputs + Len(imports), aliases, mapped, l, roots),
                            live_uses(l.nodes, places), places),
            imports, inputs, places)

Normalizing(nodes, aliases, consumers) ==
    FoldLeft(LAMBDA s, id :
                Translate(s, id, nodes[id], aliases,
                          normalize(s.l, remap(nodes[id], s.mapped), consumers[id].last, consumers[id].uses)),
             [l |-> EmptyTable, mapped |-> <<>>], Ids(nodes))
LowerNormalized(s, nodes, inputs, aliases, roots, imports) ==
    Lower(s.l, nodes, inputs, aliases, s.mapped, roots, imports, [k \in DOMAIN roots |-> s.mapped[roots[k]]])

\* Mutant: imported values are computed again.
Unlocalized(canonical, imports, inputs) == canonical.nodes

\* Imported values are inputs of the region, whatever computed them.
Localized(canonical, imports, inputs) ==
    FoldLeft(LAMBDA nodes, k : [nodes EXCEPT ![canonical.mapped[imports[k]]] = Leaf("input", inputs + k)],
             canonical.nodes, Ids(imports))
RegionOf(nodes, inputs, aliases, roots, imports) ==
    LowerNormalized(Normalizing(nodes, aliases, consumer_analysis(nodes, aliases, roots)),
                    nodes, inputs, aliases, roots, imports)
region(graph, canonical, roots, imports) ==
    RegionOf(Localized(canonical, imports, graph.inputs), graph.inputs, canonical.mapped, roots, imports)
===============================================================================
