---------------------------- MODULE PointwiseGraph ----------------------------
(***************************************************************************)
(* The pointwise IR of src/src/pointwise_ir.rs: a straight line of tensor  *)
(* operations over inputs, scalars bound at run time and constants.  A     *)
(* node is its operation, its operands and, for a leaf, what it is a leaf  *)
(* of; operands are numbered from 1.  Constants are small integers, which  *)
(* binary32 and binary64 both hold exactly.                                *)
(***************************************************************************)
EXTENDS Integers, SequencesExt

Leaf(op, value) == [op |-> op, args |-> <<>>, leaf |-> value]
Apply(op, args) == [op |-> op, args |-> args, leaf |-> 0]

Binary == {"add", "sub", "mul"}
Unary == {"neg", "relu", "sin", "cos"}
ScalarLeaves == {"scalar", "constant", "boolean", "integer"}

IsTensor(node) == node.op \notin ScalarLeaves
tensor_operation(node) == node.op \in Binary \union Unary

Ids(sequence) == [k \in DOMAIN sequence |-> k]

\* The elements of a sequence, each at its first place only.
append_unique(target, values) ==
    FoldLeft(LAMBDA t, v : IF v \in Range(t) THEN t ELSE Append(t, v), target, values)

validate(graph) ==
    /\ \A id \in DOMAIN graph.nodes :
          LET node == graph.nodes[id] IN
          /\ \A k \in DOMAIN node.args : node.args[k] < id
          /\ node.op = "input" => node.leaf \in 1 .. graph.inputs
          /\ node.op \in Binary => \E k \in 1 .. 2 : IsTensor(graph.nodes[node.args[k]])
          /\ node.op \in Unary => IsTensor(graph.nodes[node.args[1]])
    /\ graph.outputs # <<>>
    /\ \A k \in 2 .. Len(graph.outputs) : graph.outputs[k - 1] < graph.outputs[k]
    /\ \A k \in DOMAIN graph.outputs : tensor_operation(graph.nodes[graph.outputs[k]])

remap(node, mapped) == [node EXCEPT !.args = [k \in DOMAIN node.args |-> mapped[node.args[k]]]]

(* Graph identities.                                                       *)
\* A tensor multiplied by the integer or Boolean zero; its operands are
\* never looked at.
ZeroProducer == Apply("mul", <<0, 0>>)
node_operands(node) == IF node = ZeroProducer THEN <<>> ELSE node.args

Zeros(nodes) ==
    {id \in DOMAIN nodes :
        /\ nodes[id].op = "mul"
        /\ \E k \in 1 .. 2 : LET arg == nodes[nodes[id].args[k]]
                             IN  arg.op \in {"integer", "boolean"} /\ arg.leaf = 0}

Resolve(aliases, id) ==
    LET root[k \in 1 .. id] == IF aliases[k] = k THEN k ELSE root[aliases[k]] IN root[id]

\* An addition of a tensor zero, or a subtraction of one, stands for the
\* other operand.
Aliased(aliases, id, nodes, zeros, a, b) ==
    IF ~(IsTensor(nodes[a]) /\ IsTensor(nodes[b])) THEN aliases
    ELSE IF nodes[id].op = "add" /\ a \in zeros THEN [aliases EXCEPT ![id] = b]
    ELSE IF b \in zeros THEN [aliases EXCEPT ![id] = a]
    ELSE aliases

AliasPass(aliases, nodes, op) ==
    FoldLeft(LAMBDA al, id :
                IF nodes[id].op # op THEN al
                ELSE Aliased(al, id, nodes, Zeros(nodes),
                             Resolve(al, nodes[id].args[1]), Resolve(al, nodes[id].args[2])),
             aliases, Ids(nodes))

early_aliases(nodes) ==
    LET found == AliasPass(AliasPass(Ids(nodes), nodes, "add"), nodes, "sub")
    IN  [id \in DOMAIN nodes |-> Resolve(found, id)]

\* Where every node went, and the nodes with their operands rewritten.
Canonical(nodes, aliases, zeros) ==
    [mapped |-> aliases,
     nodes |-> [id \in DOMAIN nodes |->
                  IF aliases[id] # id THEN nodes[id]
                  ELSE IF id \in zeros THEN ZeroProducer
                  ELSE remap(nodes[id], aliases)]]
canonical_nodes(graph) == Canonical(graph.nodes, early_aliases(graph.nodes), Zeros(graph.nodes))

(* What a graph computes, exactly.  Values are residues: every identity    *)
(* the compiler may use holds in a field, and no other is likely to.  The  *)
(* calls, and the rectifier, are functions nothing is known of.            *)
Prime == 10007
Residue(v) == v % Prime
Opaque(op, v) ==
    CASE op = "relu" -> Residue(3 * v * v + 5)
      [] op = "sin" -> Residue(v * v + 7 * v + 2)
      [] op = "cos" -> Residue(5 * v * v + v + 11)

Arithmetic(op, a, b) ==
    CASE op = "add" -> Residue(a + b)
      [] op = "sub" -> Residue(a - b)
      [] op = "mul" -> Residue(a * b)

\* A lane: the value of every input and of every scalar binding.
NodeValue(node, value, lane) ==
    CASE node.op = "input" -> lane.inputs[node.leaf]
      [] node.op = "scalar" -> Residue(IF node.leaf < 0 THEN -lane.scalars[-node.leaf] ELSE lane.scalars[node.leaf])
      [] node.op \in {"constant", "boolean", "integer"} -> Residue(node.leaf)
      [] node.op \in Binary -> Arithmetic(node.op, value[node.args[1]], value[node.args[2]])
      [] node.op = "neg" -> Residue(-value[node.args[1]])
      [] OTHER -> Opaque(node.op, value[node.args[1]])

Evaluate(nodes, lane) ==
    LET value[id \in DOMAIN nodes] == NodeValue(nodes[id], value, lane) IN value
===============================================================================
