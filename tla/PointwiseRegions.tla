--------------------------- MODULE PointwiseRegions ---------------------------
(***************************************************************************)
(* The region planner of src/src/pointwise_regions.rs: which intermediates *)
(* of a graph are realized as rounded values, and which of those are       *)
(* computed together.  Its limits are parameters, so that small graphs     *)
(* reach them.                                                             *)
(***************************************************************************)
EXTENDS PointwiseGraph

CONSTANTS
    SharedOperations,   \* 30: a shared value of more operations is realized
    SharedReads,        \* 4: a shared value of more reads is realized
    AccumulatedReads,   \* 8: a value of more reads is realized
    RecursionLimit,     \* 100: a value of more operations is realized anyway
    GroupLimit,         \* 64: units of a group, candidates for each, distance
    MinimumBytes        \* 10: bytes two independent groups must share

ASSUME LimitsAssumption ==
    /\ SharedOperations \in Nat /\ SharedReads \in Nat /\ AccumulatedReads \in Nat
    /\ RecursionLimit \in Nat /\ GroupLimit \in Nat /\ MinimumBytes \in Nat

(* Order.                                                                  *)
Reachable(nodes, outputs) ==
    LET Step(live, id) ==
            IF id \in live THEN live \union Range(node_operands(nodes[id])) ELSE live
    IN  FoldRight(LAMBDA id, live : Step(live, id), Ids(nodes), Range(outputs))

\* Who uses a node; the end of the graph uses the outputs.
UsersOf(a, nodes, outputs, live) ==
    {id \in live : a \in Range(node_operands(nodes[id]))}
        \union (IF a \in Range(outputs) THEN {Len(nodes) + 1} ELSE {})

\* A producer moves to just before a consumer once all its users were seen.
MoveBefore(order, a, id) ==
    LET rest == SelectSeq(order, LAMBDA x : x # a)
        place == CHOOSE p \in DOMAIN rest : rest[p] = id
    IN  InsertAt(rest, place, a)

VisitArguments(s, id, args, nodes, users) ==
    [order |-> FoldLeft(LAMBDA order, a :
                           IF tensor_operation(nodes[a]) /\ users[a] \subseteq s.seen \union {id}
                           THEN MoveBefore(order, a, id) ELSE order,
                        s.order, args),
     seen |-> s.seen \union {id}]

\* From the last place of the order to the first.
ReverseTraversal(nodes, outputs, users, initial) ==
    LET end == Len(nodes) + 1
        Visit(s, id) == VisitArguments(s, id, IF id = end THEN outputs ELSE node_operands(nodes[id]),
                                       nodes, users)
        after[p \in 1 .. (Len(initial) + 1)] ==
            IF p = Len(initial) + 1 THEN [order |-> initial, seen |-> {}]
            ELSE Visit(after[p + 1], after[p + 1].order[p])
    IN  Front(after[1].order)

LocalityOrder(nodes, outputs, live) ==
    ReverseTraversal(nodes, outputs, [a \in live |-> UsersOf(a, nodes, outputs, live)],
                     Append(SelectSeq(Ids(nodes), LAMBDA id : id \in live), Len(nodes) + 1))
locality_order(nodes, outputs) == LocalityOrder(nodes, outputs, Reachable(nodes, outputs))

(* Extents: full, or the broadcast axes a value varies along.              *)
Scalar == [full |-> FALSE, axes |-> {}]
Merge(a, b) == [full |-> a.full \/ b.full,
                axes |-> IF a.full \/ b.full THEN {} ELSE a.axes \union b.axes]
ElementsOf(shape, hint) ==
    IF shape.full THEN hint ELSE FoldFunctionOnSet(LAMBDA a, b : a * b, 1,
                                                   [axis \in shape.axes |-> axis[2]], shape.axes)

NodeShapes(nodes, addresses) ==
    LET shape[id \in DOMAIN nodes] ==
            IF nodes[id].op = "input" THEN addresses[nodes[id].leaf]
            ELSE FoldLeft(LAMBDA s, a : Merge(s, shape[a]), Scalar, nodes[id].args)
    IN  shape

(* Realization.  Buffers are the inputs, then the units.  An expression is *)
(* its value, known by its key in the table, the values computed for it    *)
(* and the buffers it reads, in order.                                     *)
NoExpression == [value |-> 0, operations |-> {}, reads |-> <<>>]
NotRealized == 0

Key(table, key) == CHOOSE k \in DOMAIN table : table[k] = key

\* The table with the key in it.
Interned(table, key) == append_unique(table, <<key>>)

Load(table, buffer) ==
    LET value == Key(table, Leaf("input", buffer))
    IN  [value |-> value, operations |-> {value}, reads |-> <<buffer>>]

\* The node becomes a unit: later uses read its buffer.
realize(s, id, inputs) ==
    LET buffer == inputs + Len(s.units) + 1
        table == Interned(s.table, Leaf("input", buffer))
    IN  IF s.realized[id] # NotRealized THEN s
        ELSE [s EXCEPT !.units = Append(@, [root |-> id, reads |-> s.expressions[id].reads,
                                            shape |-> s.shapes[id], public |-> FALSE]),
                       !.realized = [@ EXCEPT ![id] = Len(s.units) + 1],
                       !.table = table,
                       !.expressions = [@ EXCEPT ![id] = Load(table, buffer)],
                       !.buffers = Append(@, s.shapes[id])]

Computed(s, node, key) ==
    LET table == Interned(s.table, key)
        args == node_operands(node)
        value == Key(table, key)
    IN  [s EXCEPT !.table = table,
                  !.current = [value |-> value,
                               operations |-> {value} \union UNION {s.expressions[args[k]].operations : k \in DOMAIN args},
                               reads |-> append_unique(<<>>, FlattenSeq([k \in DOMAIN args |-> s.expressions[args[k]].reads]))]]

ExpressionOf(s, node) ==
    IF node.op = "input"
    THEN LET table == Interned(s.table, node)
         IN  [s EXCEPT !.table = table, !.current = Load(table, node.leaf)]
    ELSE Computed(s, node, IF node = ZeroProducer THEN Leaf("constant", 0)
                           ELSE remap(node, [id \in DOMAIN s.expressions |-> s.expressions[id].value]))

\* Whether a value must be a buffer of its own.
MustRealize(e, returned, shared, nontrivial, scalar_output) ==
    LET count == Cardinality(e.operations)
        reads == Len(e.reads)
        cheap == reads = 0 /\ count <= SharedOperations
    IN  \/ returned /\ ~cheap /\ (~scalar_output \/ shared)
        \/ shared /\ (count > SharedOperations \/ reads > SharedReads)
        \/ (count > SharedOperations \/ reads > AccumulatedReads) /\ nontrivial > 1
        \/ count > RecursionLimit

Reached(s, id, c) ==
    LET e == s.expressions[id]
        nontrivial == Len(SelectSeq(e.reads, LAMBDA b : ElementsOf(s.buffers[b], c.hint) > 1))
    IN  IF /\ tensor_operation(c.nodes[id])
           /\ MustRealize(e, id \in Range(c.outputs), Cardinality(c.users[id]) > 1, nontrivial,
                          c.scalar_output)
        THEN realize(s, id, c.inputs) ELSE s

Evaluated(s, id, c) ==
    Reached([s EXCEPT !.expressions = [@ EXCEPT ![id] = s.current]], id, c)

Realize(s, c, order) ==
    FoldLeft(LAMBDA t, id : realize(t, id, c.inputs),
             FoldLeft(LAMBDA t, id : Evaluated(ExpressionOf(t, c.nodes[id]), id, c), s, order),
             c.outputs)

Published(s, outputs) ==
    [units |-> [u \in DOMAIN s.units |->
                  [s.units[u] EXCEPT !.public = \E k \in DOMAIN outputs : s.realized[outputs[k]] = u]],
     realized |-> s.realized]

\* The context of a planning: the canonical nodes, the outputs in the order
\* they are returned, and the parameters of the specialization.
Context(graph, canonical, order, addresses, hint, scalar_output) ==
    LET outputs == append_unique(<<>>, [k \in DOMAIN order |-> canonical.mapped[graph.outputs[order[k]]]])
        live == Reachable(canonical.nodes, outputs)
    IN  [inputs |-> graph.inputs, nodes |-> canonical.nodes, outputs |-> outputs,
         shapes |-> NodeShapes(graph.nodes, addresses), addresses |-> addresses, hint |-> hint,
         users |-> [a \in DOMAIN graph.nodes |-> UsersOf(a, canonical.nodes, outputs, live)],
         scalar_output |-> scalar_output]

realization(c) ==
    Published(Realize([expressions |-> [id \in DOMAIN c.nodes |-> NoExpression],
                       shapes |-> c.shapes, realized |-> [id \in DOMAIN c.nodes |-> NotRealized],
                       units |-> <<>>, table |-> <<>>, buffers |-> c.addresses,
                       current |-> NoExpression],
                      c, locality_order(c.nodes, c.outputs)),
              c.outputs)

(* Fusion.  groups maps every unit number to a group or to none; owner     *)
(* maps a unit to the group it is in.                                      *)
NoGroup == [units |-> <<>>, reads |-> <<>>, used |-> <<>>, min |-> 0, max |-> 0]

Group(members, units, inputs) ==
    LET read == append_unique(<<>>, FlattenSeq([k \in DOMAIN members |-> units[members[k]].reads]))
    IN  [units |-> members,
         reads |-> SelectSeq(read, LAMBDA b : (b - inputs) \notin Range(members)),
         used |-> append_unique(<<>>, FlattenSeq([k \in DOMAIN members |->
                                          Append(units[members[k]].reads, inputs + members[k])])),
         min |-> Min(Range(members)), max |-> Max(Range(members))]

shared_bytes(a, b, sizes) ==
    4 * FoldFunctionOnSet(LAMBDA x, y : x + y, 0, sizes, Range(a.used) \intersect Range(b.used))

Distance(m, n) == IF m > n THEN m - n ELSE n - m
distance(a, b) == Max({Distance(a.min, b.max), Distance(b.min, a.max)})

\* The groups a group reads from.
Parents(s, group, inputs) ==
    {s.owner[b - inputs] : b \in {r \in Range(s.groups[group].reads) : r > inputs}}

Ancestors(s, groups, inputs) ==
    LET Grow(found, n) == found \union UNION {Parents(s, g, inputs) : g \in found}
    IN  FoldLeft(Grow, groups, Ids(s.owner))

\* Mutant: paths through other groups are not looked for.
never_cyclic(s, a, b, inputs) == FALSE

\* Whether a path from one of the two to the other leads through a third.
cyclic_merge(s, a, b, inputs) ==
    {a, b} \intersect Ancestors(s, (Parents(s, a, inputs) \union Parents(s, b, inputs)) \ {a, b}, inputs) # {}

\* Sizes of the buffers a group alone uses, which memory planning would reuse.
ReuseSizes(group, sizes, inputs, single_user) ==
    {sizes[b] : b \in {r \in Range(group.reads) : r > inputs /\ single_user[r - inputs]}}

FitsMemory(a, b, bytes, f) ==
    FoldFunctionOnSet(LAMBDA x, y : x + y, 0, [size \in Range(f.sizes) |-> size],
                      ReuseSizes(a, f.sizes, f.inputs, f.single_user)
                        \intersect ReuseSizes(b, f.sizes, f.inputs, f.single_user))
        <= bytes * 32

FusePair(s, a, b, left, right, bytes, f) ==
    /\ a # b
    /\ Len(left.units) + Len(right.units) <= GroupLimit
    /\ bytes # 0
    /\ FitsMemory(left, right, bytes, f)
    /\ \/ a \in Parents(s, b, f.inputs) \/ b \in Parents(s, a, f.inputs)
       \/ bytes >= MinimumBytes /\ distance(left, right) <= GroupLimit
    /\ ~cyclic_merge(s, a, b, f.inputs)

can_fuse(s, a, b, f) ==
    a # b /\ FusePair(s, a, b, s.groups[a], s.groups[b],
                      shared_bytes(s.groups[a], s.groups[b], f.sizes), f)

\* The parts of a fusion that do not change.
Fusion(c, units) ==
    LET readers(u) == Cardinality({v \in DOMAIN units : (c.inputs + u) \in Range(units[v].reads)})
                      + (IF units[u].public THEN 1 ELSE 0)
    IN  [units |-> units, inputs |-> c.inputs,
         sizes |-> [b \in 1 .. (c.inputs + Len(units)) |->
                      ElementsOf(IF b <= c.inputs THEN c.addresses[b] ELSE units[b - c.inputs].shape, c.hint)],
         single_user |-> [u \in DOMAIN units |-> readers(u) = 1]]

Singletons(f) ==
    [groups |-> [u \in DOMAIN f.units |-> Group(<<u>>, f.units, f.inputs)],
     owner |-> [u \in DOMAIN f.units |-> u], merged |-> TRUE]

ByMin(groups) == SortSeq(groups, LAMBDA g, h : g.min < h.min)
Live(s) == SelectSeq(Ids(s.groups), LAMBDA g : s.groups[g] # NoGroup)
Ordered(s) == SortSeq(Live(s), LAMBDA g, h : s.groups[g].min < s.groups[h].min)

\* For every buffer, in the order of first use, the pairs of its users.
PairsOver(users) ==
    FlattenSeq([p \in DOMAIN users |->
        [k \in 1 .. Min({GroupLimit, Len(users) - p}) |-> <<users[p], users[p + k]>>]])

Pairs(s, ordered) ==
    LET buffers == append_unique(<<>>, FlattenSeq([k \in DOMAIN ordered |-> s.groups[ordered[k]].used]))
        over(b) == PairsOver(SelectSeq(ordered, LAMBDA g : b \in Range(s.groups[g].used)))
    IN  append_unique(<<>>, FlattenSeq([k \in DOMAIN buffers |-> over(buffers[k])]))

\* More shared bytes first, then the nearer pair, then the earlier one.
Ranked(scored) ==
    LET ahead(i, j) == \/ scored[i].bytes > scored[j].bytes
                       \/ scored[i].bytes = scored[j].bytes /\ scored[i].distance < scored[j].distance
                       \/ scored[i].bytes = scored[j].bytes /\ scored[i].distance = scored[j].distance /\ i < j
    IN  SortSeq(Ids(scored), ahead)

Candidates(s, f, pairs) ==
    LET fusable == SelectSeq(pairs, LAMBDA p : can_fuse(s, p[1], p[2], f))
        scored == [k \in DOMAIN fusable |->
                     LET a == s.groups[fusable[k][1]]
                         b == s.groups[fusable[k][2]]
                     IN  [first |-> a.units[1], second |-> b.units[1],
                          bytes |-> shared_bytes(a, b, f.sizes), distance |-> distance(a, b)]]
    IN  [k \in DOMAIN scored |-> scored[Ranked(scored)[k]]]

FuseGroups(s, f, a, b, members) ==
    [groups |-> [s.groups EXCEPT ![b] = NoGroup, ![a] = Group(members, f.units, f.inputs)],
     owner |-> [u \in DOMAIN s.owner |-> IF u \in Range(members) THEN a ELSE s.owner[u]],
     merged |-> TRUE]

FuseCandidate(s, f, a, b) ==
    IF can_fuse(s, a, b, f) THEN FuseGroups(s, f, a, b, s.groups[a].units \o s.groups[b].units) ELSE s

\* One round: candidates are scored once and checked again as groups grow.
FuseRound(s, f) ==
    FoldLeft(LAMBDA t, c : FuseCandidate(t, f, t.owner[c.first], t.owner[c.second]),
             [s EXCEPT !.merged = FALSE], Candidates(s, f, Pairs(s, Ordered(s))))

(* Emission.                                                               *)
GroupsToEmit(s) == ByMin([k \in DOMAIN Live(s) |-> s.groups[Live(s)[k]]])

\* Places of the groups whose reads have all been emitted.
Ready(remaining, emitted, inputs) ==
    {p \in DOMAIN remaining :
        \A b \in Range(remaining[p].reads) : b <= inputs \/ (b - inputs) \in emitted}

\* The values a group hands on: to the caller, and to other groups.
Roots(group, groups, realized, units, graph, canonical, order, inputs) ==
    LET others == UNION {Range(groups[g].units) : g \in {h \in DOMAIN groups : groups[h] # group}}
        needed(u) == \E v \in others : (inputs + u) \in Range(units[v].reads)
        returned(u) == SelectSeq([k \in DOMAIN order |-> graph.outputs[order[k]]],
                                 LAMBDA o : realized[canonical.mapped[o]] = u)
    IN  append_unique(<<>>, FlattenSeq([k \in DOMAIN group.units |->
            LET u == group.units[k]
            IN  (IF needed(u) THEN <<units[u].root>> ELSE <<>>) \o returned(u)]))

Imports(group, units, inputs) ==
    append_unique(<<>>, [k \in DOMAIN SelectSeq(group.reads, LAMBDA b : b > inputs) |->
                            units[SelectSeq(group.reads, LAMBDA b : b > inputs)[k] - inputs].root])
===============================================================================
