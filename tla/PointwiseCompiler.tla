--------------------------- MODULE PointwiseCompiler ---------------------------
(***************************************************************************)
(* The pointwise compiler: a graph is traced node by node, its values are  *)
(* realized and grouped into regions, the groups are put in an order, and  *)
(* every region is lowered and appended to one program for the interpreter *)
(* on the device.  Pure as it is, it decides by orders of traversal, use   *)
(* counts and free lists, which the shape of the graph feeds in ways no    *)
(* list of examples covers.                                                *)
(***************************************************************************)
EXTENDS PointwiseRegions, PointwiseProgram

CONSTANTS
    Families,    \* what may be traced; see IsFamily
    Lanes        \* the elements a finished program is run on

\* A family: the leaves of its graphs; for every operation, what it may be;
\* how many values are returned besides those nothing else uses, and whether
\* in either order; the specialization: the shapes of the inputs, a hint of
\* their size, and whether the outputs are scalars.
IsFamily(f) ==
    /\ \A k \in DOMAIN f.leaves : f.leaves[k].op \in ScalarLeaves \union {"input"}
    /\ \A k \in DOMAIN f.operations : \A node \in f.operations[k] : tensor_operation(node)
    /\ f.returned \in Nat /\ f.hint \in Nat
    /\ f.permuted \in BOOLEAN /\ f.scalar_output \in BOOLEAN
ASSUME FamiliesAssumption == \A f \in Families : IsFamily(f)

VARIABLES
    family,    \* the family the graph is of
    stage,     \* what the compiler is doing
    graph,     \* the graph traced so far
    order,     \* the order the outputs are returned in
    planning,  \* what the planner decided: canonical nodes, context, units
    grouping,  \* the groups, and the rounds of fusion made
    regions,   \* groups left to emit, groups emitted, regions appended
    lowered,   \* the region appended last
    program    \* the program so far

vars == <<family, stage, graph, order, planning, grouping, regions, lowered, program>>

Nothing == [canonical |-> [mapped |-> <<>>, nodes |-> <<>>], context |-> <<>>, units |-> <<>>,
            realized |-> <<>>, fusion |-> <<>>]
Ungrouped == [groups |-> <<>>, owner |-> <<>>, merged |-> FALSE, round |-> 0]
NoRegions == [left |-> <<>>, emitted |-> <<>>, appended |-> 0]
NotLowered == [operations |-> <<>>, roots |-> <<>>, uses |-> <<>>]

InputsOf(leaves) == Len(SelectSeq(leaves, LAMBDA leaf : leaf.op = "input"))
Init ==
    /\ family \in Families
    /\ stage = "trace"
    /\ graph = [inputs |-> InputsOf(family.leaves), nodes |-> family.leaves, outputs |-> <<>>]
    /\ order = <<>> /\ planning = Nothing /\ grouping = Ungrouped
    /\ regions = NoRegions /\ lowered = NotLowered /\ program = Start(0)

(* Tracing.                                                                *)
Made == Len(graph.nodes) - Len(family.leaves)
Admissible(node) == \E k \in DOMAIN node.args : IsTensor(graph.nodes[node.args[k]])
Trace ==
    /\ stage = "trace" /\ Made < Len(family.operations)
    /\ \E node \in family.operations[Made + 1] :
          Admissible(node) /\ graph' = [graph EXCEPT !.nodes = Append(@, node)]
    /\ UNCHANGED <<family, stage, order, planning, grouping, regions, lowered, program>>

Results == {id \in DOMAIN graph.nodes : tensor_operation(graph.nodes[id])}
Unused == {id \in Results : \A user \in DOMAIN graph.nodes : id \notin Range(graph.nodes[user].args)}

\* The planner's state once the values are realized.
Realized(r, canonical, c) ==
    [canonical |-> canonical, context |-> c, units |-> r.units, realized |-> r.realized, fusion |-> Fusion(c, r.units)]
Planned(g, canonical, o) ==
    LET c == Context(g, canonical, o, family.addresses, family.hint, family.scalar_output)
    IN  Realized(realization(c), canonical, c)

Specialize(g, o) ==
    /\ graph' = g /\ order' = o
    /\ planning' = Planned(g, canonical_nodes(g), o)
    /\ grouping' = Singletons(planning'.fusion) @@ [round |-> 0]

\* What nothing uses is returned, and some of the rest.
Return ==
    /\ stage = "trace" /\ Made = Len(family.operations)
    /\ \E extra \in SUBSET (Results \ Unused) :
          LET outputs == SetToSortSeq(extra \union Unused, <)
          IN  /\ Cardinality(extra) <= family.returned
              /\ \E o \in {Ids(outputs)} \union (IF family.permuted THEN {Reverse(Ids(outputs))} ELSE {}) :
                    Specialize([graph EXCEPT !.outputs = outputs], o)
    /\ stage' = "fuse"
    /\ program' = Start(Len(graph.nodes))
    /\ UNCHANGED <<family, regions, lowered>>

(* Planning.                                                               *)
FusionRounds == 10
Grouped(g) ==
    /\ grouping' = g
    /\ IF g.merged /\ g.round < FusionRounds THEN UNCHANGED <<stage, regions>>
       ELSE stage' = "emit" /\ regions' = [NoRegions EXCEPT !.left = GroupsToEmit(g)]
Fuse ==
    /\ stage = "fuse"
    /\ Grouped(FuseRound(grouping, planning.fusion) @@ [round |-> grouping.round + 1])
    /\ UNCHANGED <<family, graph, order, planning, lowered, program>>

EmittedUnits == UNION {Range(regions.emitted[k].units) : k \in DOMAIN regions.emitted}
ReadyToEmit == Ready(regions.left, EmittedUnits, graph.inputs)

\* The first group all of whose reads were emitted.
Emit ==
    /\ stage = "emit" /\ ReadyToEmit # {}
    /\ regions' = [regions EXCEPT !.left = RemoveAt(@, Min(ReadyToEmit)),
                                  !.emitted = Append(@, regions.left[Min(ReadyToEmit)])]
    /\ stage' = IF Len(regions.left) = 1 THEN "append" ELSE "emit"
    /\ UNCHANGED <<family, graph, order, planning, grouping, lowered, program>>

(* Lowering.                                                               *)
RegionAt(group) ==
    [roots |-> Roots(group, regions.emitted, planning.realized, planning.units, graph, planning.canonical, order, graph.inputs),
     imports |-> Imports(group, planning.units, graph.inputs)]

Appended(p, r, l) == IF r.roots = <<>> THEN p ELSE append_region(p, r, l, graph)
AppendRegion(r) ==
    /\ lowered' = IF r.roots = <<>> THEN lowered ELSE region(graph, planning.canonical, r.roots, r.imports)
    /\ program' = IF regions.appended + 1 < Len(regions.emitted) THEN Appended(program, r, lowered')
                  ELSE Finished(Appended(program, r, lowered'), graph)

LowerRegion ==
    /\ stage = "append"
    /\ AppendRegion(RegionAt(regions.emitted[regions.appended + 1]))
    /\ regions' = [regions EXCEPT !.appended = @ + 1]
    /\ stage' = IF regions'.appended = Len(regions.emitted) THEN "done" ELSE "append"
    /\ UNCHANGED <<family, graph, order, planning, grouping>>

Next == Trace \/ Return \/ Fuse \/ Emit \/ LowerRegion
Spec == Init /\ [][Next]_vars

-----------------------------------------------------------------------------
\* Every graph compiles: the groups can be put in an order, whichever were
\* fused (the planner panics otherwise); no use count of the contractions
\* goes below zero (a debug build panics, a release build wraps); and no
\* check the program makes of its planner and its lowering fails.
CompilesEveryGraph ==
    /\ stage = "emit" => ReadyToEmit # {}
    /\ \A id \in DOMAIN lowered.uses : lowered.uses[id] >= 0
    /\ program.error = "none"

\* A finished program stores, for every lane, what the graph computes: no
\* identity, sign, contraction, export or register was mistaken.
Exactly == [v \in Int |-> v]
ProgramComputesGraph ==
    stage = "done" =>
        \A lane \in Lanes :
            Run(program, graph, lane, Exactly)
                = [slot \in DOMAIN graph.outputs |-> Evaluate(graph.nodes, lane)[graph.outputs[slot]]]

\* A value is rounded where it leaves its region and nowhere else, and every
\* region that reads it has the rounded value and no other: run with a
\* rounding that no arithmetic undoes, the program stores what the regions
\* compute from one another's rounded values.
Rounded == [v \in Int |-> Residue(7 * v + 13)]
RegionLane(lane, values, imports) ==
    [lane EXCEPT !.inputs = SubSeq(@, 1, graph.inputs) \o [k \in DOMAIN imports |-> values[imports[k]]]]
RoundedRoots(values, computed, roots) ==
    [id \in DOMAIN values |-> IF id \in Range(roots) THEN Rounded[computed[id]] ELSE values[id]]
Substituted(imports) ==
    [id \in DOMAIN graph.nodes |->
        IF id \in {planning.canonical.mapped[imports[k]] : k \in DOMAIN imports}
        THEN Leaf("input", graph.inputs + (CHOOSE k \in DOMAIN imports : planning.canonical.mapped[imports[k]] = id))
        ELSE graph.nodes[id]]
AfterRegion(values, r, lane) ==
    RoundedRoots(values, Evaluate(Substituted(r.imports), RegionLane(lane, values, r.imports)), r.roots)
RegionValues(lane) ==
    FoldLeft(LAMBDA values, group : AfterRegion(values, RegionAt(group), lane),
             [id \in DOMAIN graph.nodes |-> Undefined], regions.emitted)
ImportsAreOpaque ==
    stage = "done" =>
        \A lane \in Lanes :
            Run(program, graph, lane, Rounded)
                = [slot \in DOMAIN graph.outputs |-> RegionValues(lane)[graph.outputs[slot]]]
===============================================================================
