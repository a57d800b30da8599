--------------------------- MODULE PointwiseProgram ---------------------------
(***************************************************************************)
(* The program of src/src/pointwise_program.rs: the operations of every    *)
(* region, with registers.  A value that leaves its region is copied to a  *)
(* register of its own, which no later region reuses; the other registers  *)
(* are free again after the last use of what they hold.                    *)
(***************************************************************************)
EXTENDS PointwiseLowering

EXPANSION == 8

(* Registers: how many there are, and a stack of the free ones.            *)
Unassigned == 0
NoRegisters == [count |-> 0, free |-> <<>>]
allocate(registers) == IF registers.free = <<>> THEN registers.count + 1 ELSE Last(registers.free)
Allocated(registers) ==
    IF registers.free = <<>> THEN [registers EXCEPT !.count = @ + 1]
    ELSE [registers EXCEPT !.free = Front(@)]

\* The last consumer of every operation; roots live until the export, and
\* what has no consumer is dead.
Dead == 0
last_uses(operations, roots) ==
    FoldRight(LAMBDA id, last :
                 IF last[id] = Dead THEN last
                 ELSE [a \in DOMAIN operations |->
                         IF a \in Range(operations[id].args) THEN Max({last[a], id}) ELSE last[a]],
              Ids(operations),
              [id \in DOMAIN operations |-> IF id \in Range(roots) THEN Len(operations) + 1 ELSE Dead])

(* A program under construction: its instructions, the registers, the      *)
(* register every value was exported to, and the first complaint.          *)
NotExported == 0
Start(nodes) == [instructions |-> <<>>, registers |-> NoRegisters,
                 exports |-> [id \in 1 .. nodes |-> NotExported], error |-> "none"]
Refuse(p, condition, error) == IF condition /\ p.error = "none" THEN [p EXCEPT !.error = error] ELSE p

Instruction(op, destination, args, leaf) == [op |-> op, to |-> destination, args |-> args, leaf |-> leaf]
encode(operation, destination, assigned, exports) ==
    IF operation.op = "import" THEN Instruction("copy", destination, <<exports[operation.leaf]>>, 0)
    ELSE Instruction(operation.op, destination, [k \in DOMAIN operation.args |-> assigned[operation.args[k]]],
                     operation.leaf)

\* The operands used for the last time give their registers back, once.
FreeOperands(q, id, args, last) ==
    FoldLeft(LAMBDA r, a : IF last[a] = id /\ r.assigned[a] # Unassigned
                           THEN [r EXCEPT !.registers.free = Append(@, r.assigned[a]), !.assigned[a] = Unassigned]
                           ELSE r, q, args)

AppendOperation(q, id, operation, last) ==
    IF last[id] = Dead THEN q
    ELSE FreeOperands([q EXCEPT !.registers = Allocated(q.registers),
                                !.assigned[id] = allocate(q.registers),
                                !.instructions = Append(@, encode(operation, allocate(q.registers), q.assigned, q.exports))],
                      id, operation.args, last)

AppendOperations(p, operations, last) ==
    FoldLeft(LAMBDA q, id : AppendOperation(q, id, operations[id], last),
             [instructions |-> p.instructions, registers |-> p.registers, exports |-> p.exports,
              assigned |-> [id \in DOMAIN operations |-> Unassigned]], Ids(operations))

\* A root is copied to a register of its own, and stored if it is returned.
Stores(outputs, original, register) ==
    IF original \notin Range(outputs) THEN <<>>
    ELSE <<Instruction("store", CHOOSE slot \in DOMAIN outputs : outputs[slot] = original, <<register>>, 0)>>
ExportTo(q, original, from, register, outputs) ==
    [q EXCEPT !.registers = Allocated(@), !.exports[original] = register,
              !.instructions = @ \o <<Instruction("copy", register, <<from>>, 0)>> \o Stores(outputs, original, register)]
Export(q, original, lowered, outputs) ==
    ExportTo(q, original, q.assigned[lowered], allocate(q.registers), outputs)

\* Temporaries still assigned are free for the next region.
Leftover(assigned) == SelectSeq(assigned, LAMBDA register : register # Unassigned)
Released(p, q) ==
    [p EXCEPT !.instructions = q.instructions, !.exports = q.exports,
              !.registers = [q.registers EXCEPT !.free = @ \o Leftover(q.assigned)]]

Exported(p, r, lowered, graph) ==
    Released(p, FoldLeft(LAMBDA q, k : Export(q, r.roots[k], lowered.roots[k], graph.outputs),
                         AppendOperations(p, lowered.operations, last_uses(lowered.operations, lowered.roots)),
                         Ids(r.roots)))
AppendLowered(p, r, lowered, graph) ==
    IF Len(lowered.operations) > EXPANSION * Len(graph.nodes)
    THEN Refuse(p, TRUE, "numerical normalization exceeded its structural bound")
    ELSE Exported(p, r, lowered, graph)

ImportsEarlier(p, imports) ==
    /\ \A k \in DOMAIN imports : p.exports[imports[k]] # NotExported
    /\ Cardinality(Range(imports)) = Len(imports)
DistinctRoots(p, roots) ==
    /\ roots # <<>>
    /\ \A k \in DOMAIN roots : p.exports[roots[k]] = NotExported
    /\ Cardinality(Range(roots)) = Len(roots)

\* lowered is what region makes of r.
append_region(p, r, lowered, graph) ==
    IF ~DistinctRoots(p, r.roots) THEN Refuse(p, TRUE, "region must export distinct original roots")
    ELSE IF ~ImportsEarlier(p, r.imports) THEN Refuse(p, TRUE, "import must name an earlier export")
    ELSE AppendLowered(p, r, lowered, graph)

(* The checks of a finished program.                                       *)
\* The registers written before the instruction at a place.
Initialized(instructions, place) ==
    {instructions[k].to : k \in {j \in 1 .. place - 1 : instructions[j].op # "store"}}
validate_program(p, graph) ==
    /\ p.instructions # <<>>
    /\ Len(p.instructions) <= EXPANSION * Len(graph.nodes) * Len(graph.nodes) + 2 * Len(graph.nodes) + Len(graph.outputs)
    /\ p.registers.count \in 1 .. (EXPANSION + 1) * Len(graph.nodes) + Len(graph.outputs)
    /\ \A k \in DOMAIN p.instructions :
          /\ Range(p.instructions[k].args) \subseteq Initialized(p.instructions, k)
          /\ p.instructions[k].op # "store" => p.instructions[k].to \in 1 .. p.registers.count
    /\ \A slot \in DOMAIN graph.outputs :
          Cardinality({k \in DOMAIN p.instructions : p.instructions[k].op = "store" /\ p.instructions[k].to = slot}) = 1
Finished(p, graph) ==
    Refuse(Refuse(p, \E slot \in DOMAIN graph.outputs : p.exports[graph.outputs[slot]] = NotExported,
                  "plan omitted a computed output"),
           ~validate_program(p, graph), "invalid program")

(* Execution, one lane at a time.                                          *)
Product(leaf, a, b) == IF leaf % 2 = 1 THEN -(a * b) ELSE a * b
FusedValue(leaf, args, registers) ==
    Residue(Product(leaf, registers[args[1]], registers[args[2]])
            + (IF Len(args) = 2 THEN 0 ELSE IF leaf >= 2 THEN -registers[args[3]] ELSE registers[args[3]]))
InstructionValue(i, registers, lane) ==
    CASE i.op = "copy" -> registers[i.args[1]]
      [] i.op = "flip" -> Residue(-registers[i.args[1]])
      [] i.op = "fma" -> FusedValue(i.leaf, i.args, registers)
      [] OTHER -> NodeValue(i, registers, lane)
\* A value leaves its region in the last instruction that writes to the
\* register it is exported to; round says how it is rounded there.
Exporting(p, k) ==
    /\ p.instructions[k].to \in Range(p.exports)
    /\ \A j \in (k + 1) .. Len(p.instructions) :
          p.instructions[j].op = "store" \/ p.instructions[j].to # p.instructions[k].to
Execute(i, machine, lane, rounds, round) ==
    IF i.op = "store" THEN [machine EXCEPT !.outputs[i.to] = machine.registers[i.args[1]]]
    ELSE IF rounds THEN [machine EXCEPT !.registers[i.to] = round[InstructionValue(i, machine.registers, lane)]]
    ELSE [machine EXCEPT !.registers[i.to] = InstructionValue(i, machine.registers, lane)]

\* Registers hold anything at first.
Undefined == -1
Run(p, graph, lane, round) ==
    FoldLeft(LAMBDA machine, k : Execute(p.instructions[k], machine, lane, Exporting(p, k), round),
             [registers |-> [register \in 1 .. p.registers.count |-> Undefined],
              outputs |-> [slot \in DOMAIN graph.outputs |-> Undefined]], Ids(p.instructions)).outputs
===============================================================================
