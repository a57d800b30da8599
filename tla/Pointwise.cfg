SPECIFICATION Spec
CONSTANTS
    SharedOperations = 3
    SharedReads = 1
    AccumulatedReads = 2
    RecursionLimit = 4
    GroupLimit = 2
    MinimumBytes = 10
    Families <- MCFamilies
    Lanes <- MCLanes
INVARIANTS
    CompilesEveryGraph
    ProgramComputesGraph
    ImportsAreOpaque
CHECK_DEADLOCK FALSE
