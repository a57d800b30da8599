SPECIFICATION Spec
CONSTANTS
    Starts <- MCStarts
    MaxRank = 4
    MaxLength = 8
    MaxCalls = 2
VIEW State
INVARIANTS ViewsStayInStorage GradientsFollowValues ViewIffRepresentable LayoutsArePacked PlansMatchExecution
PROPERTY OperatorsDenote
CHECK_DEADLOCK FALSE
