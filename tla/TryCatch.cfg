CONSTANTS
    A = A  B = B
    Errors = {A, B}
    Wildcard = W
    ArmLists <- Clauses
    NULL = NULL
    MaxDepth = 2
    MaxTries = 3
SPECIFICATION Spec
INVARIANTS NeverSkipsHandler HandlerIsInnermost StrayThrowExplained SecondArmExplained
CHECK_DEADLOCK FALSE
