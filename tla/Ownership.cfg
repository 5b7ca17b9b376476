CONSTANTS
    Variables = {"x"}
    Kinds <- AllKinds
    MaxBlocks = 3
    MaxVars = 2
    MaxFns = 2
SPECIFICATION CheckSpec
INVARIANTS DeadExactly NoMissedUse
CHECK_DEADLOCK FALSE
