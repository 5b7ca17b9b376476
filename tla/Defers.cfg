CONSTANTS
    ArmRet = ArmRet
    Blocks = {1, 2, 3, 4, 5, 6}
    Functions <- Texts
SPECIFICATION Spec
INVARIANTS Guaranteed CleanupIsLast ReleasedOnce
CHECK_DEADLOCK FALSE
