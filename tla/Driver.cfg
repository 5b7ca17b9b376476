CONSTANTS
    r1 = r1  r2 = r2  r3 = r3
    None = None
    Runs = {r1, r2, r3}
    Commands <- MCCommands
    CNames = {"a.c"}
    HNames = {"a.h"}
    Names = {"a.tc", "app", "ast", "b", "c"}
    Path = {"gcc", "tigc"}
SPECIFICATION Spec
INVARIANTS OwnProgram NothingLeft OutputKept
CHECK_DEADLOCK FALSE
