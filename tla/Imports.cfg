CONSTANTS
    Words <- AllWords
    Dirs = {"", "lib"}
    Names = {"a", "b", "c"}
    Disks <- AllDisks
    CommandLines <- AllLines
    MaxExpand = 10
    MaxStack = 4
    Gone = "gone"
SPECIFICATION Spec
INVARIANTS TypesFlowDown TypesPreregistered Spliced ReadOnce DriftExplained
PROPERTY Terminates
CHECK_DEADLOCK FALSE
