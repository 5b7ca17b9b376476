CONSTANTS
    b1 = b1  b2 = b2  b3 = b3
    p = p  q = q
    None = None
    Builders = {b1, b2, b3}
    Fns = {p, q}
    Exports <- DropsFn
    MaxVersion = 4
    MaxReckless = 2
SPECIFICATION FairSpec
INVARIANTS StubsMatchLibrary FaultExplained NeverWritesMappedLibrary
PROPERTIES NeverDeletesPublished FreshBuildIsPickedUp
CHECK_DEADLOCK FALSE
