CONSTANTS
    Keys <- FourKeys
    Values = {8, 9}
    Hash <- Hashes
    InitialCapacity = 1
    MaxCapacity = 8
SPECIFICATION Spec
INVARIANT Reachable
PROPERTY IsDictionary
