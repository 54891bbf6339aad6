CONSTANTS
    j1 = j1
    j2 = j2
    j3 = j3
    s3 = s3
    None = none
    Jobs <- Three
    Buckets = {s3}
    Objects <- ThreeObjects
    Kinds <- AnyKind
    Prices = {0, 2}
    MaxAttempts = 1
    MaxFiles = 2
    Slots = 1
    Faults = {"db", "disconnect", "crash", "store"}
    MaxMishaps = 1
    MaxChanges = 1
SPECIFICATION CastSpec
CHECK_DEADLOCK FALSE
INVARIANT MediaMoneyExplained
INVARIANT FilesMatchRows
PROPERTY EveryMediaJobEnds
