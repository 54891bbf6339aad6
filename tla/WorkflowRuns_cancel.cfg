CONSTANTS
    a = a
    b = b
    m = m
    Nodes = {a, b, m}
    Edges <- Merge
    Media = {m}
    Images = {a}
    Drivers = {d1}
    Sweeper = sweeper
    None = none
    Slots = 1
    Requests = {"cancel", "deleteChild"}
    Retryable = {}
    Early = FALSE
    Faults = {"crash"}
    MaxMishaps = 1
    MaxRetries = 0
SPECIFICATION FairSpec
CHECK_DEADLOCK FALSE
INVARIANT NothingRunsAhead
INVARIANT ReportsRight
PROPERTY CancelStops
PROPERTY EveryRunEnds
