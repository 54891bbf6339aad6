CONSTANTS
    a = a
    b = b
    m = m
    Nodes = {a, m}
    Edges <- Chain
    Media = {m}
    Images = {a}
    Drivers = {d1}
    Sweeper = sweeper
    None = none
    Slots = 1
    Requests = {"retry"}
    Retryable = {"failed", "blocked"}
    Early = TRUE
    Faults = {"crash", "db"}
    MaxMishaps = 1
    MaxRetries = 1
SPECIFICATION Spec
CHECK_DEADLOCK FALSE
INVARIANT ClaimedOnce
PROPERTY ResultsStand
