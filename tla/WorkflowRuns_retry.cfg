CONSTANTS
    a = a
    b = b
    m = m
    Nodes = {a, m}
    Edges <- Chain
    Media = {m}
    Images = {a}
    Drivers = {d1}
    Sweeper = sweeper
    None = none
    Slots = 1
    Requests = {"retry"}
    Retryable = {"failed"}
    Early = FALSE
    Faults = {}
    MaxMishaps = 0
    MaxRetries = 1
SPECIFICATION Spec
CHECK_DEADLOCK FALSE
INVARIANT RetryIsHeard
