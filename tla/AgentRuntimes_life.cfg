CONSTANTS
    s1 = s1
    s2 = s2
    Starts = {s1, s2}
    Teardowns = {delete}
    Deletes = {delete}
    None = none
    Sandboxed = TRUE
    Faults = {"start", "disconnect", "crash", "db", "docker"}
    MaxMishaps = 1
SPECIFICATION FairSpec
INVARIANT LiveIsPaid
INVARIANT NoFork
INVARIANT StopRetires
PROPERTY NothingLingers
