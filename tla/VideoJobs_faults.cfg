CONSTANTS
    j1 = j1
    Jobs = {j1}
    Handlers = {h1}
    Sweeper = sweeper
    Files = {f1, f2}
    None = none
    JobOf <- OfOneJob
    InitBalance = 3
    Cost = 2
    MaxRetries = 2
    PostLimit = 4
    PollLimit = 4
    Requests = {"create", "poll", "delete"}
    Faults = {"db", "store", "disconnect", "crash"}
    MaxMishaps = 1
SPECIFICATION FairSpec
CHECK_DEADLOCK FALSE
INVARIANT MoneySafe
INVARIANT PaidWork
INVARIANT OneFilePerJob
PROPERTY FailedIsFinal
PROPERTY NothingStaysBusy
