CONSTANTS
    j1 = j1
    Jobs = {j1}
    Handlers = {h1, h2}
    Sweeper = sweeper
    Files = {f1, f2}
    None = none
    JobOf <- OfOneJob
    InitBalance = 3
    Cost = 2
    MaxRetries = 2
    PostLimit = 1
    PollLimit = 2
    Requests = {"create", "custom", "poll"}
    Faults = {}
    MaxMishaps = 0
SPECIFICATION FairSpec
CHECK_DEADLOCK FALSE
PROPERTY ImplementsEscrow
PROPERTY PaymentResolved
