CONSTANTS
    Tasks = {n1, n2, c1}
    SignupGrant = 1
    MaxCost = 1
    Deltas = {2}
    Settings = {}
    Ops = {"call"}
    Faults = {"db", "disconnect", "crash"}
    MaxOps = 3
    MaxMishaps = 1
    Notifiers = {n1, n2}
    Orders = {o1, o2}
    Trades = {a}
    None = none
    Amount = 2
SPECIFICATION RechargeFairSpec
CHECK_DEADLOCK FALSE
INVARIANT OneCreditPerTrade
PROPERTY PaidIsCredited
