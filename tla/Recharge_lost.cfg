CONSTANTS
    Tasks = {n1}
    SignupGrant = 1
    MaxCost = 1
    Deltas = {2}
    Settings = {}
    Ops = {}
    Faults = {"db"}
    MaxOps = 2
    MaxMishaps = 1
    Notifiers = {n1}
    Orders = {o1}
    Trades = {a}
    None = none
    Amount = 2
SPECIFICATION RechargeSpec
CHECK_DEADLOCK FALSE
INVARIANT SuccessMeansPaid
