CONSTANTS
    Tasks = {t1, t2}
    SignupGrant = 1
    MaxCost = 2
    Deltas <- Adjustments
    Settings = {0, 2}
    Ops = {"chat", "call", "grant", "set"}
    Faults = {"db", "disconnect", "crash"}
    MaxOps = 4
    MaxMishaps = 1
SPECIFICATION Spec
SYMMETRY Interchangeable
CHECK_DEADLOCK FALSE
 
INVARIANT BooksBalance
