CONSTANTS
    r1 = r1
    r2 = r2
    c1 = c1
    c2 = c2
    u1 = u1
    laptop = laptop
    Addresses = {a1}
    Most = 2
    Window = 2
    Horizon = 7
    Requests = {r1, r2}
    NameOf <- Names
    Invited = {r1, r2}
    Pays <- Settings
    Letters = {1, 2}
    MaxAttempts = 1
    RegFaults = {"db", "drop", "mail"}
    RegMishaps = 1
    People = {p1, p2}
    Founders = {p1, p2}
    Logins = {1}
    Removals = {1, 2}
    Resets = {1}
    Nobody = nobody
    AccFaults = {"db", "drop"}
    AccMishaps = 1
    Codes = {c1, c2}
    Polls = {1, 2}
    CodeOf <- PollsOf
    Accounts = {u1, u2}
    Pages = {3, 4}
    By <- MadeBy
    NoOne = noone
    TokenCap = 1
    CliFaults = {"db", "drop", "lost", "crash"}
    CliMishaps = 1
    Machines = {laptop}
    Sockets = {1, 2}
    Of <- AllOnLaptop
    Runs = {1, 2}
    RunOf <- AllOnLaptop
    Nothing = nothing
    Cap = 1
    Others = 1
    DeviceFaults = {"cut", "db", "disk", "wrong"}
    Events = 1
SPECIFICATION AccessSpec
CHECK_DEADLOCK FALSE
INVARIANT TwiceAtMost
INVARIANT RegistrationExplained
INVARIANT SomebodyAdministers
INVARIANT ResetEndsSessions
INVARIANT TokensExplained
INVARIANT RegistrySound
INVARIANT CapExplained
 
PROPERTY ForgetsOnlyRefused
