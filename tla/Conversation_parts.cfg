CONSTANTS
    k1 = k1
    k2 = k2
    m1 = m1
    a1 = a1
    r1 = r1
    r2 = r2
    p1 = p1
    s1 = s1
    ch1 = ch1
    ch2 = ch2
    q1 = q1
    q2 = q2
    Channels = {1, 2}
    Tier <- OneTier
    Conns = {k1, k2}
    Wire <- Wires
    Models = {m1}
    WireOf <- WireM
    Names = {m1, a1}
    Unbound = unbound
    Routers = {r1, r2}
    RouteOf <- RouteM
    Pruners = {p1}
    Syncs = {s1}
    Ttl = 2
    ErrorTtl = 1
    Limit = 1
    MaxEdits = 2
    MaxShifts = 1
    Chats = {ch1, ch2}
    Body <- Bodies
    MaxPending = 3
    ChainLength = 2
    StreamFaults = {"client", "upstream", "crash", "db"}
    MaxTroubles = 1
    MaxFlips = 1
    Calls = {q1, q2}
    Passes = {p1, s1}
    MaxRuns = 2
    MaxEntries = 2
    TurnFaults = {"db", "exit", "timeout", "drop", "crash"}
    MaxAccidents = 1
    Questions = {q1}
    Clients = {r1, r2}
    Buffer = 2
    MaxNoise = 2
    DialogFaults = {"drop", "transport", "exit"}
    MaxSlips = 1
SPECIFICATION ConversationSpec
CHECK_DEADLOCK FALSE
INVARIANT AvailabilitySound
INVARIANT DisabledStays
INVARIANT UsageIsCharged
INVARIANT MirrorIsWhole
INVARIANT StatusExplained
INVARIANT AskedAndAnswered
PROPERTY RoutedFresh
