SPECIFICATION FairSpec
CONSTANTS
    p1 = p1  p2 = p2  c1 = c1  c2 = c2  c3 = c3  w1 = w1  w2 = w2  s1 = s1
    Procs = {p1, p2}
    Stores = {s1}
    StoreOf <- SharedStore
    Claims = {c1, c2}
    Authorities = {w1}
    RawPathSets <- OnePath
    Bases <- OneHash
    TTLs = {1, 2}
    Calls <- Lifecycle
    Faults = {"replay", "flock"}
    MaxClock = 1
    MaxEvents = 3
    MaxMissed = 1
    NoProc = NoProc
    NoClaim = NoClaim
VIEW LedgerView
INVARIANTS ReplayMatches
PROPERTIES NoResurrection LockReleased
CHECK_DEADLOCK FALSE
