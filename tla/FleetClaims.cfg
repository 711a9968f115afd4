SPECIFICATION Spec
CONSTANTS
    p1 = p1  p2 = p2  c1 = c1  c2 = c2  c3 = c3  w1 = w1  w2 = w2  s1 = s1
    Procs = {p1, p2}
    Stores = {p1, p2}
    StoreOf <- OwnStore
    Claims = {c1, c2}
    Authorities = {w1, w2}
    RawPathSets <- TwoPaths
    Bases <- NoBase
    TTLs = {1}
    Calls <- AcquireAndEnd
    Faults = {"partial", "unterminated", "replay", "sequence", "digest"}
    MaxClock = 1
    MaxEvents = 3
    MaxMissed = 1
    NoProc = NoProc
    NoClaim = NoClaim
SYMMETRY Symmetry
INVARIANTS TypeOK ExclusiveWrite OrderedChain ResultsRecorded PointerRecorded ReplayMatches
CHECK_DEADLOCK FALSE
