SPECIFICATION FairSpec
CONSTANTS
    Ids = {1, 2}
    Kinds = {"exec", "note", "unknown_tool", "unsupported"}
    Priorities = {0, 1}
    DepSets <- FewDeps
    Runners = {"r1"}
    Shared = TRUE
    Reuse = FALSE
    Crashes = TRUE
    Faults = {"partial"}
    MaxExecs = 2
INVARIANTS TypeOK RunsAfterDependencies ExecutedOnce RunningIsOwned
PROPERTIES Drains
CHECK_DEADLOCK FALSE
