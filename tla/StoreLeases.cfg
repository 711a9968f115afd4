SPECIFICATION Spec
CONSTANTS
    Sessions <- MixedSessions
    Tasks <- MixedTasks
    RawPathLists <- NestedLists
    TTLs = {1}
    Artifacts = {"a1"}
    ClaimModes = {"exclusive_write", "shared_read"}
    Calls <- LeaseCalls
    MaxCrashes = 0
    MaxClock = 2
    MaxEvents = 3
INVARIANTS TypeOK LeaseExclusion StaleReported
PROPERTIES KeepsPromise
CHECK_DEADLOCK FALSE
