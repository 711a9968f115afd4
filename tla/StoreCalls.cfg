SPECIFICATION Spec
CONSTANTS
    Sessions <- PlainSessions
    Tasks <- OneTask
    RawPathLists <- OneList
    TTLs = {1}
    Artifacts = {"a1"}
    ClaimModes = {"exclusive_write", "shared_read"}
    Calls <- EveryCall
    MaxCrashes = 1
    MaxClock = 2
    MaxEvents = 3
INVARIANTS LoggedIsWritten
PROPERTIES TaskNotStolen
CHECK_DEADLOCK FALSE
