SPECIFICATION Spec
CONSTANTS
    Sessions <- PlainSessions
    Tasks <- OneTask
    RawPathLists <- OneList
    TTLs = {1}
    Artifacts = {"a1"}
    ClaimModes = {"exclusive_write"}
    Calls <- RenewCalls
    MaxCrashes = 0
    MaxClock = 1
    MaxEvents = 3
PROPERTIES RenewalKeepsMode
CHECK_DEADLOCK FALSE
