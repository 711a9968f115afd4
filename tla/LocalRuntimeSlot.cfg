CONSTANTS
    Ops = {"a", "b"}
    MaxTurns = 1
    Faults = {"cancel", "abandon", "unload"}
SPECIFICATION FairSpec
PROPERTIES SlotFreed
CHECK_DEADLOCK FALSE
