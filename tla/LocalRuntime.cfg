CONSTANTS
    Ops = {"a", "b"}
    MaxTurns = 2
    Faults = {"evidence", "engine", "cancel", "abandon", "unload", "slow", "secrets"}
SPECIFICATION Spec
INVARIANTS TypeOK EndedFreesSlot CompletedHasEvidence StreamsTracked
CHECK_DEADLOCK FALSE
