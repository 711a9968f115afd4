CONSTANTS
    Executions = {"e1", "e2"}
    Heartbeats = {}
    Live = {}
    StallPolicy <- MCStallPolicy
    Faults <- NoFaults
SPECIFICATION Spec
INVARIANTS OneActiveLease
CHECK_DEADLOCK FALSE
