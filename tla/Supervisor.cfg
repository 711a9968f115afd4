CONSTANTS
    Executions = {"e1", "e2"}
    Heartbeats = {"e1"}
    Live = {"e1"}
    StallPolicy <- MCStallPolicy
    Faults <- MCFaults
SPECIFICATION FairSpec
INVARIANTS TypeOK StoppedBeforeRelease OverlapOnlyAfterExpiry OutcomeTruthful
PROPERTIES Concludes
CHECK_DEADLOCK FALSE
VIEW ExecutionView
