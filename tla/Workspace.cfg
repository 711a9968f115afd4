SPECIFICATION Spec
CONSTANTS
    s1 = s1
    s2 = s2
    Services = {"svc"}
    Sessions <- TwoSessions
    Faults = {"save", "append", "torn", "rollback", "git", "crash"}
INVARIANTS TypeOK LedgerAgrees TreeRecorded SingleReceipt
PROPERTIES UnsavedWorkKept
SYMMETRY SessionSymmetry
VIEW LedgerView
