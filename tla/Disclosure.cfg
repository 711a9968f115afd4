CONSTANTS
    s1 = s1
    s2 = s2
    Procs = {p1, p2}
    Auths = {"auth"}
    Scope <- MCScope
    MaxUses <- MCMaxUses
    Tids = {t1, t2}
    Requests = {s1, s2}
    Listed = {s1}
    Faults = {"receipt", "manifest", "event"}
    MaxEvents = 9
    Unscoped = Unscoped
    None = None
SPECIFICATION Spec
SYMMETRY Symmetry
INVARIANTS TypeOK EachEventItsOwnUse EventIsMarked CompletedIsDisclosed CompletedOnce
CHECK_DEADLOCK FALSE
