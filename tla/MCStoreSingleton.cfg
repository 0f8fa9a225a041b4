\* Requests of a fresh process, and of one whose store exists.
CONSTANTS
    c1 = c1
    c2 = c2
    c3 = c3
    NoStore = NoStore
    Nobody = Nobody
    Early = Early
    Callers <- ThreeCallers
SPECIFICATION Spec
INVARIANT WarmExclusion
INVARIANT LiveStoreIsClean
CHECK_DEADLOCK FALSE
