\* The first requests of a fresh process.
CONSTANTS
    c1 = c1
    c2 = c2
    c3 = c3
    NoStore = NoStore
    Nobody = Nobody
    Early = Early
    Callers <- ThreeCallers
SPECIFICATION Spec
INVARIANT PartnerHeldOnce
CHECK_DEADLOCK FALSE
