\* The store implements the lease table, with a wall clock that is stepped.
CONSTANTS
    p1 = p1
    p2 = p2
    o1 = o1
    o2 = o2
    NoOrder = NoOrder
    Partners <- MCPartners
    Orders <- MCOrders
    Ttl = 2
    MaxTime = 4
    WallSteps <- MCWallSteps
SPECIFICATION Spec
INVARIANT TypeOK
INVARIANT TruthfulReply
PROPERTY CallsImplementLease
PROPERTY ImplementsLease
PROPERTY ReportedExpiryIsReal
CHECK_DEADLOCK FALSE
