\* Two requests for the same orders, in flight together.
CONSTANTS
    first = first
    retry = retry
    other = other
    empty = empty
    p1 = p1
    p2 = p2
    o1 = o1
    o2 = o2
    o3 = o3
    k1 = k1
    k2 = k2
    in1 = in1
    in2 = in2
    cfg1 = cfg1
    NoOrder = NoOrder
    NoPartner = NoPartner
    NoRequest = NoRequest
    Requests <- ThreeRequests
    Keys <- MCKeys
    Partners <- MCPartners
    Orders <- MCOrders
    Inputs <- MCInputs
    Configs <- MCConfigs
    Plan <- MCPlan
    KeyOf <- MCKeyOf
    InputOf <- MCInputOf
    ConfigOf <- MCConfigOf
    BadRequests <- None
    BadDates <- None
    Ttl = 2
    MaxOrders = 2
    SerialClients = FALSE
    MaxRestarts = 0
SPECIFICATION Spec
INVARIANT Exclusion
CHECK_DEADLOCK FALSE
