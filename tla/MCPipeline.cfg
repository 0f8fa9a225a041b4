\* Capacity and loads, with two rows for one partner.
CONSTANTS
    NumOrders = 2
    NumRows = 3
    PartnerId <- MCPartnerId
    Payloads <- MCPayloads
    CapacityOn = TRUE
    MaxActive = 2
    FairWeight = 1
    One = 6
    Grain = 4
SPECIFICATION Spec
INVARIANT TypeOK
INVARIANT CapacityRespected
INVARIANT EligibleFromTheStart
INVARIANT BestUnderCurrentLoads
INVARIANT OnlyNearTiesGoFirst
CHECK_DEADLOCK FALSE
