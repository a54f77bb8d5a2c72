SPECIFICATION FairSpec
CONSTANTS
    Batches = {b1}
    Plans = {q1}
    Jobs = {j1}
    Callers = {c1}
    Reserve <- UnitReserve
    Fetched = {}
    Keyless = {}
    Faults = {"expire", "provider_fail"}
    MaxCrashes = 1
    EarlyCancel = TRUE
    None = None

    
PROPERTIES
    EventuallySettled
    ReserveReturned
    CancelReissued
