SPECIFICATION FairSpec
CONSTANTS
    Batches = {b1}
    Plans = {q1}
    Jobs = {j1}
    Callers = {}
    Reserve <- UnitReserve
    Fetched = {b1}
    Keyless = {b1}
    Faults = {}
    MaxCrashes = 0
    EarlyCancel = FALSE
    None = None
PROPERTY EventuallySettled
