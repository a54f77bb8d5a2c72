SPECIFICATION Spec
CONSTANTS
    Batches = {b1}
    Plans = {q1}
    Jobs = {j1}
    Callers = {c1}
    Reserve <- UnitReserve
    Fetched = {}
    Keyless = {}
    Faults = {"provider_fail", "db_fail", "redis_fail", "decr_fail", "lock_lost", "expire", "forget"}
    MaxCrashes = 0
    EarlyCancel = FALSE
    None = None
INVARIANTS
    TypeOK

    
