SPECIFICATION Spec
CONSTANTS
    Batches = {b1}
    Plans = {q1}
    Jobs = {j1, j2}
    Callers = {}
    Reserve <- UnitReserve
    Fetched = {b1}
    Keyless = {}
    Faults = {"lock_lost", "provider_fail"}
    MaxCrashes = 0
    EarlyCancel = FALSE
    None = None
INVARIANTS
    SettleExclusive
    SettledOnce
