SPECIFICATION Spec
CONSTANTS
  r1 = r1  r2 = r2  a1 = a1  a2 = a2
  Runs = {r1, r2}
  Admins = {a1}
  NPlans = 2
  Entities = {}
  InitRows <- Periodic
  NewRows <- Weekly
  Changes <- Raise
  ResetQuotas = {}
  MaxSpend = 0
  MaxOps = 2
  Faults = {"lock_lost", "db_fail"}
  MaxFaults = 1
  Token <- MCToken
  Days <- MCDays
  MonthStarts <- MCMonthStarts
  RmbScale = 2
  Sentinel = 9
INVARIANTS
    OncePerPeriod
    ResetMutex
    NoOrphanKey
PROPERTIES
    ClaimFreezesRow
