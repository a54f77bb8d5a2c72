SPECIFICATION Spec
CONSTANTS
  r1 = r1  r2 = r2  a1 = a1  a2 = a2
  Runs = {}
  Admins = {a1}
  NPlans = 2
  Entities = {1}
  InitRows <- Mixed
  NewRows <- Mixed
  Changes <- AllChanges
  ResetQuotas <- AnyReset
  MaxSpend = 2
  MaxOps = 3
  Faults = {}
  MaxFaults = 0
  Token <- MCToken
  Days <- MCDays
  MonthStarts <- MCMonthStarts
  RmbScale = 2
  Sentinel = 9
INVARIANTS
    BalanceWithinGrant
CHECK_DEADLOCK FALSE
