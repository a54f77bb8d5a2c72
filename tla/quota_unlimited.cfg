SPECIFICATION Spec
CONSTANTS
  r1 = r1  r2 = r2  a1 = a1  a2 = a2
  Runs = {r1}
  Admins = {}
  NPlans = 1
  Entities = {1}
  InitRows <- Unlimited
  NewRows = {}
  Changes = {}
  ResetQuotas = {}
  MaxSpend = 0
  MaxOps = 0
  Faults = {}
  MaxFaults = 0
  Token <- MCToken
  Days <- MCDays
  MonthStarts <- MCMonthStarts
  RmbScale = 2
  Sentinel = 9
CHECK_DEADLOCK FALSE
PROPERTY UnlimitedNeverReset
