SPECIFICATION FairSpec
CONSTANTS
  r1 = r1  r2 = r2  a1 = a1  a2 = a2
  Runs = {r1, r2}
  Admins = {a1}
  NPlans = 1
  Entities = {}
  InitRows <- Periodic
  NewRows = {}
  Changes <- Raise
  ResetQuotas = {}
  MaxSpend = 0
  MaxOps = 1
  Faults = {"crash", "commit_fail", "lock_lost", "db_fail", "redis_fail"}
  MaxFaults = 2
  Token <- MCToken
  Days <- MCDays
  MonthStarts <- MCMonthStarts
  RmbScale = 2
  Sentinel = 9
PROPERTY DueIsReset
