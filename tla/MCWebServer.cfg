SPECIFICATION Spec
CONSTANTS
  t1 = t1
  t2 = t2
  Threads <- MCThreads
  Ips = {1, 2, 3}
  Bodies <- MCBodies
  Cidrs <- MCCidrs
  MaxDevices = 2
  MaxCidrs = 1
  MaxHosts = {2, 3}
  MaxJobs = 1
  Concurrency = 2
  Values = {0, 1, 2}
  Budgets <- MCBudgets
CHECK_DEADLOCK FALSE
INVARIANTS
  TypeOK
  SettingsAreSaved
  DoneScansAreComplete
  LimitHolds
PROPERTIES
  WorkIsFinished
