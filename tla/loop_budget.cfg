CONSTANTS
  d1 = d1
  d2 = d2
  t1 = t1
  t2 = t2
  k1 = k1
  k2 = k2
  c1 = c1
  c2 = c2
  Gone = Gone
  Unlocked = Unlocked
  NotLocked = NotLocked
  NoLock = NoLock
  BadLock = BadLock
  NoCap = NoCap
  NoLedger = NoLedger
  BadLedger = BadLedger
  GarbledLedger = GarbledLedger
  Tests = {}
  Contents = {c1, c2}
  Drivers = {d1}
  Tasks = {k1, k2}
  Costs = {0, 1}
  Budgets <- Small
  Mischief = {"ledger", "block"}
  MaxRuns = 3
  MaxHistory = 1
  Kills = FALSE
SPECIFICATION FairSpec
INVARIANTS
  LedgerComplete
  ThreeIdleStop
PROPERTIES
  BudgetKept
  EveryLoopEnds
CHECK_DEADLOCK FALSE
