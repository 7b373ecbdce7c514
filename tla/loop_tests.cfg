CONSTANTS
  d1 = d1
  d2 = d2
  t1 = t1
  t2 = t2
  k1 = k1
  k2 = k2
  c1 = c1
  c2 = c2
  Gone = Gone
  Unlocked = Unlocked
  NotLocked = NotLocked
  NoLock = NoLock
  BadLock = BadLock
  NoCap = NoCap
  NoLedger = NoLedger
  BadLedger = BadLedger
  GarbledLedger = GarbledLedger
  Tests = {t1}
  Contents = {c1, c2}
  Drivers = {d1}
  Tasks = {k1}
  Costs = {0}
  Budgets <- Wide
  Mischief = {"block", "untick", "test", "approve", "lock", "move"}
  MaxRuns = 2
  MaxHistory = 1
  Kills = TRUE
SPECIFICATION Spec
INVARIANTS
  TypeOK
  LedgerLagsOnePerRun
PROPERTIES
  DoneMeansUntouched
  NoAgentPastAStop
  ArchivedAsApproved
CHECK_DEADLOCK FALSE
