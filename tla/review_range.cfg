CONSTANTS
  c1 = c1
  c2 = c2
  t1 = t1
  t2 = t2
  v1 = v1
  v2 = v2
  Gone = Gone
  Unlocked = Unlocked
  NotLocked = NotLocked
  NoLock = NoLock
  BadLock = BadLock
  Changes = {c1}
  Tests = {t1}
  Contents = {v1, v2}
  ByHand = FALSE
  MaxSteps = 5
  MaxMerges = 1
  MaxHistory = 1
SPECIFICATION Spec
INVARIANT NothingUnseen
CHECK_DEADLOCK FALSE
