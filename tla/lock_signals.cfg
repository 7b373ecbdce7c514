\* Any of three processes may be signalled, and writing the body may fail.
CONSTANTS
  p1 = p1
  p2 = p2
  p3 = p3
  NoProc = NoProc
  Procs <- Three
  Erasers <- Nobody
  Signalled <- Three
  WriteFaults = TRUE
SPECIFICATION Spec
INVARIANTS
  TypeOK
  LockDiscipline
  ExclusionUntilSignalled
PROPERTIES
  LockTakenOnlyFromItsOwner
  StaleLockNeedsOperator
  KeepsSection
