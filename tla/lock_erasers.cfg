CONSTANTS
  p1 = p1
  p2 = p2
  p3 = p3
  NoProc = NoProc
  Procs <- Three
  Erasers <- OnlyP1
  Signalled <- Nobody
  WriteFaults = FALSE
SPECIFICATION FairSpec
INVARIANTS
  ExclusionUnlessErased
  FinishedRunLeavesNoLock
PROPERTIES
  EveryRunEnds
