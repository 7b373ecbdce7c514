CONSTANTS
  p1 = p1
  p2 = p2
  f1 = f1
  f2 = f2
  NoProc = NoProc
  Missing = Missing
  Partial = Partial
  NoManifest = NoManifest
  Procs = {p1, p2}
  Files = {f1}
  Probed = {f1}
  Versions = {0, 1}
  Bundle <- OneFile
  UserBytes = {"u1"}
  Migrations = {}
  Reversible = {}
  Sensitive = {}
  Commands <- PairCommands
  MaxRuns = 4
  MaxEdits = 2
  Faults = {}
  SourceRepo = TRUE
  Kills = FALSE
  EditsDuringRuns = FALSE
SPECIFICATION Spec
SYMMETRY Symmetry
INVARIANTS
  TornOnlyUnderLock
PROPERTIES
  UserEditsSafe
CHECK_DEADLOCK FALSE
