CONSTANTS
  p1 = p1
  p2 = p2
  f1 = f1
  f2 = f2
  NoProc = NoProc
  Missing = Missing
  Partial = Partial
  NoManifest = NoManifest
  Procs = {p1}
  Files = {f1}
  Probed = {f1}
  Versions = {0, 1, 2}
  Bundle <- OneFile
  UserBytes = {"u1"}
  Migrations = {1, 2}
  Reversible = {1, 2}
  Sensitive = {}
  Commands <- DownAndUp
  MaxRuns = 5
  MaxEdits = 0
  Faults = {}
  SourceRepo = FALSE
  Kills = FALSE
  EditsDuringRuns = FALSE
SPECIFICATION Spec
PROPERTIES
  MigratedIsUpToDate
CHECK_DEADLOCK FALSE
