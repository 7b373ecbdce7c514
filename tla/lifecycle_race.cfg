CONSTANTS
  p1 = p1
  p2 = p2
  f1 = f1
  f2 = f2
  NoProc = NoProc
  Missing = Missing
  Partial = Partial
  NoManifest = NoManifest
  Procs = {p1}
  Files = {f1}
  Probed = {f1}
  Versions = {0, 1, 2}
  Bundle <- OneFile
  UserBytes = {"u1"}
  Migrations = {}
  Reversible = {}
  Sensitive = {}
  Commands <- PlainUpdates
  MaxRuns = 3
  MaxEdits = 2
  Faults = {}
  SourceRepo = FALSE
  Kills = FALSE
  EditsDuringRuns = TRUE
SPECIFICATION Spec
PROPERTIES
  PlainUpdateKeepsEdits
CHECK_DEADLOCK FALSE
