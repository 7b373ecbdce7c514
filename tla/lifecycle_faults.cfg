CONSTANTS
  p1 = p1
  p2 = p2
  f1 = f1
  f2 = f2
  NoProc = NoProc
  Missing = Missing
  Partial = Partial
  NoManifest = NoManifest
  Procs = {p1}
  Files = {f1, f2}
  Probed = {f1}
  Versions = {0, 1, 2, 3}
  Bundle <- TwoFiles
  UserBytes = {"u1"}
  Migrations = {1, 2, 3}
  Reversible = {2, 3}
  Sensitive = {2}
  Commands <- FaultCommands
  MaxRuns = 4
  MaxEdits = 1
  Faults = {"step", "unlink", "write"}
  SourceRepo = FALSE
  Kills = TRUE
  EditsDuringRuns = FALSE
SPECIFICATION Spec
INVARIANTS
  MigrationsRecorded
PROPERTIES
  SensitiveNeedsAck
  MigrationsInOrder
  NoMigrationSkipped
  UserEditsSafe
  TeamDocsSafe
  ExitZeroIsComplete
  NewerInstallRefused
CHECK_DEADLOCK FALSE
