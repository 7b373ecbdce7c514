CONSTANTS
  p1 = p1
  p2 = p2
  f1 = f1
  f2 = f2
  NoProc = NoProc
  Missing = Missing
  Partial = Partial
  NoManifest = NoManifest
  Procs = {p1}
  Files = {f1, f2}
  Probed = {f1}
  Versions = {0, 1, 2}
  Bundle <- ComesAndGoes
  UserBytes = {"u1"}
  Migrations = {}
  Reversible = {}
  Sensitive = {}
  Commands <- SerialCommands
  MaxRuns = 4
  MaxEdits = 2
  Faults = {"bundle"}
  SourceRepo = FALSE
  Kills = FALSE
  EditsDuringRuns = FALSE
SPECIFICATION Spec
INVARIANTS
  TypeOK
  ManifestHonest
PROPERTIES
  NoFalseDrift
  CleanDoctorIsUpToDate
CHECK_DEADLOCK FALSE
