CONSTANTS
  Numbered = {"001-example.md"}
  Dotted = {"a..b.md"}
  Paths <- SomePaths
  Contents = {1, 2, 3}
  Absent = Absent
  Checkouts <- SomeCheckouts
  frameworkFiles <- SomeEntries
  MaxRuns = 5
  Faults = {"io", "view"}
  Kills = TRUE
SPECIFICATION Spec
INVARIANTS
  TypeOK
  InstallsTheFramework
PROPERTIES
  ExitZeroIsExact
  LatestOnlyRises
CHECK_DEADLOCK FALSE
