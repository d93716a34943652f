SPECIFICATION FairSpec
CONSTANTS
  Contexts <- One
  Dirs <- OneDir
  Names <- TwoHelpers
  Contents <- CycleContents
  Canons <- Bodies
  Contracts <- Declarations
  Runtimes <- TwoRuntimes
  Pythons <- NearPythons
  Python = 11
  Absent = Absent
  SysPath = "d1"
  Locks <- CycleLocks
  May <- Any
  Entries <- Both
  Saves <- CycleSaves
  Relocates = TRUE
  MaxEdits = 2
  MaxRuns = 1
CHECK_DEADLOCK FALSE
INVARIANTS
  SealedIsLocked
  SealScoped
PROPERTIES
  JudgementEnds
