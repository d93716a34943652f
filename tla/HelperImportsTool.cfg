SPECIFICATION Spec
CONSTANTS
  Contexts <- One
  Dirs <- OneDir
  Names <- OneHelper
  Contents <- BackContents
  Canons <- Bodies
  Contracts <- Declarations
  Runtimes <- OneRuntime
  Pythons <- OnePython
  Python = 11
  Absent = Absent
  SysPath = "d1"
  Locks <- BackLocks
  May <- Any
  Entries <- CLI
  Saves <- BackSaves
  Relocates = FALSE
  MaxEdits = 1
  MaxRuns = 1
CHECK_DEADLOCK FALSE
INVARIANTS
  NoFalseRefusal
