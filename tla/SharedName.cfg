SPECIFICATION Spec
CONSTANTS
  Contexts <- One
  Dirs <- TwoDirs
  Names <- OneHelper
  Contents <- SharedContents
  Canons <- Bodies
  Contracts <- Declarations
  Runtimes <- OneRuntime
  Pythons <- OnePython
  Python = 11
  Absent = Absent
  SysPath = "d1"
  Locks <- SharedLocks
  May <- Any
  Entries <- CLI
  Saves <- SharedSaves
  Relocates = FALSE
  MaxEdits = 0
  MaxRuns = 2
CHECK_DEADLOCK FALSE
INVARIANTS
  HelperBytesApproved
