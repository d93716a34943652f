SPECIFICATION FreezeSpec
CONSTANTS
  Contexts <- One
  Dirs <- OneDir
  Names <- TwoHelpers
  Contents <- FreezeContents
  Canons <- Bodies
  Contracts <- Declared
  Runtimes <- TwoRuntimes
  Pythons <- FarPythons
  Python = 11
  Absent = Absent
  SysPath = "d1"
  Locks <- FreezeLocks
  May <- Any
  Entries <- Both
  Saves <- FreezeSaves
  Relocates = FALSE
  MaxEdits = 3
  MaxRuns = 2
  Given <- GivenLocks
  Nameless <- Unnamed
  MaxCommands = 2
CHECK_DEADLOCK FALSE
INVARIANTS
  TypeOK
  ToolBytesApproved
  HelperBytesApproved
  NoFalseRefusal
  PassHasFacts
  PassIsOfOneTree
  QuietIsExact
PROPERTIES
  PinStable
  IsApproval
