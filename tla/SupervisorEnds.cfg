SPECIFICATION FairSpec
CONSTANTS
  Contour <- PinnedFiles
  Pinned <- PinnedFiles
  Strays <- StrayPaths
  Worker = "worker"
  Versions <- TwoVersions
  Names <- Modules
  ToolName = "t"
  Contents <- MovesContents
  Canons <- Bodies
  Outcomes <- EveryOutcome
  Absent = Absent
  Empty = Empty
  Bytecode = Bytecode
  Engines <- PackageOnly
  Requests <- MovesRequests
  Saves <- MovesSaves
  Relocates = TRUE
  OnPath = TRUE
  MaxEdits = 2
CHECK_DEADLOCK FALSE
INVARIANTS
  VerdictIsConformance
PROPERTIES
  Answered
