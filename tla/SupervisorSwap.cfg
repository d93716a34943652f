SPECIFICATION Spec
CONSTANTS
  Contour <- EngineFiles
  Pinned <- PinnedFiles
  Strays <- StrayPaths
  Worker = "worker"
  Versions <- TwoVersions
  Names <- Modules
  ToolName = "t"
  Contents <- SwapContents
  Canons <- Bodies
  Outcomes <- OneOutcome
  Absent = Absent
  Empty = Empty
  Bytecode = Bytecode
  Engines <- SomePlaces
  Requests <- SwapRequests
  Saves <- SwapSaves
  Relocates = FALSE
  OnPath = TRUE
  MaxEdits = 2
CHECK_DEADLOCK FALSE
INVARIANTS
  PassIsLocked
  BodyAfterBind
  PinnedIsImported
  StillTreeAgrees
  NoFalseRefusal
PROPERTIES
  IsApproval
