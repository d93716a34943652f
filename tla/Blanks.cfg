SPECIFICATION Spec
CONSTANTS
  Files <- TwoFiles
  Contents <- SomeContents
  Texts <- TwoTexts
  Bindings <- TwoBindings
  Blanks <- SomeBlanks
  Locks <- SomeLocks
  Artifacts <- SomeArtifacts
  Absent = Absent
  Bytecode = Bytecode
  MaxEdits = 2
  MaxRuns = 2
CHECK_DEADLOCK FALSE
INVARIANTS
  BlankBytesApproved
  ClaimsHold
  NoFalseRefusal
