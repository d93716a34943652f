SPECIFICATION FairSpec
CONSTANTS
  Nodes <- ThreeNodes
  Scripts <- SomeScripts
  ScriptName <- NameOf
  Hash <- HashOf
  Local <- LocalOf
  May <- MayBe
  Breaks <- BreaksIn
  Shallow = 4
  Absent = Absent
  Composites <- Ids
  Graph <- GraphOf
  Tops <- Ids
  Calls <- AllCalls
CHECK_DEADLOCK FALSE
INVARIANTS
  BodiesBound
  PassIsWhole
  ObservationsTellAll
PROPERTIES
  CycleIsExact
  SoundNeverRaises
  ExecuteEnds
