SPECIFICATION Spec
CONSTANTS
  Keys <- OneKey
  Values <- TwoValues
  Absent = Absent
  Torn = Torn
  Faults = TRUE
  Tasks <- TwoTasks
  Main = "main"
  Kinds <- SomeKinds
  MaxRuns = 2
CHECK_DEADLOCK FALSE
INVARIANTS
  EffectsAreOwn
PROPERTIES
  PurePassStoredNothing
  IsDataPlane
