SPECIFICATION Spec
CONSTANTS
  Walkers <- AllWalkers
  Scripts <- Tools
  Bodies <- TwoBodies
  Dummy = "dummy"
  Absent = Absent
  Ids <- ThreeIds
  FileOf <- Files
  Receipts <- ThreeIds
  Indexes <- AllIndexes
  Events <- SomeEvents
  MaxEdits = 1
  MaxWalks = 2
CHECK_DEADLOCK FALSE
INVARIANTS
  ZeroMeansAllPass
  GreenHasReceipts
  AllowIsForNamed
