SPECIFICATION Spec
CONSTANTS
  Walkers <- OneWalker
  Scripts <- Tools
  Bodies <- TwoBodies
  Dummy = "dummy"
  Absent = Absent
  Ids <- ThreeIds
  FileOf <- Files
  Receipts <- ThreeIds
  Indexes <- WholeIndex
  Events <- NoEvents
  MaxEdits = 1
  MaxWalks = 1
CHECK_DEADLOCK FALSE
INVARIANTS
  ReceiptNamesBody
