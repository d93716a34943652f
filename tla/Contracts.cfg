SPECIFICATION Spec
CONSTANTS
  Declarations <- SomeDeclarations
  Roots <- SomeRoots
  Defaults <- SomeDefaults
  Things <- SomeThings
  Provisions <- SomeProvisions
  Interfaces <- SomeInterfaces
  Within <- SomeWithin
  Schemas <- SomeSchemas
  Records <- SomeRecords
  Absent = Absent
  MaxChain = 2
CHECK_DEADLOCK FALSE
INVARIANTS
  Substitutable
  NothingInvented
  NoSilentBreak
  ValidatorsAgree
  FillIsStable
