SPECIFICATION FairSpec
CONSTANTS
  N = 4
  Blocks = 1
  MaxFaults = 2
INVARIANTS
  TypeOK
  ShownExact
PROPERTIES
  ImplementsBoard
  RegistersSettle
  IndexFollows
