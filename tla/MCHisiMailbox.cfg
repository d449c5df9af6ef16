SPECIFICATION FairSpec
CONSTANTS
  MaxMsgs = 3
INVARIANTS
  TypeOK
  SetsBounded
PROPERTIES
  PartsNear
  TakenFresh
  SyncHandled
