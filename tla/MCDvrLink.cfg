SPECIFICATION FairSpec
CONSTANTS
  HisiDead = 2
  LoginWrap = 3
  MaxFaults = 3
INVARIANTS
  TypeOK
  FreshClientSeesRequest
PROPERTIES
  ImplementsSession
  LoginRestored
  TimeKeepsComing
  BrokenLinkLeft
