SPECIFICATION FairSpec
CONSTANTS
  HisiDead = 1
  LoginWrap = 2
  MaxFaults = 1
PROPERTIES
  DeadServerReported
