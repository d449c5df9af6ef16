SPECIFICATION FairSpec
CONSTANTS
  Stations = {s1}
  BBBDEAD = 2
  LoginRetries = 2
  MaxLine = 2
  MaxFaults = 3
INVARIANTS
  TypeOK
  OnlineLoggedIn
PROPERTIES
  LoginReached
  ManualReaches
  AlarmArrives
  LossNoticed
  HungNoticed
  AliveAgain
