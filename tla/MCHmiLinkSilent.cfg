SPECIFICATION Spec
CONSTANTS
  Stations = {s1}
  BBBDEAD = 2
  LoginRetries = 0
  MaxLine = 1
  MaxFaults = 0
PROPERTIES DeadMeansSilent
