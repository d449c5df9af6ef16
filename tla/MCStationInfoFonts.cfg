SPECIFICATION Spec
CONSTANTS
  N = 3
  Blocks = 1
  MaxFaults = 0
INVARIANT FontsUpdated
