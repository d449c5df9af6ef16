SPECIFICATION Spec
CONSTANTS
  Values <- MCScreenValues
  Totals = {2}
  Junk = {200}
INVARIANTS
  ScreenFollowsData
