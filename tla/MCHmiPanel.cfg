SPECIFICATION Spec
CONSTANTS
  Values <- MCValues
  Totals = {2}
  Junk = {0}
INVARIANTS
  TypeOK
  BoxMatchesError
  SteadyShown
  TracesKnown
