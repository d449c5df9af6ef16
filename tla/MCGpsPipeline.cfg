SPECIFICATION Spec
CONSTANTS
  Secs = 2
  MaxLine = 5
  PerRound = 3
  MaxFaults = 1
  FifoCap = 26
  Years <- MCYears
  Hours <- MCHours
  Minutes <- MCEnds
  Seconds <- MCEnds
INVARIANTS
  TypeOK
  SpoiledByFaults
  FramedUnlessBehind
PROPERTIES
  TakenWhole
  TakenNew
  RoundsGoOn
