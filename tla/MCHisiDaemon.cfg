SPECIFICATION FairSpec
CONSTANTS
  W = 1000
  Minute = 4
  RPT_SYS_INFO_PERIOD = 2
  Jumps <- MCJumps
  MaxFaults = 1
  Slots = 2
  DEF_PROC_NUM = 2
  ConfFiles <- MCConfFiles
INVARIANTS
  TypeOK
  OneDaemon
  NoneLeft
  MemoryShared
PROPERTIES
  PeriodKept
  ReportsGoOn
CHECK_DEADLOCK FALSE
