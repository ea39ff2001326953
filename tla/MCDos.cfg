SPECIFICATION Spec
CONSTANTS
  TICK = 3
  Timers = {1, 2}
  Period <- MCPeriod
  COUNTS = 4
  ENTRIES = 1
  Reloads = {0, 3}
  Configs <- MCConfigs
  MaxTime = 27
  StackWords = 6
  MaxLive = 7
  FILE_HANDLES_MAX = 4
  STD_HANDLES = 1
  Files = {"f1"}
  Len_ <- MCLen
  Hookable = {"time"}
  Handlers = {"h1"}
  Seeks <- MCSeeks
  Programs <- MCPrograms
INVARIANTS TrackerExact TimerExact
PROPERTIES InterruptsInvisible ImplementsHandleTable
CONSTRAINT Bounded
CHECK_DEADLOCK FALSE
