SPECIFICATION ProgramFairSpec
CONSTANTS
  Producers = {"main", "connect"}
  minNum = 1
  maxNum = 2
  queueCapacity = 2
  MaxTasks = 5
  DemoTasks = 4
  SpuriousWakeups = TRUE
INVARIANTS PoolsInv WaiterHasHelp
PROPERTIES ClientsServed DemoEnds
CHECK_DEADLOCK FALSE
