SPECIFICATION FairSpec
CONSTANTS
  p1 = p1
  Producers = {p1}
  minNum = 1
  maxNum = 2
  queueCapacity = 2
  MaxTasks = 4
  SpuriousWakeups = FALSE
PROPERTIES SleepsOnlyWhenEmpty
CHECK_DEADLOCK FALSE
