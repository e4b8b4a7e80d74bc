SPECIFICATION PoolSpec
CONSTANTS
  p1 = p1
  p2 = p2
  Producers = {p1, p2}
  minNum = 1
  maxNum = 1
  queueCapacity = 1
  MaxTasks = 3
  SpuriousWakeups = FALSE
INVARIANTS QueueFits
CHECK_DEADLOCK FALSE
