SPECIFICATION FairSpec
CONSTANTS
  p1 = p1
  p2 = p2
  Producers = {p1, p2}
  minNum = 1
  maxNum = 2
  queueCapacity = 2
  MaxTasks = 3
  SpuriousWakeups = TRUE
INVARIANTS TypeOK RingIsFifo EachTaskOnce CountersExact NoStrandedProducer
PROPERTIES ImplementsTaskQueue AcceptedTasksComplete DestroyReturns ShrinksToMinNum
CHECK_DEADLOCK FALSE
