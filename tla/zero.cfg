SPECIFICATION FairSpec
CONSTANTS
  w1 = w1
  w2 = w2
  u1 = u1
  u2 = u2
  Workers = {w1, w2}
  Users = {u1, u2}
  MaxTasks = 3
  MaxStarts = 2
INVARIANTS PoolInv SomeWorkerAwake
PROPERTIES ImplementsTaskQueue TasksRun WaitReturns StopReturns
CHECK_DEADLOCK FALSE
