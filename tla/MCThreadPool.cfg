SPECIFICATION PoolFairSpec
CONSTANTS
  Workers = {w1, w2}
  PoolTasks = {t1, t2, t3}
  Stoppers = {s1, s2}
  NoTask = NoTask
CHECK_DEADLOCK FALSE
INVARIANTS
  PoolInvariant
  WakeupsCoverWork
PROPERTIES
  StopReturns
  QueuedTaskRuns
