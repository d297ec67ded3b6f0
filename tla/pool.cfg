SPECIFICATION FairSpec
CONSTANTS
  w1 = w1  w2 = w2
  r1 = r1  r2 = r2
  t1 = t1  t2 = t2  t3 = t3
  none = none
  Workers <- TwoWorkers
  Producers <- TwoReactors
  Tasks <- ThreeTasks
  QueueSize = 2
  NoTask = none
INVARIANTS
  TypeOK
  TaskConserved
  NoLostWakeup
PROPERTIES
  ImplementsTaskQueue
  AcceptedTaskRuns
  DestroyReturns
CHECK_DEADLOCK FALSE
