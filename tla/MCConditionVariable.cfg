SPECIFICATION FairSpec
CONSTANTS
  Coros = {c1, c2}
  Sources = {c1, c2}
  Waiters = {w1, w2, w3, w4}
  Notifiers = {n1, n2}
  NoCoro = NoCoro
  NoWaiter = NoWaiter
VIEW View
CHECK_DEADLOCK FALSE
INVARIANTS
  ConditionVariableInvariant
  NotificationsReachWaiters
PROPERTIES
  WokenWaitReturns
  NotifyOneWakesOne
