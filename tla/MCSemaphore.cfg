SPECIFICATION FairSpec
CONSTANTS
  Coros = {c1, c2, c3}
  Sources = {c1}
  Waiters = {w1, w2, w3, w4}
  NoCoro = NoCoro
  NoWaiter = NoWaiter
  InitialCount = 0
  LeastMaxValue = 1
  Updates = {1, 2}
  MaxIssued = 2
VIEW View
CHECK_DEADLOCK FALSE
INVARIANTS
  SemaphoreInvariant
  PermitsConserved
PROPERTIES
  ImplementsFifoSemaphore
  ClaimedWaiterResumes
