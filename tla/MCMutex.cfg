SPECIFICATION FairSpec
CONSTANTS
  Coros = {c1,c2,c3}
  Sources = {c1}
  Waiters = {w1, w2, w3,w4}
  NoCoro = NoCoro
  NoWaiter = NoWaiter
CHECK_DEADLOCK FALSE
VIEW View
INVARIANTS
  MutexInvariant
  MutualExclusion
  LockedIffOwned
  OneResumerPerSuspension
PROPERTIES
  ImplementsFifoLock
  EveryWaitEnds
