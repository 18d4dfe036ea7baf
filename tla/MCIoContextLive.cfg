SPECIFICATION FairSpec
CONSTANTS
  Coros = {c1}
  Sources = {c1}
  Timers = {t1, t2, t3}
  Delays = {1, 9}
  MaxTime = 1
  MaxRuns = 2
  NoCoro = NoCoro
  NoTimer = NoTimer
VIEW View
CHECK_DEADLOCK FALSE
PROPERTIES
  
  StopReturns
