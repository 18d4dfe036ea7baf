SPECIFICATION Spec
CONSTANTS
  Coros = {c1}
  Sources = {}
  Timers = {t1, t2}
  Delays = {1}
  MaxTime = 1
  MaxRuns = 1
  NoCoro = NoCoro
  NoTimer = NoTimer
VIEW View
CHECK_DEADLOCK FALSE
PROPERTIES
  LoopExitsDrained
