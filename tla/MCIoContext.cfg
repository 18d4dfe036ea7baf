SPECIFICATION Spec
CONSTANTS
  Coros = {c1, c2}
  Sources = {c1}
  Timers = {t1, t2, t3}
  Delays = {1, 9}
  MaxTime = 1
  MaxRuns = 2
  NoCoro = NoCoro
  NoTimer = NoTimer
SYMMETRY Symmetry
VIEW View
CHECK_DEADLOCK FALSE
INVARIANTS
  IoInvariant
  
PROPERTIES
  SleepsLongEnough
