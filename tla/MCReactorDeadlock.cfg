SPECIFICATION FairSpec
CONSTANTS
  s1 = s1
  f1 = f1
  Coros = {c1}
  Sources = {c1}
  States = {s1}
  Fds = {f1}
  FdOf <- OneSocket
  Ops = {o1}
  NoCoro = NoCoro
  NoOp = NoOp
  NoState = NoState
VIEW View
CHECK_DEADLOCK FALSE
PROPERTY
  CancelledWaitEnds
