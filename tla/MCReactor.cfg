SPECIFICATION FairSpec
CONSTANTS
  s1 = s1
  f1 = f1
  Coros = {c1, c2}
  Sources = {c1}
  States = {s1}
  Fds = {f1}
  FdOf <- OneSocket
  Ops = {o1, o2, o3}
  NoCoro = NoCoro
  NoOp = NoOp
  NoState = NoState
VIEW View
CHECK_DEADLOCK FALSE
INVARIANTS
  ReactorInvariant
  InterestMatchesSlots

  
  
