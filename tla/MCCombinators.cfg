SPECIFICATION FairSpec
CONSTANTS
  c1 = c1
  c2 = c2
  c3 = c3
  c4 = c4
  e1 = e1
  e2 = e2
  t = t
  Tasks <- MCTasks
  Gate <- MCGate
  Parent = p
  Main = m
  Coros = {c1, c2, c3, c4, p}
  Events = {e1, e2, n}
  Notify = n
  Token = t
  Threads = {m, t1, t2}
  None = None
  Throwing = {c3}
INVARIANTS
  WaitersInvariant
  AnyResult
  AllJoined
PROPERTIES
  SyncWaitReturns
  SetReleasesAll
