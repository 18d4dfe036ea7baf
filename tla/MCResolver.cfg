SPECIFICATION FairSpec
CONSTANTS
  Jobs = {j1, j2}
  Callbacks = {j1, r1}
  Cancellers = {k1, k2}
  NoJob = NoJob
CHECK_DEADLOCK FALSE
INVARIANTS
  CancellationInvariant
  ResolverInvariant
PROPERTIES
  FirstAnswerStands
  RequestsEnd
  CancelledCallbackRuns
