SPECIFICATION StreamFairSpec
CONSTANTS
  Total = 5
  PipeCapacity = 2
  InitialCapacity = 2
  MaxRequest = 2
  MaxHeld = 3
CHECK_DEADLOCK FALSE
INVARIANTS
  StreamInvariant
PROPERTIES
  ImplementsByteStream
  
