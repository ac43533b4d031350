SPECIFICATION KernelSpec
CONSTANTS
  Arena <- TwoArenas
  ArenaAddr <- TwoAddr
  ArenaSize <- TwoSize
  ArenaDiv <- TwoDiv
  HeaderSize = 2
  DataAlign = 2
  MaxId = 4
  AllocBudget = 4
  Requests <- MixedRequests
  Strays <- MixedStrays
INVARIANTS
  HeapConsistent
  NullMeansNoFit
  NewReturnsMemoryOrStops
PROPERTIES
  ImplementsHeapStore
CHECK_DEADLOCK FALSE
