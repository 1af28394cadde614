\* The goroutines of the requests take turns.
SPECIFICATION MCSpec
CONSTANTS
  small1 = small1
  small2 = small2
  small3 = small3
  big = big
  full = full
  huge = huge
  Requests = {small1, small2, big, full, huge}
  Size <- MCSize
  MaxMemory = 5
  MaxInFlight = 1
INVARIANTS
  MemoryIsQueueSize
  QueueIsBounded
  NothingForgotten
  EmptyShiftNeedsFullBatch
PROPERTIES
  IngestEnds
  ImplementsDelivery
