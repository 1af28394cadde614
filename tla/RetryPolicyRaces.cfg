\* Three goroutines race for the queue.
SPECIFICATION MCSafe
CONSTANTS
  small1 = small1
  small2 = small2
  small3 = small3
  big = big
  full = full
  huge = huge
  Requests = {small1, small2, small3}
  Size <- MCSize
  MaxMemory = 5
  MaxInFlight = 3
INVARIANTS
  DirectIsToldOnce
  SuccessesAreAcknowledged
