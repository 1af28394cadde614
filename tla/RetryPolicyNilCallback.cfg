SPECIFICATION MCSafe
CONSTANTS
  small1 = small1
  small2 = small2
  small3 = small3
  big = big
  full = full
  huge = huge
  Requests = {small1, small2, small3, big}
  Size <- MCSize
  MaxMemory = 5
  MaxInFlight = 1
INVARIANTS
  NoNilCallback
