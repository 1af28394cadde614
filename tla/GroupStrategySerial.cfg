\* One control call at a time, two activations, three publishers.
SPECIFICATION MCSafe
CONSTANTS
  a = a
  b = b
  c = c
  Items = {a, b, c}
  Exposures <- MCExposures
  Detected = {}
  Poison = {}
  Threshold = 1
  MaxItemsRange = {2}
  MaxEpoch = 2
  Overlap = FALSE
INVARIANTS
  ShutdownComplete
  NoNegativeCounter
  FullBufferIsFlushed
  FirstExposuresAtOnce
