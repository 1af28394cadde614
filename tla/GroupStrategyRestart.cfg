\* One control call at a time, two activations; a shutdown may time out before the second.
SPECIFICATION MCSpec
CONSTANTS
  a = a
  b = b
  c = c
  Items = {a, c}
  Exposures <- MCExposures
  Detected = {}
  Poison = {}
  Threshold = 1
  MaxItemsRange = {2}
  MaxEpoch = 2
  Overlap = FALSE
PROPERTIES
  AcceptedIsIngested
  ImplementsContract
