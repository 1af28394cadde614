\* Overlapping control calls, an item that cannot be marshalled, a detected flag.
SPECIFICATION MCSafe
CONSTANTS
  a = a
  b = b
  c = c
  Items = {a, c}
  Exposures <- MCExposures
  Detected = {a}
  Poison = {c}
  Threshold = 1
  MaxItemsRange = {1, 2}
  MaxEpoch = 2
  Overlap = TRUE
INVARIANTS
  TypeOK
  Conservation
  WaitGroupBalance
