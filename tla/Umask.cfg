SPECIFICATION Spec
CONSTANTS
  w1 = w1
  w2 = w2
  Old = Old
  Writers = {w1, w2}
  Bits = {"owner", "other"}
  Private = {"owner"}
  MaxLosses = 0
CHECK_DEADLOCK FALSE
INVARIANT
  GetUmaskIsUmask
