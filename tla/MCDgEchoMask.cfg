CONSTANTS
  QSIZE = 2
  RcvCap = 3
  MaxArrivals = 4
  MaxErrors = 0
SPECIFICATION Spec
CHECK_DEADLOCK FALSE
INVARIANT
  SigioOpenWhileSending
