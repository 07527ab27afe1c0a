\* The ring and the signals: every burst up to one more than the ring holds.
CONSTANTS
  QSIZE = 3
  RcvCap = 4
  MaxArrivals = 6
  MaxErrors = 1
SPECIFICATION FairSpec
\* the server stops on "receive overflow", and the arrivals are bounded
CHECK_DEADLOCK FALSE
INVARIANTS
  RingInv
  LastBucketUnused
  NoLostWakeup
PROPERTY
  ImplementsFifo
  EventuallyEchoed
