CONSTANTS
  Families = {"v6"}
  max_ttl = 2
  nprobes = 2
  Dists = {1, 2}
  RcvCap = 2
  MaxStrays = 1
SPECIFICATION Spec
CHECK_DEADLOCK FALSE
INVARIANT
  DoneMeansUnreachable
