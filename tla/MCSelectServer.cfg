\* Three clients, descriptors for two: slots and descriptors are reused, and
\* accept may find none left.
CONSTANTS
  Clients = {c1, c2, c3}
  FD_SETSIZE = 6
  Nofile = 6
  MaxUnits = 2
  SndBuf = 1
SYMMETRY Symmetry
SPECIFICATION Spec
CHECK_DEADLOCK FALSE
INVARIANTS
  TablesAgree
  NreadyExact
  NeverSleepsInRead
  AlwaysASlot
PROPERTY
  NoStaleReadiness
