CONSTANTS
  Clients = {c1, c2}
  FD_SETSIZE = 6
  Nofile = 6
  MaxUnits = 1
  SndBuf = 1
SPECIFICATION FairSpec
CHECK_DEADLOCK FALSE
PROPERTY
  AllClientsChecked
