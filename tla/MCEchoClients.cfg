CONSTANTS
  MaxTyped = 4
  MaxFile = 7
  UpCap = 1
  DownCaps = {1, 2, 4}
  OutCap = 1
  MAXLINE = 2
  Variants = {"nonb", "stop", "select", "stdio", "thread", "kqueue"}
SPECIFICATION Spec
CHECK_DEADLOCK FALSE
INVARIANTS
  NothingLost
  FinAfterAll
  RoomToRead
  NormalIsEchoed
  StaleOnlyAfterReset
PROPERTIES
  Terminates
  EveryLineEchoed
