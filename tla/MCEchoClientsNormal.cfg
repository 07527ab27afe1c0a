CONSTANTS
  MaxTyped = 3
  MaxFile = 3
  UpCap = 1
  DownCaps = {1}
  OutCap = 1
  MAXLINE = 2
  Variants = {"nonb"}
SPECIFICATION Spec
CHECK_DEADLOCK FALSE
INVARIANTS
  NormalIsComplete
