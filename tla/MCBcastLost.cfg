CONSTANTS
  MaxRounds = 3
  MaxReplies = 4
  Variants = {"recvfrom"}
SPECIFICATION Spec
CHECK_DEADLOCK FALSE
PROPERTIES
  WaitedLongEnough
