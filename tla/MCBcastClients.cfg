CONSTANTS
  MaxRounds = 3
  MaxReplies = 4
  Variants = {"recvfrom", "pselect", "longjmp", "pipe"}
SPECIFICATION Spec
CHECK_DEADLOCK FALSE
INVARIANTS
  RepliesShown
PROPERTIES
  ImplementsRounds
  RoundsEndUnlessLost
  LostOnlyInWindow
