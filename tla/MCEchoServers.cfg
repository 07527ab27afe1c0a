CONSTANTS
  c1 = c1
  c2 = c2
  Clients = {c1, c2}
  w1 = w1
  w2 = w2
  Workers = {w1, w2}
  Cells = {a1, a2, a3, a4}
  MaxLines <- MCMaxLines
  Room = 1
  MaxFailures = 1
  MaxDatagrams = 1
  Deployments <- MCDeployments
SPECIFICATION Spec
CHECK_DEADLOCK FALSE
INVARIANTS
  OneServer
  Isolated
  SlotsComeBack
PROPERTIES
  EverySessionEnds
  DatagramsAnswered
