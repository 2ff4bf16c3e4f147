SPECIFICATION Spec
CONSTANTS
  g1 = g1
  g2 = g2
  g3 = g3
  g4 = g4
  g5 = g5
  v1 = v1
  v2 = v2
  NULL = NULL
  Seg <- MCSeg4
  Value <- MCValue
  Pushes <- MCPushes
  StackSegLen = 5
  MaxDepth = 6
  MaxConts = 1
SYMMETRY MCSymmetry4
INVARIANT ActiveIsLive
CHECK_DEADLOCK FALSE
