SPECIFICATION Spec
CONSTANTS
  g1 = g1
  g2 = g2
  g3 = g3
  g4 = g4
  g5 = g5
  v1 = v1
  v2 = v2
  NULL = NULL
  Seg <- MCSeg5
  Value <- MCOneValue
  Pushes <- MCOnePushes
  StackSegLen = 5
  MaxDepth = 6
  MaxConts = 2
SYMMETRY MCSymmetry5
INVARIANTS TypeOK CountsExact NoLeak WildOnlyIfBroken StackInv
ACTION_CONSTRAINT NoGrowth
CHECK_DEADLOCK FALSE
