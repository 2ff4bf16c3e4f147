SPECIFICATION Spec
CONSTANTS
  PoolLen = 3
  NoSaved = NoSaved
  MaxHeld = 2
  MaxSaved = 1
  MaxLost = 1
INVARIANTS TypeOK CountsExact HolesExact NoGarbage WorklistBounded
PROPERTY FreeReturns
CHECK_DEADLOCK FALSE
