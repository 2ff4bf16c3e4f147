SPECIFICATION Spec
CONSTANTS
  NULL = NULL
  NoSaved = NoSaved
  StackSegLen = 5
  PoolLen = 16
  MaxSegs = 8
  Fuel = 20
  MaxOut = 12
  MaxRefcnt = 20
  MaxApps = 3
  MaxIoApps = 2
  Programs <- MCPrograms
INVARIANTS TypeOK Agrees WildHasCause NoDangling CountsCover
PROPERTY Exits
