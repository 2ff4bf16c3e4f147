SPECIFICATION Spec
CONSTANTS
  NULL = NULL
  NoSaved = NoSaved
  StackSegLen = 5
  PoolLen = 16
  MaxSegs = 8
  Fuel = 20
  MaxOut = 12
  MaxRefcnt = 20
  MaxApps = 2
  MaxIoApps = 0
  Programs <- AsWritten
INVARIANT AgreesAlways
