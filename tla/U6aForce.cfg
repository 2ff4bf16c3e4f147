SPECIFICATION Spec
CONSTANTS
  MaxOptions = 2
  Args <- MCArgs
  Files <- MCFiles
  Base = 2
  Wrap = 16
  MinSize <- MCMin
  MaxSize <- MCMax
  DefaultSize <- MCDefault
INVARIANT ForceExecutes
