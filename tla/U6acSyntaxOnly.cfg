SPECIFICATION U6acSpec
CONSTANTS
  MaxOptions = 2
  MaxApps = 1
  MaxShape = 1
  MaxPrints = 1
  LongPrints = {4}
  Asts <- MCAsts
  Words <- MCWords
  Jobs <- MCJobs
INVARIANTS SyntaxOnlyKeepsFiles
