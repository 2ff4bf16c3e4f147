SPECIFICATION U6acSpec
CONSTANTS
  MaxOptions = 2
  MaxApps = 3
  MaxShape = 5
  MaxPrints = 6
  LongPrints = {14, 15, 16, 17, 30, 31, 32, 33}
  Asts <- MCAsts
  Words <- MCWords
  Jobs <- MCJobs
INVARIANTS TypeOK BuffersFit TextIsTree DumpTells
           ExitTellsOutput OnlyOutputChanges StdoutPure NotOwnOutput
