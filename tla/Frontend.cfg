SPECIFICATION FrontSpec
CONSTANTS
  MaxShape = 11
  MaxLeaves = 7
  MaxChars = 5
  Sources <- MCSources
  InitLen = 5
  MaxLen = 10
  Junk = {7}
INVARIANTS LexesSource RefusesRight LimitExact ReadErrorsShow
           PstackOK NeedsMissing AcceptsPrograms TreeIsRight
CHECK_DEADLOCK FALSE
