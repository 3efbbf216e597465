CONSTANTS
  c1 = c1  c2 = c2
  Free = Free  Orphan = Orphan
  Clients = {c1, c2}
  Requests <- TwoLinesAndOne
  LongPieces = 2
  Capacity = 1
  Threshold = 2
  MaxSpurious = 1
SPECIFICATION FairSpec
INVARIANTS BankLockKept InStep ServerSurvives
PROPERTIES ReportsGrow Answered
CHECK_DEADLOCK FALSE
