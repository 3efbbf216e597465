CONSTANTS
  Programs = {"counter", "sum", "bank", "array", "sieve"}
  Count = 3
  Rounds = 3
  Initial = 200
  None = None
  Delta <- DebitCredit
  Sizes <- UpToFive
  ThreadCounts <- UpToThree
  Values = {1, 3}
  i1 = i1  i2 = i2
  Objects = {o1, o2}
  Inits = {i1, i2}
  SizeOf <- OneTwo
  Clients = {c1, c2}
  ArraySize = 2
  Writers = {w1, w2}
  Readers = {r1}
  MaxValue = 3
  MaxKills = 1
  SHM_SIZE = 10
  Setters = {s1}
  Inputs = {}  ExitWord = ExitWord  Garbage = Garbage  INT_MAX = 35  MaxInputs = 0
  Requests <- Nothing
  Half = 1  Huge = Huge  Word = Word  Missing = Missing
  Places = 2
SPECIFICATION SharedSpec
INVARIANTS EachOnce ResultRight BankExcludes NoFault CountsIncrements ChecksRight
PROPERTIES NoChangeLost
CHECK_DEADLOCK FALSE
