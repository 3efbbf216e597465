CONSTANTS
  Programs = {"calculator"}
  c1 = c1  c2 = c2  c3 = c3
  Huge = Huge  Word = Word  Missing = Missing
  Clients = {c1, c2, c3}
  Requests <- EachKind
  Half = 4
  MaxKills = 1
  Count = 1  Rounds = 0  Initial = 0  None = None
  Delta <- Still
  Sizes = {0}  ThreadCounts = {1}  Values = {0}
  Objects = {}  Inits = {}  SizeOf <- Nothing
  ArraySize = 1  Writers = {}  Readers = {}  MaxValue = 0
  SHM_SIZE = 0  Setters = {}
  Inputs = {}  ExitWord = ExitWord  Garbage = Garbage  INT_MAX = 35  MaxInputs = 0
  Places = 2
SPECIFICATION CalculatorSpec
INVARIANTS AnswersRight ServerSurvives
PROPERTIES Served
CHECK_DEADLOCK FALSE
