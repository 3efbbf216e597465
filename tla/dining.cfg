CONSTANTS
  Programs = {"table"}
  Places = 5
  MaxKills = 1
  Count = 1  Rounds = 0  Initial = 0  None = None
  Delta <- Still
  Sizes = {0}  ThreadCounts = {1}  Values = {0}
  Objects = {}  Inits = {}  SizeOf <- Nothing
  ArraySize = 1  Writers = {}  Readers = {}  MaxValue = 0
  SHM_SIZE = 0  Setters = {}
  Clients = {}  Requests <- Nothing
  Half = 1  Huge = Huge  Word = Word  Missing = Missing
  Inputs = {}  ExitWord = ExitWord  Garbage = Garbage  INT_MAX = 35  MaxInputs = 0
SPECIFICATION DiningSpec
INVARIANTS Exclusion NoStandoff
PROPERTIES SomebodyEats
CHECK_DEADLOCK FALSE
