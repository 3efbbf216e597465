CONSTANTS
  Programs = {"primes"}
  Inputs <- SomeInputs
  ExitWord = ExitWord  Garbage = Garbage  INT_MAX = 35
  MaxInputs = 2
  Count = 1  Rounds = 0  Initial = 0  None = None
  Delta <- Still
  Sizes = {0}  ThreadCounts = {1}  Values = {0}
  Objects = {}  Inits = {}  SizeOf <- Nothing
  ArraySize = 1  Writers = {}  Readers = {}  MaxValue = 0
  SHM_SIZE = 0  Setters = {}
  Clients = {}  MaxKills = 0  Requests <- Nothing
  Half = 1  Huge = Huge  Word = Word  Missing = Missing
  Places = 2
SPECIFICATION PrimeSpec
INVARIANTS PrimesRight
PROPERTIES NeitherStays
CHECK_DEADLOCK FALSE
