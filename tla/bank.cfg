CONSTANTS
  t1 = t1  t2 = t2  server = server  local = local
  Free = Free  Orphan = Orphan
  Threads = {t1, t2}
  Processes = {server, local}
  Home <- HomeEach
  Size = 2
  Commands <- AllOps
  IntMax = 4
  DefaultMax = 2
  MaxCrashes = 1
SPECIFICATION FairSpec
INVARIANTS BankInv
PROPERTIES Linearizable TransferExact MoneyConserved SectionEnds
CHECK_DEADLOCK FALSE
