CONSTANTS
  t1 = t1  t2 = t2  server = server  local = local
  Free = Free  Orphan = Orphan
  Threads = {t1, t2}
  Processes = {server, local}
  Home <- HomeEach
  Size = 2
  Commands <- LimitOps
  IntMax = 7
  DefaultMax = 2
  MaxCrashes = 0
SPECIFICATION Spec
PROPERTIES SuccessMeansMoved
