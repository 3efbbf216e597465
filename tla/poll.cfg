CONSTANTS
  w1 = w1  w2 = w2  c1 = c1  c2 = c2  c3 = c3  None = None
  Workers = {w1, w2}
  Clients = {c1, c2, c3}
  Lines = {"short", "long", "empty"}
  MaxLines <- TwoOneZero
  MaxSpurious = 1
SPECIFICATION FairSpec
INVARIANTS OnePlace NoLostWakeup InStep ServerSurvives
PROPERTIES Served
CHECK_DEADLOCK FALSE
