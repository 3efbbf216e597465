CONSTANTS
  w1 = w1  w2 = w2  w3 = w3  a = a  b = b  c = c  d = d
  Workers = {w1, w2, w3}
  Main = Main
  Tasks = {a, b, c, d}
  Caller <- Nested
  NoTask = NoTask
  Free = Free
  MaxSpurious = 1
SPECIFICATION FairSpec
INVARIANTS NoLostWakeup
PROPERTIES Implements EveryTaskRuns DestructorReturns
