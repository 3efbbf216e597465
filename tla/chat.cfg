CONSTANTS
  u1 = u1  u2 = u2  u3 = u3
  Users = {u1, u2, u3}
  Texts = {"hi", "/list", "/exit"}
  MaxLines <- OneNoneNone
  Killed = {u2}
SPECIFICATION FairSpec
INVARIANTS ListRight EveryoneTold
PROPERTIES ExitLeaves
CHECK_DEADLOCK FALSE
