CONSTANTS
  Texts = {"a", "b", "c", "x", "f", "g", "h"}
  Lines <- UpToThree
  FirstLines <- Leftovers
  Statuses = {0, 1}
SPECIFICATION Spec
INVARIANTS RunsAsMeant
