SPECIFICATION Spec
CONSTANTS
  Home = "home"
  Dirs = {"home", "sub", "new"}
  Files = {"f", "g", "h"}
  Parent <- MCParent
  Matching = {"f", "new"}
  InitialTree = {"home", "sub", "f"}
  QueueCap = 3
  MaxChanges = 1
  Faults = {}
INVARIANTS NoDirForgotten
