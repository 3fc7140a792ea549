SPECIFICATION FairSpec
CONSTANTS
  Home = "home"
  Dirs = {"home", "sub", "new"}
  Files = {"f", "g", "h"}
  Parent <- MCParent
  Matching = {"f", "g"}
  InitialTree = {"home", "sub", "f"}
  QueueCap = 3
  MaxChanges = 4
  Faults = {"startError", "addError", "sendError", "cancel"}
INVARIANTS ReportsFaithful NoDirForgotten
PROPERTIES EventuallyCaughtUp
