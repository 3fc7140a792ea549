SPECIFICATION Spec
CONSTANTS
  Procs = {p1}
  Pids = {q1}
  Tails = {t1, t2}
  Clients = {}
  ExitCodes = {0, 3}
  MaxLines = 3
  PipeCap = 1
  ChanCap = 1
  ChildKinds = {"escaped"}
  Faults = {"overlongLine", "sendError", "cancel", "startError", "logCreate"}
  NoProc = NoProc
  NoPid = NoPid
  NoCode = NoCode
  NoEvent = NoEvent
SYMMETRY TailSymmetry
INVARIANTS SubscribersOpen TailTruthful TailComplete ExitedMeansDrained
PROPERTIES ExitedIsFinal
