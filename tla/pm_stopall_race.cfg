SPECIFICATION Spec
CONSTANTS
  Procs = {p1}
  Pids = {q1}
  Tails = {}
  Clients = {}
  ExitCodes = {0}
  MaxLines = 0
  PipeCap = 1
  ChanCap = 1
  ChildKinds = {}
  Faults = {"shutdown"}
  NoProc = NoProc
  NoPid = NoPid
  NoCode = NoCode
  NoEvent = NoEvent
INVARIANTS StopAllStopsEverything
