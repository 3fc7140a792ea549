SPECIFICATION FairSpec
CONSTANTS
  Procs = {p1}
  Pids = {q1}
  Tails = {}
  Clients = {c1}
  ExitCodes = {0}
  MaxLines = 0
  PipeCap = 1
  ChanCap = 1
  ChildKinds = {"escaped"}
  Faults = {}
  NoProc = NoProc
  NoPid = NoPid
  NoCode = NoCode
  NoEvent = NoEvent
PROPERTIES StopTerminates
