SPECIFICATION Spec
CONSTANTS
  Procs = {p1, p2}
  Pids = {q1, q2}
  Tails = {}
  Clients = {c1}
  ExitCodes = {0}
  MaxLines = 0
  PipeCap = 1
  ChanCap = 1
  ChildKinds = {}
  Faults = {"killDenied", "pidReuse", "shutdown"}
  NoProc = NoProc
  NoPid = NoPid
  NoCode = NoCode
  NoEvent = NoEvent
SYMMETRY ProcSymmetry
INVARIANTS ManagerInv UnreapedListed StopMeansGone StopAllStopsSnapshot
PROPERTIES SignalReachesTarget
