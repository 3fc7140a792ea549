SPECIFICATION FairSpec
CONSTANTS
  Procs = {p1}
  Pids = {q1}
  Tails = {t1}
  Clients = {c1}
  ExitCodes = {0, 3}
  MaxLines = 1
  PipeCap = 1
  ChanCap = 1
  ChildKinds = {"pipe"}
  Faults = {"overlongLine", "killDenied", "sendError", "shutdown"}
  NoProc = NoProc
  NoPid = NoPid
  NoCode = NoCode
  NoEvent = NoEvent
PROPERTIES StopsTerminate TailTerminates ExitIsNoticed ImplementsLifecycle
