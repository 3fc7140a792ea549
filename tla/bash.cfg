SPECIFICATION FairSpec
CONSTANTS
  ExitCodes = {0, 3}
  MaxLines = 3
  PipeCap = 1
  ChildKinds = {"pipe", "silent"}
  Faults = {"startError", "overlongLine", "sendError", "cancel"}
  NoCode = NoCode
INVARIANTS AnswerTruthful
PROPERTIES CallTerminates NoSurvivors
