SPECIFICATION Spec
CONSTANTS
  Calls = {"c1", "c2"}
  Tried <- MCTried
  Probed <- MCProbed
  Token = "token"
  MaxLines = 1
CHECK_DEADLOCK FALSE
INVARIANTS AuthExact ExitLeavesOnlyLate BashAnswersFaithful 
 
