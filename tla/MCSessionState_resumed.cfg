SPECIFICATION Spec
CONSTANTS
  d1 = d1
  d2 = d2
  Direct <- Plain
  Sessions <- TwoSessions
  Dirs = {d1}
  Asides = {"resumed"}
  MaxTurns = 4
  MaxRestarts = 1
  MaxFaults = 0
CHECK_DEADLOCK FALSE
INVARIANTS
  ConversationsSurvive
