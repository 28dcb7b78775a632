SPECIFICATION Spec
CONSTANTS
  d1 = d1
  d2 = d2
  Direct <- Plain
  Sessions <- TwoSessions
  Dirs = {d1, d2}
  Asides = {"own", "resumed"}
  MaxTurns = 4
  MaxRestarts = 2
  MaxFaults = 1
CHECK_DEADLOCK FALSE
SYMMETRY DirSymmetry
INVARIANTS
  TypeOK
  HistoryIsOwn
  TurnSeesSaved
  ListenerTurnsSurvive
PROPERTIES
  SavedHistoryKept
