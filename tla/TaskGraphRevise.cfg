SPECIFICATION Spec
CONSTANTS
  Tasks = {1, 2, 3}
  Workers = {"v", "w"}
  Meanings = {"m", "n"}
  Contexts = {"c"}
  Leader = "lead"
  NoTask = 0
  NoContext = "none"
  MaxTraversals = 8
  Graphs <- ChainGraphs
  MaxRevisions = 2
  MaxAttempts = 3
INVARIANTS JoinsCurrentResults
PROPERTIES SettledAttemptsStay
CHECK_DEADLOCK FALSE
