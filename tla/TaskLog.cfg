SPECIFICATION Spec
CONSTANTS
  Tasks = {1, 2}
  Workers = {"v", "w"}
  Meanings = {"m", "n"}
  Contexts = {"c"}
  Leader = "lead"
  NoTask = 0
  NoContext = "none"
  MaxTraversals = 8
  Graphs <- PairGraphs
  MaxRevisions = 2
  MaxAttempts = 3
  MaxCommands = 6
  MaxExtras = 1
INVARIANTS ReadsBack ViewIsShown TimesAreKnown
PROPERTIES ImplementsTaskGraph
CHECK_DEADLOCK FALSE
