SPECIFICATION FairSpec
CONSTANTS
  Tasks = {1, 2, 3, 4}
  Workers = {"v", "w"}
  Meanings = {"m", "n"}
  Contexts = {}
  Leader = "lead"
  NoTask = 0
  NoContext = "none"
  MaxTraversals = 8
  Graphs <- RepairGraphs
  MaxRevisions = 1
  MaxAttempts = 5
INVARIANTS AcceptedUntilSuperseded NoOrphanedAttempt WaitsForSomeone OneInProgressPerWorker DerivationAgrees
PROPERTIES AchievedIsStable PlanSettles
CHECK_DEADLOCK FALSE
