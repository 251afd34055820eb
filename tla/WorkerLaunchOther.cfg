SPECIFICATION Spec
CONSTANTS
  Memberships = {1, 2}
  Launches = {1, 2, 3}
  TwoStage = FALSE
  Located = TRUE
  MaxCrashes = 1
INVARIANTS StoppedMeansStopped
CHECK_DEADLOCK FALSE
