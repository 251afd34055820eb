SPECIFICATION Spec
CONSTANTS
  Memberships = {1, 2}
  Launches = {1, 2, 3}
  TwoStage = TRUE
  Located = TRUE
  MaxCrashes = 1
INVARIANTS ExpiredLaunchesAreRetried
CHECK_DEADLOCK FALSE
