SPECIFICATION Spec
CONSTANTS
  Memberships = {1, 2}
  Launches = {1, 2, 3}
  TwoStage = TRUE
  Located = TRUE
  MaxCrashes = 1
INVARIANTS OneWorker OneLaunchActuates RefusedNeverRuns WorkersAreRecorded
CHECK_DEADLOCK FALSE
