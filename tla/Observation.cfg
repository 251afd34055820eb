SPECIFICATION Spec
CONSTANTS
  Tasks = {t1}
  Facts <- ObservedFacts
  Calls = {1, 2}
  PageSize = 1
  Threshold = 2
  MaxEvents = 2
  MaxFaults = 2
  MaxCommits = 1
  MaxTurns = 1
  MaxPulls = 1
INVARIANTS NothingIsPassedOver
PROPERTIES KeepsWhatItPromised
CHECK_DEADLOCK FALSE
