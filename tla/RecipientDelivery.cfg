SPECIFICATION FairSpec
CONSTANTS
  MaxAlerts = 2
  Interrupting = {2}
  Tokens = {h}
  MaxEvents = 3
INVARIANTS  ReadWasShown SlotsHaveOneWayOn
PROPERTIES NothingReachesACompaction 
CHECK_DEADLOCK FALSE
