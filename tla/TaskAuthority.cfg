SPECIFICATION Spec
CONSTANTS
  Operations = {p, q, r}
  MaxLog = 3
  MaxRetries = 1
  MaxFaults = 1
SYMMETRY Renamings
INVARIANTS CommittedOnce CommittedIsNotRefused OneAnswer PublishedOnce
 
CHECK_DEADLOCK FALSE
