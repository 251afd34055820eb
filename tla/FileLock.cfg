SPECIFICATION FairSpec
CONSTANTS
  k = k
  a = a
  b = b
  c = c
  Owners = {a, b, c}
  Pids = {a, b, c}
  PidOf <- Apart
  Tokens = {k}
  MaxCrashes = 2
INVARIANTS MutualExclusion RemovesWhatItObserved HeldByFile
PROPERTIES DeadLocksAreRecovered
