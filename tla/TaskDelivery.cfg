SPECIFICATION FairSpec
CONSTANTS
  Tasks = {t1}
  Texts = {a, b}
  Clients = {c1, c2}
  Memberships = {1}
  MaxCommits = 2
  MaxFaults = 1
INVARIANTS SettledIsPresented ResolvedIsQueued
PROPERTIES AcknowledgedIsNotResent  NothingSupersededIsSent
CHECK_DEADLOCK FALSE
