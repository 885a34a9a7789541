SPECIFICATION FairSpec
CONSTANTS
  Paths = {f1}
  MaxProcs = 3
  NULL = NULL
  Retries = 2
  MaxWindows = 2
INVARIANTS WindowsInv OldestShown SocketOwned
PROPERTIES CrashNeeds TermEnds
CHECK_DEADLOCK FALSE
