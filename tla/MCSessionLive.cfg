SPECIFICATION FairSession
CONSTANTS
  Pids = {p1, p2}
  Addrs = {a1}
  NULL = NULL
  Can = {"fork", "vfork", "exec", "exit", "kill"}
  Options = {{}, {"follow-fork"}, {"follow-exec"}, {"follow-fork", "follow-exec"}}
  MaxCalls = 3
INVARIANTS ExitHasWindow
PROPERTIES ConnectionsServed
CHECK_DEADLOCK FALSE
