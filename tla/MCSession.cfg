SPECIFICATION SessionSpec
CONSTANTS
  Pids = {p1, p2}
  Addrs = {a1}
  NULL = NULL
  Can = {"fork", "exec", "exit", "kill", "detach"}
  Options = {{}, {"follow-fork"}, {"follow-exec"}, {"follow-fork", "follow-exec"}}
  MaxCalls = 3
SYMMETRY Interchangeable
INVARIANTS SessionInv OneOwner ImageInStep
CHECK_DEADLOCK FALSE
