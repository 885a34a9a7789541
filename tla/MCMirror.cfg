SPECIFICATION Spec
CONSTANTS
  t1 = t1
  t2 = t2
  t3 = t3
  a1 = a1
  a2 = a2
  NULL = NULL
  Main = t1
  Threads = {t1}
  Addrs = {a1, a2}
  Sizes = {0, 6}
  WireCap = 2
  SeqMod = 16
  ByteMod = 4
  MaxCalls = 5
  Faults = {}
  Clicks = {"record"}
INVARIANTS YellowIsAllocated
CHECK_DEADLOCK FALSE
