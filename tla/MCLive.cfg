SPECIFICATION FairSpec
CONSTANTS
  t1 = t1
  t2 = t2
  t3 = t3
  a1 = a1
  a2 = a2
  NULL = NULL
  Main = t1
  Threads = {t1, t2}
  Addrs = {a1}
  Sizes = {3}
  WireCap = 2
  SeqMod = 16
  ByteMod = 4
  MaxCalls = 2
  Faults = {"kill"}
  Clicks = {"detach", "quit"}
PROPERTIES NobodyHangs ReportApplied
CHECK_DEADLOCK FALSE
