SPECIFICATION Spec
CONSTANTS
  t1 = t1
  t2 = t2
  t3 = t3
  a1 = a1
  a2 = a2
  NULL = NULL
  Main = t1
  Threads = {t1, t2}
  Addrs = {a1, a2}
  Sizes = {6}
  WireCap = 2
  SeqMod = 16
  ByteMod = 4
  MaxCalls = 3
  Faults = {"oom", "kill"}
  Clicks = {"reset"}
INVARIANTS TypeOK CountMatches BytesMatch
PROPERTIES ReplaysTheLog
CHECK_DEADLOCK FALSE
