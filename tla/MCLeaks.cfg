SPECIFICATION LeakSpec
CONSTANTS
  Threads = {t1, t2}
  Root = t1
  Listings <- MCListings
  WordSize = 4
  Heap <- MCHeap
  Sections <- MCSections
  Stack <- MCStack
  Esp = 24
  StartStack = 28
  Readable <- MCReadable
  Pointers <- MCPointers
  Faults = {"kill"}
  MaxStores = 3
  MaxSearches = 2
INVARIANTS LeakInv LeaksBetween ShownBlocksLive
PROPERTIES SearchEnds
CHECK_DEADLOCK FALSE
