SPECIFICATION FairLookup
CONSTANTS
  Maps <- MCMaps
  PageSize = 4
  UIntMod = 256
  None = None
INVARIANTS LookupInv NearestSymbol
PROPERTIES LookupEnds
CHECK_DEADLOCK FALSE
