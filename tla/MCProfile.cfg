SPECIFICATION ProfSpec
CONSTANTS
  Objects <- MCObjects
  FunctionIn <- MCFunctionIn
  PageOf <- MCPageOf
  Mappings <- MCMappings
  MaxReads = 2
  Traces <- MCTraces
  Sizes = {0, 1, 199}
  SkipSets = {{"h"}}
  ByteMod = 65536
  MaxBlocks = 2
  NULL = NULL
INVARIANTS StashExact FlatTotals ReportExact
CHECK_DEADLOCK FALSE
