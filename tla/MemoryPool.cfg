SPECIFICATION Spec
CONSTANTS
  PoolSize = 5
  LargeMark = 5
  LargeNodeSize = 1
  ChainNodeSize = 1
  BlockSize = 1
  BlockListSize = 1
  MaxFailures = 1
  NULL = NULL
  Requests = {2, 5}
  MaxPools = 3
  MaxBufs = 2
  MaxLists = 3
  MaxNodes = 4
  MaxBlocks = 3
INVARIANTS PoolsOK  OneChain UpdateSorts
CHECK_DEADLOCK FALSE
