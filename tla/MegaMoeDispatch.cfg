SPECIFICATION Spec
CONSTANTS
  NPES = 2
  NUM_SMS = 2
  EPR = 2
  TOPK = 2
  BLOCK_M = 2
  BLOCK_R = 1
  MAX_RECV = 2
  PoolBlocks = 2
  MaxLaunches = 2
  Schedules <- TwoLaunches
INVARIANTS SameLaunch SumsAreFinal QueuesComplete ArrivedRowsPresent OutputExact
PROPERTY ScatterBeforeCombine
