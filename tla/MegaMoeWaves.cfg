SPECIFICATION FairSpec
CONSTANTS
  NUM_SMS = 2
  EPR = 3
  EPW = 2
  BLOCK_M = 2
  HiddenTiles = 2
  InterTiles = 1
  STAGES = 2
  TokenCounts = {0, 1, 3}
  PoolBlocks = 2
INVARIANTS SlotsMatchTiles TilesDisjoint AllRowsScattered
PROPERTY RolesStop

\* A role that stops before its last tile violates RolesStop.
CHECK_DEADLOCK FALSE
