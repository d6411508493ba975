SPECIFICATION Spec
CONSTANTS
  WorldSize = 2
  MaxTokens = 3
  TilesPerRow = 1
  Backends = {"mnnvl", "peer"}
  ProgramLimit = 1
  OneShotTokens <- Thresholds
  TokenCounts <- Payloads
  MaxCalls = 4
INVARIANTS ReductionExact LandsOnSentinel SkewAtMostOne SomebodyMoves
PROPERTIES ClearsOnlyThePast ImplementsService
