SPECIFICATION Spec
CONSTANTS
  WorldSize = 2
  MaxTokens = 4
  TilesPerRow = 1
  Backends = {"peer"}
  ProgramLimit = 1
  OneShotTokens <- OneToken
  TokenCounts <- OneOrTwo
  MaxCalls = 4
INVARIANT ReductionExact
