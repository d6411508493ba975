SPECIFICATION GridSpec
CONSTANTS
  WorldSize = 2
  MaxTokens = 1
  TilesPerRow = 2
  Backends = {"mnnvl"}
  ProgramLimit = 2
  OneShotTokens <- OneToken
  TokenCounts <- Single
  MaxCalls = 2
INVARIANTS PartialsReady OneGeneration
