SPECIFICATION Spec
CONSTANTS
  Streams = {s1, s2}
  Owners = {o1}
  Graphs = {g1, g2}
  Programs = 2
  Tiles = 3
  Splits = 3
  PoolSize = 2
  Junk = {1}
  NoGraph = NoGraph
  MaxCounters = 4
  MaxCalls = 4
SYMMETRY Alike
INVARIANTS PairsWorkedOnce SplitsCombinedOnce CountersRest
CHECK_DEADLOCK FALSE
