SPECIFICATION FairSpec
CONSTANTS
  Workers = {w1, w2}
  OpCount = 2
  Nobody = Nobody
  MaxDeaths = 1
  Interrupts = TRUE
INVARIANTS NothingLeftBehind ReportComplete NoMessageUnread
PROPERTIES RunEnds
CHECK_DEADLOCK FALSE
