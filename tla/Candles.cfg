\* Polls and backfills of up to two blocks over minutes of two, backfills of up to two pages,
\* rewinds, deaths and reorganisations of the newest block, one page at a time.
SPECIFICATION CandlesSpec
CONSTANTS
  Prices = {1, 2}
  PerMinute = 2
  Confirmations = 1
  MaxRange = 1
  MaxPages = 2
  None = None
  Faults <- NoOverlap
  MaxBlocks = 5
  MaxFaults = 2
INVARIANTS
  CandlesTypeOK
  ChartAsRead
\* Once MaxBlocks are mined and indexed nothing is left to do.
CHECK_DEADLOCK FALSE
