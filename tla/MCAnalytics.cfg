SPECIFICATION FairSpec
CONSTANTS
  r1 = r1
  r2 = r2
  r3 = r3
  Rows = {r1, r2, r3}
  TableOf <- MCTableOf
  Actor <- MCActor
  Reasons <- MCReasons
  Rank <- MCRank
  Width <- MCWidth
  Lookback <- MCLookback
  Keep <- MCKeep
  Shift = 4
  DaysPerWeek = 2
  EpochWeekday = 1
  RawKeep = 4
  Interval = 2
  Backfills = {0, 7}
  Bounds <- MCBounds
INVARIANTS
  LossExplained
  OverCountBounded
  FiguresBounded
  PatternsReal
PROPERTIES
  CountKept
  RowsSettle
  ImplementsFate
CHECK_DEADLOCK FALSE
