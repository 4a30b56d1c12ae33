\* Bursts: two workers and two sources; every third event sweeps the idle sources.
\* Windows: two of three sources fit; every second new flow sweeps the idle flows.
SPECIFICATION MCSpec
CONSTANTS
  t1 = t1
  t2 = t2
  s1 = s1
  s2 = s2
  s3 = s3
  Threads = {t1, t2}
  Sources = {s1, s2}
  Window = 5
  Dedup = 3
  GlobalDedup = 1
  MinFast = 0
  MinSlow = 1
  EvictEvery = 3
  MaxDelay = 1
  Start = 3
  MaxTime = 10
  MaxEvents = 4
  WindowBounds <- MCWindowBounds
  Span = 2
  FloodWindow = 1
  Flood = 2
  Many = 2
  Length = 4
  Capacity = 2
  FlowIdle = 2
  FlowSweep = 2
SYMMETRY Symmetry
INVARIANTS
  WindowComplete
  VerdictExact
  TableBounded
  FlowKept
PROPERTIES PerSourceSpacing
\* The model ends with its bounds.
CHECK_DEADLOCK FALSE
