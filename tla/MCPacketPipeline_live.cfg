\* Liveness, without symmetry: the callback preprocesses in line, one worker
\* ids whose first incarnations may hang, a watchdog that survives.
SPECIFICATION FairSpec
CONSTANTS
  Packets = {p1, p2}
  Workers = {w1}
  Preps = {}
  RawCap = 1
  PktCap = 1
  KeepEvery = 2
  MaxRetries = 0
  MaxRestarts = 2
  HealthMayFail = FALSE
  NoPacket = NoPacket
PROPERTIES
  QueuedServed
  StalledReplaced
\* The process really stops: after Exit no thread is left.
CHECK_DEADLOCK FALSE
