\* A preprocess thread and one worker id that is replaced at most once; both
\* queues have one slot, so three packets meet every drop and the pressure rule.
SPECIFICATION Spec
CONSTANTS
  Packets = {p1, p2, p3}
  Workers = {w1}
  Preps = {r1}
  RawCap = 1
  PktCap = 1
  KeepEvery = 2
  MaxRetries = 1
  MaxRestarts = 1
  HealthMayFail = TRUE
  NoPacket = NoPacket
SYMMETRY Symmetry
INVARIANTS
  Conservation
  RecordedBounded
PROPERTIES
  CleanReplacement
  ImplementsFlow
\* The process really stops: after Exit no thread is left.
CHECK_DEADLOCK FALSE
