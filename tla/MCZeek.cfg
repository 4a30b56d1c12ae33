\* Lines that were written long ago, and no verdict that rests on them.
SPECIFICATION ZeekSpec
CONSTANTS
  t1 = t1
  t2 = t2
  Lookers = {t1, t2}
  Interval = 1
  TTL = 1
  ZeekLines = 2
  Until = 6
INVARIANT EvidenceSeen
\* The model ends with its bounds.
CHECK_DEADLOCK FALSE
