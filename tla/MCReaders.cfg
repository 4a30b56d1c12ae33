\* The smallest retention the README allows plus the delay between the checks; the clock
\* runs past the point where nonces are forgotten.
SPECIFICATION MCSpec
CONSTANTS
  audited = audited
  logged = logged
  w1 = w1
  w2 = w2
  w3 = w3
  q1 = q1
  Writers = {w1, w2, w3}
  Posts = {q1}
  Pages = {audited, logged}
  KindOf <- MCKindOf
  QueueCap = 1
  PageSize = 1
  Bounds <- MCBounds
  Files = 2
  LineCount = 2
  Handlings = 1
  Requests = {r1, r2}
  Threads = {t1, t2}
  Skew = 2
  Retention = 3
  SweepEvery = 1
  MaxDelay = 2
  Drift = 3
  MaxTime = 9
  Never = Never
SYMMETRY Symmetry
INVARIANTS
  AtMostOnce
  NoFalseReplay
  WalkComplete
  NoSilentLoss
  LinesOnce
\* Writers, pages and readers stop when they are done.
CHECK_DEADLOCK FALSE
