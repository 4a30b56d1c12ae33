\* Two changes of the rules and one failure or restart at any point.
SPECIFICATION FairSpec
CONSTANTS
  r1 = r1  r2 = r2  r3 = r3
  n1 = n1  n2 = n2
  t1 = t1  t2 = t2  loop = loop
  Rules = {r1, r2, r3}
  Needles = {n1, n2}
  NeedleOf <- MCNeedleOf
  Web = web  Ssl = ssl
  Processes = {web, ssl}
  Callers = {t1, t2, loop}
  Home <- MCHome
  MaxChanges = 2
  MaxFailures = 1
INVARIANTS
  DuplicatesBounded
PROPERTIES Converges
