SPECIFICATION Spec
CONSTANTS
  u1 = u1
  u2 = u2
  u3 = u3
  t1 = t1
  t2 = t2
  None = None
  Users = {u1, u2, u3}
  Threads = {t1, t2}
  Deployments <- MCDeployments
  Lockout = 3
  MaxMade = 2
  MaxFailed = 4
  MaxWrong = 9
SYMMETRY Symmetry
INVARIANTS
  LockoutBound
  AdminRemains
  CodeUsesBounded
  TotpUsable
  AvatarKept
CHECK_DEADLOCK FALSE
