SPECIFICATION Spec
CONSTANTS
  p = p
  q = q
  w = w
  t = t
  m = m
  n = n
  x = x
  y = y
  v = v
  z = z
  Uploads = {p, q, w, t, m, n}
  Kind <- MCKind
  Files <- MCFiles
  Targets = {x, y, v, z}
  Target <- MCTarget
  PerTarget = 2
  Quotas = {2, 3, Unlimited}
  Unlimited = Unlimited
  Nobody = Nobody
  MaxQuotaChanges = 1
INVARIANTS
  TypeOK
  DeadlockSparesOne
PROPERTIES
  CommitsWithinQuota
  EveryUploadEnds
CHECK_DEADLOCK FALSE
