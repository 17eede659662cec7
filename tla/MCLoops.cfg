SPECIFICATION LoopsSpec
CONSTANTS
  i1 = i1
  i2 = i2
  k1 = k1
  p1 = p1
  p2 = p2
  t1 = t1
  t2 = t2
  CxJobs = {k1}
  CxLoop = CxLoop
  CxReqs = {p1, p2}
  CxNoJob = CxNoJob
  CxMaxAttempts = 2
  CxLimit = 1
  CxMoves = 2
  NmTenants = {t1, t2}
  NmIds = {i1, i2}
  NmLoop = NmLoop
  NmReqs = {p1, p2}
  NmNone = NmNone
  NmPool = NmPool
  NmMoves = 3
INVARIANTS
  LoopsTypeOK
  SyncFaithful
  NumberHasOneOwner
PROPERTIES
  LoopsSettle
CHECK_DEADLOCK FALSE
