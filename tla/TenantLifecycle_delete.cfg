SPECIFICATION Spec
CONSTANTS
  t1 = t1
  t2 = t2
  c1 = c1
  c2 = c2
  u1 = u1
  u2 = u2
  d1 = d1
  Tenants = {t1, t2}
  Requests = {c1, d1}
  Kind <- MCKind
  Target <- MCTarget
  Ask <- MCAsk
  DefaultWorkers = 1
  MaxWorkers = 3
  WorkerLimit = 4
  CreateWorkers = 2
  MaxRestarts = 0
INVARIANT
  DeleteStopsConsumer
CHECK_DEADLOCK FALSE
