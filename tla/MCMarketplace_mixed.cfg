SPECIFICATION Spec
CONSTANTS
  a = a
  b = b
  x = x
  o = o
  Platform = platform
  NoWorker = NoWorker
  NoOffer = NoOffer
  Tenants = {a, b}
  Auths = {x}
  Offers = {o}
  Jobs = {j1, j2}
  Keys = {k1}
  Tasks = {t1}
  Workers = {w1}
  AuthTenant <- MCAuthTenant
  OfferAuth <- MCOfferAuth
  Concurrency <- MCConcurrency
  WorkerTenant <- MCWorkerTenant
  Estimates = {1, 2}
  Amounts = {1, 2}
  Welcome = 2
  FeeBps = 5000
  MaxAttempts = 1
  MaxActiveTasks = 1
  Segments = 1
  MaxRevision = 1
SYMMETRY Symmetry
INVARIANTS TypeOK NoOverdraft CapacityRespected SettledOnceAndWhole
CHECK_DEADLOCK FALSE
