SPECIFICATION Spec
CONSTANTS
  a = a
  b = b
  x = x
  o = o
  Platform = platform
  NoWorker = NoWorker
  NoOffer = NoOffer
  Tenants = {a, b}
  Auths = {x}
  Offers = {o}
  Jobs = {j1}
  Keys = {k1}
  Tasks = {t1}
  Workers = {w1, w2}
  AuthTenant <- MCAuthTenant
  OfferAuth <- MCOfferAuth
  Concurrency <- MCConcurrency
  WorkerTenant <- MCWorkerTenant
  Estimates = {1}
  Amounts = {1}
  Welcome = 1
  FeeBps = 5000
  MaxAttempts = 2
  MaxActiveTasks = 1
  Segments = 2
  MaxRevision = 2
SYMMETRY Symmetry
INVARIANTS CancellationHolds ReservedCredentialIsCurrent RevocationReachesTasks LeaseIsLastAttempt
CHECK_DEADLOCK FALSE
