SPECIFICATION NodeKeysSpec
CONSTANTS
  NoBody = NoBody
  NoNonce = NoNonce
  NoId = NoId
  Nonces = {x1, x2}
  Ids = {y1, y2}
  Bodies = {b1, b2}
  Window = 1
  TTL = 2
  Timeout = 1
  Minute = 1
  Concurrency = 1
  PerMinute = 1
  MaxSeen = 2
  MaxCached = 1
  MaxTime = 3
  MaxRuns = 2
  k1 = k1
  k2 = k2
  m1 = m1
  m2 = m2
  m3 = m3
  KeyIds = {k1, k2}
  Materials = {m1, m2, m3}
  NoMaterial = NoMaterial
  NoKey = NoKey
  NoCommand = NoCommand
  Raw = Raw
  Manifests <- MCManifests
  Compat <- MCCompat
  Recovery <- MCRecovery
  Commands = {y1, y2}
  Rows = {r1}
  Handlers = {x1, x2}
SYMMETRY Symmetry
INVARIANTS NonceOnce BilledOnce ExecutionsJournaled RestartPossible CapacityHeld
INVARIANTS  CountedRowsStayReadable EffectsHaveEvents ReportsAreRecorded AgentCallOnce
CHECK_DEADLOCK FALSE
