SPECIFICATION Spec
CONSTANTS
  NoToken = NoToken
  NoCommand = NoCommand
  NoHandler = NoHandler
  Submitted = Submitted
  r1 = r1
  r2 = r2
  s1 = s1
  s2 = s2
  Suppliers = {s1, s2}
  Requests = {r1, r2}
  Tokens = {t1}
  Commands = {c1, c2}
  c1 = c1
  c2 = c2
  v2 = v2
  o1 = o1
  Expiring = {r1, r2}
  KeysOf <- AllKeys
  SupplierOf <- Apart
  Reviewers = {v1, v2}
  Revokers = {}
  Rotators = {}
  Publishers = {}
  Switchers = {}
  Rewrappers = {}
  PerToken = 2
  Verifications = 1
INVARIANTS TokenNamesOneSupplier
CHECK_DEADLOCK FALSE
