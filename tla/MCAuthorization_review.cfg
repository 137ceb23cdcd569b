SPECIFICATION Spec
CONSTANTS
  NoToken = NoToken
  NoCommand = NoCommand
  NoHandler = NoHandler
  Submitted = Submitted
  r1 = r1
  r2 = r2
  s1 = s1
  s2 = s2
  Suppliers = {s1}
  Requests = {r1, r2}
  Tokens = {t1, t2}
  Commands = {c1, c2}
  c1 = c1
  c2 = c2
  v2 = v2
  o1 = o1
  Expiring = {}
  KeysOf <- OneKey
  SupplierOf <- Shared
  Reviewers = {v1, v2}
  Revokers = {k1}
  Rotators = {o1}
  Publishers = {}
  Switchers = {}
  Rewrappers = {}
  PerToken = 1
  Verifications = 1
INVARIANTS LogMatchesRows RepliesAreTrue TokenLimitHolds
SYMMETRY Symmetry
CHECK_DEADLOCK FALSE
