SPECIFICATION FairSpec
CONSTANTS
  NoToken = NoToken
  NoCommand = NoCommand
  NoHandler = NoHandler
  Submitted = Submitted
  r1 = r1
  r2 = r2
  s1 = s1
  s2 = s2
  Suppliers = {s1}
  Requests = {r1}
  Tokens = {t1, t2}
  Commands = {c1}
  c1 = c1
  c2 = c2
  v2 = v2
  o1 = o1
  Expiring = {r1}
  KeysOf <- AllKeys
  SupplierOf <- Shared
  Reviewers = {v1}
  Revokers = {k1}
  Rotators = {o1}
  Publishers = {p1}
  Switchers = {w1}
  Rewrappers = {x1}
  PerToken = 1
  Verifications = 1
INVARIANTS SupplyNeedsAuthorization EndedHoldsNoCredential
PROPERTIES RevisionsTellGenerations CredentialsErased
CHECK_DEADLOCK FALSE
