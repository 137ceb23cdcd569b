SPECIFICATION AgentsSpec
CONSTANTS
  a = a
  b = b
  policy = policy
  code = code
  Sessions = {a, b}
  Files = {policy, code}
  PolicyFile = policy
  Protected = {code}
  Phases = {1, 2}
  ProposalsOf <- ProposedBy
  OptionsOf <- Options
  MaxCommands = 1
  MaxEdits = 1
  MaxRollbacks = 1
  User = User
  Parts = 3
  Fan = 2
  MaxClaims = 2
INVARIANTS   OneEnding ReportIsTrue
INVARIANTS DiskIsAhead PaidWorkIsNew ResumeFailsOnlyAfterLoss ChargedOnePass
CHECK_DEADLOCK FALSE
