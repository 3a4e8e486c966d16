SPECIFICATION Spec
CONSTANTS
  core = core
  apt = apt
  r1 = r1
  r2 = r2
  Modules = {core, apt}
  Requests = {r1, r2}
  TokenOf <- OwnTokens
  TTL = 1
  MaxNow = 2
  MaxIndex = 1
  FineClock = TRUE
INVARIANT TypeOK
INVARIANT SessionsHaveSnapshots
INVARIANT ServedIsAuthorized
PROPERTY ImplementsTable
PROPERTY YoungSessionsStay
