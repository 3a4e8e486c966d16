SPECIFICATION FairSpec
CONSTANTS
  Clients = {c1, c2}
  Refused = {c2}
  Backoffs = 1
  TTL = 2
  MaxTree = 4
  MaxFaults = 2
  EarlyChanges = FALSE
INVARIANT TypeOK
INVARIANT OnlyFaultsFail
PROPERTY CheckedOutsideJob
PROPERTY NothingOlder
PROPERTY EveryRunEnds
PROPERTY SettledIsShown
