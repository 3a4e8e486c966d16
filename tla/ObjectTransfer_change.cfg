SPECIFICATION FairSpec
CONSTANTS
  Runs = {r1}
  Contents <- Various
  Wanted <- Three
  MaxChanges = 3
  MaxCuts = 2
  MaxKills = 2
INVARIANT TypeOK
PROPERTY ImplementsStore
PROPERTY ReceivedIsKept
PROPERTY CutsAreResumed
