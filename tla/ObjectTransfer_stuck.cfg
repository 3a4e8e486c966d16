SPECIFICATION FairSpec
CONSTANTS
  Runs = {r1}
  Contents <- Same
  Wanted <- Three
  MaxChanges = 0
  MaxCuts = 0
  MaxKills = 1
PROPERTY EventuallyStored
