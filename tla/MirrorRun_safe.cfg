SPECIFICATION FairSpec
CONSTANTS
  Paths = {1, 2, 3}
  Under <- InOne
  Deep <- DeepInOne
  Contents = {"a", "b"}
  Concurrency = 2
  GuardFiles = 2
  GuardPercent = 50
  MaxStamp = 3
  MaxFaults = 2
  OneSecond = FALSE
INVARIANT TypeOK
INVARIANT LinksResolve
INVARIANT GuardKept
INVARIANT MirrorExact
INVARIANT StampsOfContent
PROPERTY ImplementsPromise
PROPERTY EventuallyMirrored
