SPECIFICATION Spec
CONSTANTS
  Paths = {1, 2}
  Under <- Apart
  Deep <- Apart
  Contents = {"a", "b"}
  Concurrency = 2
  GuardFiles = 9
  GuardPercent = 0
  MaxStamp = 3
  MaxFaults = 0
  OneSecond = TRUE
INVARIANT MirrorExact
