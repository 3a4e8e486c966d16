\* Directories come and go; the event queue never fills.
CONSTANTS
  a = a  b = b  d = d  root = root
  Files <- TwoFiles
  Root = root
  SubDirs = {d}
  DirOf <- TwoDirOf
  FirstDirs = {}
  Contents = {c1, c2}
  Absent = absent
  MaxChanges = 5
  QueueLimit = 5
  EarlyChanges = FALSE
  NewDirs = TRUE
  WatchFaults = FALSE
  ScanFaults = FALSE
SPECIFICATION FairSpec
CHECK_DEADLOCK FALSE
INVARIANT RestIsFresh
PROPERTIES ImplementsIndex FreshEventually
