\* The tree changes between the first scan and the first watch.
CONSTANTS
  a = a  b = b  d = d  root = root
  Files <- TwoFiles
  Root = root
  SubDirs = {d}
  DirOf <- TwoDirOf
  FirstDirs = {d}
  Contents = {c1, c2}
  Absent = absent
  MaxChanges = 1
  QueueLimit = 3
  EarlyChanges = TRUE
  NewDirs = FALSE
  WatchFaults = FALSE
  ScanFaults = FALSE
SPECIFICATION FairSpec
CHECK_DEADLOCK FALSE
INVARIANT RestIsFresh
