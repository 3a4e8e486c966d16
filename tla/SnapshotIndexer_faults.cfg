\* Everything that can fail may fail.
CONSTANTS
  a = a  b = b  d = d  root = root
  Files <- TwoFiles
  Root = root
  SubDirs = {d}
  DirOf <- TwoDirOf
  FirstDirs = {d}
  Contents = {c1, c2}
  Absent = absent
  MaxChanges = 4
  QueueLimit = 2
  EarlyChanges = TRUE
  NewDirs = TRUE
  WatchFaults = TRUE
  ScanFaults = TRUE
SPECIFICATION FairSpec
CHECK_DEADLOCK FALSE
INVARIANT TypeOK
PROPERTY EventsRescan
