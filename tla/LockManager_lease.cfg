\* Anybody may release anything; o3's locks cannot be read back.
CONSTANTS
  Keys <- NestedKeys
  Owners = {o1, o2, o3}
  PipedOwners = {o3}
  NoOwner = nobody
  TTLs <- ShortAndLong
  MaxNow = 4
  ReadFaults = FALSE
SPECIFICATION Spec
INVARIANTS TypeOK LocksExclusive
PROPERTIES  OnlyOwnerFrees ImplementsLease
