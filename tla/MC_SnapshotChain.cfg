\* Failing calls, crashes and remounts.
CONSTANTS
  Ids <- MCIds
  LongIds <- MCLongIds
  Faults = TRUE
  Crashes = TRUE
  None = None
  Torn = Torn
  XattrSupport = TRUE

SPECIFICATION Spec

INVARIANT TypeOK
INVARIANT LatDirMatchesDisk
INVARIANT NoOrphanSnapshot
