CONSTANTS
  Names <- MCNames
  SnRootName = "snapshots"
  SnCurrent = 2
  InitAlloc = 1
  Faults = TRUE
  Writers = TRUE
SPECIFICATION Spec
INVARIANT TypeOK ListingSound ListingComplete
PROPERTY ListingReturns
