CONSTANTS
  Names <- MCNames
  SnRootName = "snapshots"
  SnCurrent = 1
  InitAlloc = 1
  Faults = FALSE
  Writers = TRUE
SPECIFICATION Spec
INVARIANT ListingStable
