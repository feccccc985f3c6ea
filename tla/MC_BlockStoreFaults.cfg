\* Two writers; every system call, the malloc and the lock may fail.
CONSTANTS
  Threads = {t1, t2}
  NoThread = NoThread
  BL_SLOG = 1
  SnSize = 4
  Offsets <- MCFaultOffsets
  Sizes <- MCFaultSizes
  TruncSizes <- MCFaultTruncSizes
  MaxWrites = 2
  Faults = TRUE

SPECIFICATION Spec


PROPERTY Refinement
