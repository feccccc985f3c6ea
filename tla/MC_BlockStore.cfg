\* Two writers, no failures: the locking protocol and block accounting.
CONSTANTS
  Threads = {t1, t2}
  NoThread = NoThread
  BL_SLOG = 1
  SnSize = 4
  Offsets <- MCOffsets
  Sizes <- MCSizes
  TruncSizes <- MCTruncSizes
  MaxWrites = 2
  Faults = FALSE

SPECIFICATION Spec

INVARIANT TypeOK
INVARIANT ExactlyOnce

PROPERTY Refinement
PROPERTY PointerWriteOnce
PROPERTY WriteReturns
