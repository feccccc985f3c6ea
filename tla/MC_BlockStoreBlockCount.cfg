\* Block size 4, an 8-byte snapshot-time file, one write: 2 bytes at offset
\* 3 cross from block 0 into block 1; 4 bytes at offset 4 fill block 1 up
\* to the end of the file.
CONSTANTS
  Threads = {t1}
  NoThread = NoThread
  BL_SLOG = 2
  SnSize = 8
  Offsets = {3, 4}
  Sizes = {2, 4}
  TruncSizes = {}
  MaxWrites = 1
  Faults = FALSE

SPECIFICATION Spec

INVARIANT PreservesOverlapped
