\* One writer; every call may fail, flock_unlock included.
CONSTANTS
  Threads = {t1}
  NoThread = NoThread
  BL_SLOG = 1
  SnSize = 4
  Offsets = {0}
  Sizes = {1}
  TruncSizes = {}
  MaxWrites = 1
  Faults = TRUE

SPECIFICATION Spec

PROPERTY CountMeansWritten
