\* No failures, no crash, a filesystem with xattr support: does the xattr
\* probe report the support?
CONSTANTS
  Ids <- MCIds
  LongIds <- MCLongIds
  Faults = FALSE
  Crashes = FALSE
  None = None
  Torn = Torn
  XattrSupport = TRUE

SPECIFICATION Spec

INVARIANT XattrProbeSound
