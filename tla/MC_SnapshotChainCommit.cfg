\* No failures, no crash: does a successful sn_create commit the snapshot?
CONSTANTS
  Ids <- MCIds
  LongIds <- MCLongIds
  Faults = FALSE
  Crashes = FALSE
  None = None
  Torn = Torn
  XattrSupport = TRUE

SPECIFICATION Spec

PROPERTY CreateCommits
