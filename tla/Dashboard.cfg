SPECIFICATION FairSpec
CONSTANTS
  d1 = d1
  d2 = d2
  f1 = f1
  f2 = f2
  None = None
  Docs = {d1, d2}
  Suspects = {d1}
  Fetches = {f1, f2}
  Faults = {"upload", "fetch", "401"}
INVARIANT TypeOK
INVARIANT UploadIsListed
PROPERTY ListCatchesUp
CHECK_DEADLOCK FALSE
