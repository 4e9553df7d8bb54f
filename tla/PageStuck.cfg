SPECIFICATION FairSpec
CONSTANTS
  p1 = p1
  p2 = p2
  d = d
  Doc = d
  Polls = {p1, p2}
  Faults = {"fail"}
PROPERTY UpdatesAutomatically
CHECK_DEADLOCK FALSE
