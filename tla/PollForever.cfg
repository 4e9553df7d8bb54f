SPECIFICATION FairSpec
CONSTANTS
  d1 = d1
  w1 = w1
  None = None
  Docs = {d1}
  Pdfs = {}
  Workers = {w1}
  MaxAttempts = 3
  MaxStalls = 1
  Faults = {"crash"}
PROPERTY PollEnds
CHECK_DEADLOCK FALSE
