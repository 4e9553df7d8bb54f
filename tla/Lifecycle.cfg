SPECIFICATION FairSpec
CONSTANTS
  d1 = d1
  w1 = w1
  w2 = w2
  None = None
  Docs = {d1}
  Pdfs = {}
  Workers = {w1, w2}
  MaxAttempts = 3
  MaxStalls = 1
  Faults = {"upload", "db", "ack", "crash", "freeze"}
PROPERTY DecisionStands
PROPERTY RunsRunOut
PROPERTY LifecycleSpec
PROPERTY EveryJobSettles
PROPERTY EveryAcceptedDecided
CHECK_DEADLOCK FALSE
