SPECIFICATION Spec
CONSTANTS
  d1 = d1
  w1 = w1
  None = None
  Docs = {d1}
  Pdfs = {}
  Workers = {w1}
  MaxAttempts = 3
  MaxStalls = 1
  Faults = {"db"}
INVARIANT ExhaustedIsFailed
CHECK_DEADLOCK FALSE
