SPECIFICATION Spec
CONSTANTS
  d1 = d1
  p1 = p1
  w1 = w1
  w2 = w2
  w3 = w3
  None = None
  Docs = {d1, p1}
  Pdfs = {p1}
  Workers = {w1, w2, w3}
  MaxAttempts = 3
  MaxStalls = 1
  Faults = {"upload", "db", "ack", "crash", "freeze"}
SYMMETRY WorkerSymmetry
CONSTRAINT FaultsBounded
INVARIANT TypeOK
INVARIANT UploadChain
INVARIANT BoundedRuns
INVARIANT RetryBound
INVARIANT DecisionIsClean
INVARIANT SettledIsDecided
INVARIANT IInv
CHECK_DEADLOCK FALSE
