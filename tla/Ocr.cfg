SPECIFICATION FairSpec
CONSTANTS
  w1 = w1
  w2 = w2
  r1 = r1
  r2 = r2
  None = None
  Callers = {w1, w2}
  Runs = {r1, r2}
  OcrLimit = 2
  CallLimit = 4
  Lag = 1
  Faults = {"error", "mkdtemp", "rm", "net", "crash"}
INVARIANT TypeOK
INVARIANT AnsweredInTime
INVARIANT RunsDoNotPileUp
PROPERTY EveryCallEnds
PROPERTY EveryDirectoryGoes
CHECK_DEADLOCK FALSE
