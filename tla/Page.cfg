SPECIFICATION FairFollowSpec
CONSTANTS
  d1 = d1
  w1 = w1
  p1 = p1
  p2 = p2
  None = None
  Docs = {d1}
  Pdfs = {}
  Workers = {w1}
  MaxAttempts = 2
  MaxStalls = 1
  Faults = {"db", "ack", "crash"}
  Doc = d1
  Polls = {p1, p2}
  PageFaults = {"fail", "401"}
INVARIANT RestsOnTheTruth
INVARIANT FollowTypeOK
PROPERTY DecisionIsShown
PROPERTY PageSpec
PROPERTY OutcomeIsSeen
CHECK_DEADLOCK FALSE
