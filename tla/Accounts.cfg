SPECIFICATION Spec
CONSTANTS
  f1 = f1
  f2 = f2
  s1 = s1
  s2 = s2
  q1 = q1
  q2 = q2
  d1 = d1
  d2 = d2
  None = None
  Founders = {f1, f2}
  Slugs = {s1, s2}
  Requests = {q1, q2}
  Docs = {d1, d2}
  Faults = {"db", "ack"}
SYMMETRY AccountsSymmetry
INVARIANT TypeOK
INVARIANT SlugsAreSettled
INVARIANT SuspensionStopsCalls
INVARIANT SuspensionStopsLogins
INVARIANT TenantsAreApart
PROPERTY RegistrySpec
CHECK_DEADLOCK FALSE
