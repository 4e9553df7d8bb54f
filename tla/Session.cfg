SPECIFICATION Spec
CONSTANTS
  u1 = u1
  u2 = u2
  t1 = t1
  t2 = t2
  c1 = c1
  c2 = c2
  None = None
  Users = {u1, u2}
  Tabs = {t1, t2}
  Calls = {c1, c2}
  Faults = {"net", "busy", "lapse"}
SYMMETRY SessionSymmetry
INVARIANT TypeOK
INVARIANT SessionIsWhole
INVARIANT RequestsKeepTheirUser
PROPERTY OnlyTheUserSignsOut
CHECK_DEADLOCK FALSE
