SPECIFICATION FairSpec
CONSTANTS
  c1 = c1
  k1 = k1
  k2 = k2
  s1 = s1
  p1 = p1
  t1 = t1
  t2 = t2
  Conns = {c1}
  Stmts = {k1}
  Saves = {s1}
  Handles = {t1, t2}
  Points = {p1}
  MaxPoints = 2
  NoHandle = NoHandle
  Provider = "mysql"
  Faults = {"begin", "isolation", "stmt", "deadlock", "commit"}
  Cancels = {"begin"}
  MayDrop = TRUE
  Concurrent = FALSE
  RuntimeStops = FALSE
PROPERTY SessionRecovers
CHECK_DEADLOCK FALSE
