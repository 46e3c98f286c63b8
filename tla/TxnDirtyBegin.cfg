SPECIFICATION Spec
CONSTANTS
  c1 = c1
  c2 = c2
  k1 = k1
  t1 = t1
  t2 = t2
  Conns = {c1, c2}
  Stmts = {k1}
  Saves = {}
  Handles = {t1, t2}
  Points = {}
  MaxPoints = 0
  NoHandle = NoHandle
  Provider = "postgres"
  Faults = {}
  Cancels = {"begin"}
  MayDrop = FALSE
  Concurrent = FALSE
  RuntimeStops = FALSE
INVARIANT PoolIsClean
CHECK_DEADLOCK FALSE
