SPECIFICATION Spec
CONSTANTS
  c1 = c1
  c2 = c2
  k1 = k1
  k2 = k2
  s1 = s1
  p1 = p1
  p2 = p2
  t1 = t1
  t2 = t2
  Conns = {c1, c2}
  Stmts = {k1, k2}
  Saves = {s1}
  Handles = {t1, t2}
  Points = {p1, p2}
  MaxPoints = 3
  NoHandle = NoHandle
  Provider = "sqlite"
  Faults = {"pool_timeout", "begin", "stmt", "savepoint", "commit", "rollback"}
  Cancels = {}
  MayDrop = TRUE
  Concurrent = FALSE
  RuntimeStops = FALSE
SYMMETRY Symmetry
INVARIANT TypeOK
INVARIANT PoolIsClean
INVARIANT HandleOwnsSession
INVARIANT AcknowledgedIsDurable
INVARIANT UndoneIsGone
CHECK_DEADLOCK FALSE
