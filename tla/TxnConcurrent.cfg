SPECIFICATION Spec
CONSTANTS
  c1 = c1
  c2 = c2
  k1 = k1
  s1 = s1
  t1 = t1
  t2 = t2
  Conns = {c1, c2}
  Stmts = {k1}
  Saves = {s1}
  Handles = {t1, t2}
  Points = {}
  MaxPoints = 0
  NoHandle = NoHandle
  Provider = "postgres"
  Faults = {"pool_timeout", "begin", "stmt", "savepoint", "commit", "rollback", "rollback_to"}
  Cancels = {"statement", "save", "commit"}
  MayDrop = TRUE
  Concurrent = TRUE
  RuntimeStops = TRUE
SYMMETRY Symmetry
INVARIANT PoolIsClean
INVARIANT AbandonedIsGone
INVARIANT CommittedIsDurable
CHECK_DEADLOCK FALSE
