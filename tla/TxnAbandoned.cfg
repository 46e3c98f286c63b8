SPECIFICATION FairSpec
CONSTANTS
  c1 = c1
  k1 = k1
  k2 = k2
  t1 = t1
  t2 = t2
  Conns = {c1}
  Stmts = {k1, k2}
  Saves = {}
  Handles = {t1, t2}
  Points = {}
  MaxPoints = 0
  NoHandle = NoHandle
  Provider = "postgres"
  Faults = {"stmt", "commit", "rollback"}
  Cancels = {}
  MayDrop = TRUE
  Concurrent = TRUE
  RuntimeStops = TRUE
PROPERTY ConnectionsReturn
PROPERTY CallsReturn
CHECK_DEADLOCK FALSE
