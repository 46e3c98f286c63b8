SPECIFICATION Spec
CONSTANTS
  Dialect = "Postgres"
  NoTable = NoTable
  Histories <- Projects
  Rank <- Backwards
  Generator = "library"
  Appliers <- Both
  Settings <- Reverting
  MaxFaults = 0
  MaxCalls = 3
PROPERTY RevertsMostRecent
CHECK_DEADLOCK FALSE
