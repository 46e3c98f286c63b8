SPECIFICATION Spec
CONSTANTS
  Dialect = "Postgres"
  NoTable = NoTable
  Histories <- Projects
  Rank <- InOrder
  Generator = "library"
  Appliers <- Both
  Settings <- OperatorOrStartup
  MaxFaults = 1
  MaxCalls = 3
INVARIANT AppliedMeansModel
INVARIANT RevertedMeansTarget
INVARIANT ScriptsAreAccepted
CHECK_DEADLOCK FALSE
