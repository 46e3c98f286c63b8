SPECIFICATION Spec
CONSTANTS
  Types <- BlogTypes
  Cols <- BlogCols
  HasMany <- BlogNav
  InsertOrder <- BlogOrder
  Seeds <- BlogSeeds
  Values = {0}
  Policies <- CascadeOnly
  UpsertKeys = {}
  Calls = {"add"}
  Faults = {"statement"}
  UnsetKey = 0
  AfterFailure = "retry"
  AfterSave = "anything"
  MaxEntries = 3
  MaxCalls = 3
  MaxFaults = 1
  MaxOther = 0
INVARIANT ReferencesHold
CHECK_DEADLOCK FALSE
