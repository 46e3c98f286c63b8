SPECIFICATION Spec
CONSTANTS
  Types <- BlogTypes
  Cols <- BlogCols
  HasMany <- BlogNav
  InsertOrder <- BlogOrder
  Seeds <- BlogSeeds
  Values = {0}
  Policies <- ThreePolicies
  UpsertKeys = {3}
  Calls = {"add", "attach", "include", "update", "upsert", "edit", "remove", "remove_all", "detect", "clear"}
  Faults = {"statement", "on_saved"}
  UnsetKey = 0
  AfterFailure = "clear"
  AfterSave = "clear"
  MaxEntries = 4
  MaxCalls = 4
  MaxFaults = 1
  MaxOther = 0
INVARIANT ReferencesHold
INVARIANT FailuresHaveACause
CHECK_DEADLOCK FALSE
