SPECIFICATION Spec
CONSTANTS
  Types <- BlogTypes
  Cols <- BlogCols
  HasMany <- BlogNav
  InsertOrder <- BlogOrder
  Seeds <- BlogSeeds
  Values = {0}
  Policies <- CascadeOnly
  UpsertKeys = {}
  Calls = {"include"}
  Faults = {}
  UnsetKey = 0
  AfterFailure = "anything"
  AfterSave = "anything"
  MaxEntries = 3
  MaxCalls = 3
  MaxFaults = 0
  MaxOther = 0
INVARIANT SavedMeansStored
CHECK_DEADLOCK FALSE
