SPECIFICATION Spec
CONSTANTS
  Types <- ItemTypes
  Cols <- ItemCols
  HasMany <- NoNav
  InsertOrder <- ItemOrder
  Seeds <- ItemSeeds
  Values = {0, 1}
  Policies <- CascadeOnly
  UpsertKeys = {}
  Calls = {"attach", "edit", "update"}
  Faults = {}
  UnsetKey = 0
  AfterFailure = "anything"
  AfterSave = "anything"
  MaxEntries = 2
  MaxCalls = 4
  MaxFaults = 0
  MaxOther = 0
INVARIANT SavedMeansStored
CHECK_DEADLOCK FALSE
