SPECIFICATION Spec
CONSTANTS
  Types <- ItemTypes
  Cols <- ItemCols
  HasMany <- NoNav
  InsertOrder <- ItemOrder
  Seeds <- ItemSeeds
  Values = {0, 1}
  Policies <- CascadeOnly
  UpsertKeys = {}
  Calls = {"add", "remove", "remove_added"}
  Faults = {"statement", "commit"}
  UnsetKey = 0
  AfterFailure = "anything"
  AfterSave = "anything"
  MaxEntries = 2
  MaxCalls = 5
  MaxFaults = 1
  MaxOther = 0
PROPERTY CommitIsExact
CHECK_DEADLOCK FALSE
