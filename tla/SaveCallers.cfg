SPECIFICATION Spec
CONSTANTS
  Types <- ItemTypes
  Cols <- ItemCols
  HasMany <- NoNav
  InsertOrder <- ItemOrder
  Seeds <- ItemSeeds
  Values = {0, 1}
  Policies <- CascadeOnly
  UpsertKeys = {2, 9}
  Calls = {"add", "attach", "update", "upsert", "remove", "clear", "retain", "reject", "detach"}
  Faults = {"statement", "commit"}
  UnsetKey = 0
  AfterFailure = "anything"
  AfterSave = "anything"
  MaxEntries = 3
  MaxCalls = 4
  MaxFaults = 1
  MaxOther = 1
PROPERTY CommitIsExact
CHECK_DEADLOCK FALSE
