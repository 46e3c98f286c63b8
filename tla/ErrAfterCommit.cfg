SPECIFICATION Spec
CONSTANTS
  Types <- ItemTypes
  Cols <- ItemCols
  HasMany <- NoNav
  InsertOrder <- ItemOrder
  Seeds <- ItemSeeds
  Values = {0, 1}
  Policies <- CascadeOnly
  UpsertKeys = {}
  Calls = {"attach", "edit"}
  Faults = {"on_saved"}
  UnsetKey = 0
  AfterFailure = "anything"
  AfterSave = "anything"
  MaxEntries = 1
  MaxCalls = 3
  MaxFaults = 1
  MaxOther = 0
INVARIANT ErrMeansUnchanged
CHECK_DEADLOCK FALSE
