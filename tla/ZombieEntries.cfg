SPECIFICATION Spec
CONSTANTS
  Types <- TwoTypes
  Cols <- TwoCols
  HasMany <- NoNav
  InsertOrder <- TwoOrder
  Seeds <- TwoSeeds
  Values = {0, 1}
  Policies <- CascadeOnly
  UpsertKeys = {}
  Calls = {"add", "attach", "remove"}
  Faults = {}
  UnsetKey = 0
  AfterFailure = "anything"
  AfterSave = "anything"
  MaxEntries = 2
  MaxCalls = 4
  MaxFaults = 0
  MaxOther = 0
INVARIANT SetsMatchTracker
CHECK_DEADLOCK FALSE
