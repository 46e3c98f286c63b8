SPECIFICATION Spec
CONSTANTS
  Types <- ItemTypes
  Cols <- ItemCols
  HasMany <- NoNav
  InsertOrder <- ItemOrder
  Seeds <- ItemSeeds
  Values = {0, 1}
  Policies <- CascadeOnly
  UpsertKeys = {2, 9}
  Calls = {"add", "attach", "upsert", "edit", "remove", "remove_added", "remove_all", "load_all", "clear"}
  Faults = {"on_saving", "begin", "statement", "commit", "on_saved"}
  UnsetKey = 0
  AfterFailure = "retry"
  AfterSave = "anything"
  MaxEntries = 3
  MaxCalls = 5
  MaxFaults = 2
  MaxOther = 0
INVARIANT SetsMatchTracker
INVARIANT SavedMeansStored
PROPERTY CommitIsExact
INVARIANT CommittedIsAccepted
CHECK_DEADLOCK FALSE
