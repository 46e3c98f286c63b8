SPECIFICATION Spec
CONSTANTS
    Null = Null
    Setups <- EverySetup
    Blogs <- BlogTable
    Posts <- PostTable
    Bodies <- PlainBodies
    CteBodies <- SmallBodies
    Having <- GroupBodies
    Uses = {}
INVARIANT ListsWhatWasAsked
INVARIANT ScalarsAgreeWithTheList
INVARIANT BulkTouchesWhatWasAsked
INVARIANT NothingIsRefused
PROPERTY StaysInScope
CHECK_DEADLOCK FALSE
