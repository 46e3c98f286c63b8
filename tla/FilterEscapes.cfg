SPECIFICATION Spec
CONSTANTS
    Null = Null
    Setups <- EverySetup
    Blogs <- BlogTable
    Posts <- PostTable
    Bodies <- TopLevelOr
    CteBodies <- SmallBodies
    Having <- GroupBodies
    Uses = {"or over a filter"}
CHECK_DEADLOCK FALSE
INVARIANT HiddenRowsStayHidden
