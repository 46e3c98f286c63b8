SPECIFICATION Spec
CONSTANTS
    Null = Null
    Nothing = Nothing
    Scenarios <- GoodScenarios
    MAX_LAZY_DEPTH = 2
    MaxWrites = 1
    MaxUses = 3
    Uses = {}
INVARIANT MembersBelong
INVARIANT NothingIsMissing
INVARIANT HiddenStayHidden
INVARIANT LoadTakesEffect
INVARIANT AddedIsKept
CHECK_DEADLOCK FALSE
