SPECIFICATION Spec
CONSTANTS
    Nothing = Nothing
    r1 = r1
    r2 = r2
    Requests = {r1, r2}
    Types = {"Blog", "Post", "Log"}
    Fields = {"id", "name"}
    Tables = {"blogs", "posts", "logs", "articles", "app_logs", "weblogs", "old_logs"}
    Columns = {"id", "name", "line", "title"}
    Filters = {"published"}
    Keys = {"default", "audit"}
    Compiled <- CompiledTypes
    KeyOf <- KeyOfTypes
    Token <- TokensOfTypes
    Trees = {"Blog"}
    Configurations <- Registrations
    Calls <- BuilderCalls
    MaxCalls = 0
    MaxBegun = 4
    MaxPanics = 1
    Uses = {}
INVARIANT BuiltOncePerPanic
SYMMETRY RequestSymmetry
CHECK_DEADLOCK FALSE
