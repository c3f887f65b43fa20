CONSTANTS
    home = home
    other = other
    Unset = Unset
    Absent = Absent
    NoCall = NoCall
    Namespaces <- MCNamespaces
    Marks <- MCMarks
    Calls <- MCCalls
    BodyCalls <- MCBodyCalls
    Watched = home
    Backends = {"cluster", "memory"}
    Pause = 1
    MaxCalls = 1
    MaxWrites = 2
    MaxEvents = 4
SPECIFICATION MCSpec
INVARIANTS
    ScriptTypeOK
    InTime
    NothingLost
PROPERTIES
    ImplementsStore
    WaitsEnd
    Delivered
    GoroutineEnds
CHECK_DEADLOCK FALSE
