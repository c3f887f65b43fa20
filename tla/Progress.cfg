CONSTANTS
    a = a
    b = b
    c = c
    d = d
    e = e
    Root = a
    Charts <- MCCharts
    Objects <- MCObjects
    SubCharts <- MCSubCharts
    Dependencies <- MCDependencies
    Custom = {a}
    Repeats = 2
    Reports = {50, 100}
    OwnTools = {"kapp"}
    Tool = "kubectl"
SPECIFICATION ProgressSpec
INVARIANTS
    ProgressTypeOK
    InPercent
    DoneMeansDone
    SuccessIsHonest
PROPERTIES
    NeverBackwards
CHECK_DEADLOCK FALSE
