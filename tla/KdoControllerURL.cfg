CONSTANTS
    s1 = s1
    s2 = s2
    Nothing = Nothing
    Partial = Partial
    Specs = {s1, s2}
    URLSpecs = {s2}
    Percents = {100}
    MaxOps = 1
    MaxFaults = 0
    MaxReports = 1
SPECIFICATION FairSpec
PROPERTIES
    URLConverges
CHECK_DEADLOCK FALSE
