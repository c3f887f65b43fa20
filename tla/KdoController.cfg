CONSTANTS
    s1 = s1
    s2 = s2
    Nothing = Nothing
    Partial = Partial
    Specs = {s1, s2}
    URLSpecs = {s2}
    Percents = {50, 100}
    MaxOps = 4
    MaxFaults = 1
    MaxReports = 1
SPECIFICATION FairSpec
INVARIANTS
    TypeOK
    NoOrphans
    NoLostWork
PROPERTIES
    StatusFollowsPhase
    ImplementsLifecycle
    Converges
CHECK_DEADLOCK FALSE
