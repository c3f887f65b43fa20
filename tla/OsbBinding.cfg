CONSTANTS
    s1 = s1
    s2 = s2
    small = small
    large = large
    Service = s1
    Plan = small
    Catalogs <- MCCatalogs
    Nothing = Nothing
    Async = {TRUE, FALSE}
    MaxApplies = 4
    MaxRefusals = 3
SPECIFICATION BindingSpec
INVARIANTS
    BindingTypeOK
    BoundInstancesExist
    
CHECK_DEADLOCK FALSE
