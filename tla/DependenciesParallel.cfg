CONSTANTS
    p1 = p1
    p2 = p2
    a = a
    b = b
    d1 = d1
    e1 = e1
    Procs = {p1, p2}
    Instances <- MCInstances
    GenusOf <- MCGenusOf
    NamespaceOf <- MCNamespaceOf
    DependsOn <- MCDependsOn
    DefaultNamespace = "default"
    NoMap = NoMap
    Commands <- MCCommands
    Overlapping <- MCCommands
    MaxCommands = 3
    MaxFaults = 0
SPECIFICATION Spec
INVARIANTS
    DependenciesHeld
CHECK_DEADLOCK FALSE
