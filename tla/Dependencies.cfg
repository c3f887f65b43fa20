CONSTANTS
    p1 = p1
    p2 = p2
    a = a
    b = b
    d1 = d1
    e1 = e1
    Procs = {p1, p2}
    Instances <- MCInstances
    GenusOf <- MCGenusOf
    NamespaceOf <- MCNamespaceOf
    DependsOn <- MCDependsOn
    DefaultNamespace = "default"
    NoMap = NoMap
    Commands <- MCCommands
    Overlapping <- ApplyOnly
    MaxCommands = 5
    MaxFaults = 1
SPECIFICATION Spec
INVARIANTS
    TypeOK
    DependenciesHeld
    NoDanglingReferences
PROPERTIES
    RecursiveDeleteCleans
CHECK_DEADLOCK FALSE
