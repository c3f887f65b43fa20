CONSTANTS
    Keys = {domain, timeout}
    KeySets <- AtMostOneKey
    MaxCharts = 3
    MaxStatements = 2
SPECIFICATION Spec
INVARIANTS
    TypeOK
    CommandLineWins
    ArgumentsStayInTheirBranch
CHECK_DEADLOCK FALSE
