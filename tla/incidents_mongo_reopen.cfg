SPECIFICATION FewCallsSpec
CONSTANTS
    c1 = c1
    c2 = c2
    MaxCalls = 3
    Checks = {k1}
    Severities = {0}
    Callers = {c1, c2}
    Alerters <- ManyAlerters
    Operators = {c1, c2}
    MaxClock = 1
    OpTimeout = 0
    Retention = 1
SYMMETRY CallerSymmetry

PROPERTY ResolvedIsFinal
