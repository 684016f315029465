SPECIFICATION FewCallsSpec
CONSTANTS
    c1 = c1
    c2 = c2
    MaxCalls = 4
    Checks = {k1}
    Severities = {0, 1}
    Callers = {c1, c2}
    Alerters <- ManyAlerters
    Operators = {c1, c2}
    MaxClock = 3
    OpTimeout = 1
    Retention = 2
SYMMETRY CallerSymmetry
INVARIANT AnnouncedAtMostOnce
PROPERTIES SettledIsFinal ResolutionAnnouncedOnce ImplementsLifecycle
