SPECIFICATION Spec
CONSTANTS
    RuleCount = 1
    ConsecutiveBreaches <- TwoThenOne
    RecoverySamples <- TwoThenOne
    SuccessesToResolve = 1
    Runs = {g1}
    Ids = {i1, i2}
    NoId = NoId
    MaxLostWrites = 0
PROPERTIES HealthyKeepsRuleIncident
