SPECIFICATION FairSpec
CONSTANTS
    RuleCount = 1
    ConsecutiveBreaches <- TwoThenOne
    RecoverySamples <- TwoThenOne
    SuccessesToResolve = 1
    Runs = {g1, g2}
    Ids = {i1, i2}
    NoId = NoId
    MaxLostWrites = 1
PROPERTIES OpensOnStreak ClosesOnStreak LastingIsNoticed
