SPECIFICATION AlertingSpec
CONSTANTS
    Handlers = {h1, h2}
    Checks = {c1}
    Rules = {r1}
    Fires <- FiresOn
    FailuresToOpen = 2
    SuccessesToResolve = 2
    RuleIDs = {"down", "slow"}
    RuleBodies <- MCBodies
    DefaultRules <- MCDefaults
    Results <- MCResults
    MaxCooldown = 2
    MaxRules = 2
    MaxRequests = 3
INVARIANT RulesSound
PROPERTIES OpenedOnStreak ResolvedOnStreak OutageIsReported RecoveryResolves
