SPECIFICATION MonitoringSpec
CONSTANTS
    Checks = {k1}
    Loops = {l1, l2}
    NoLoop = none
    Handlers = {h1}
    MaxRetries = 1
    Cooled = {k1}
    HbTokens = {"a"}
    Interval = 1
    GracePeriod = 1
    MaxOutages = 3
    RetRepos = {"mysql_metrics", "incidents"}
    RetConfig <- MCRetConfig
    FallbackDays = 1
    MaxAge = 4
    MaxRetFaults = 1
    Clients = {"a", "b"}
    HttpSources <- MCSources
    RateOf <- MCRates
    RateWindow = 2
    DefaultIDs <- MCDefaultIDs
    ThresholdOf <- MCThresholds
    OwnThreshold = 9
\* The process stops, and with it everything else does.
CHECK_DEADLOCK FALSE
INVARIANTS ArmedIsRecorded StoppedIsQuiet RatesKept SeedingSound
PROPERTIES LoopsEnd EnabledKeepsRunning HeartbeatsTruthful OutageIsCleared RetentionKept
