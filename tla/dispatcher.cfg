SPECIFICATION DeliverySpec
CONSTANTS
    i1 = i1
    i2 = i2
    chat = chat
    Incidents <- MCIncidents
    Info <- MCInfo
    Channels <- MCChannels
    Filters <- MCFilters
    Assigned <- MCAssigned
    OnResolve = {chat}
    Main = main
    NoTimer = none
    ChannelIDs = {1}
    Tokens = {"t1", "t2"}
    ChannelCalls = {r1, r2}
\* The process exits, and with it everything stops.
CHECK_DEADLOCK FALSE
INVARIANTS SendsSound ChannelSecretsKept
PROPERTY OpenEventuallySent
