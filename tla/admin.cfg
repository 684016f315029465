SPECIFICATION AdministrationSpec
CONSTANTS
    c1 = c1
    c2 = c2
    MaxDashRequests = 4
    \* accounts
    Stores = {"mongo", "file"}
    Keys = {"admin", "bob"}
    Spellings = {0, 1}
    Passwords = {8}
    Requests = {c1, c2}
    TokenTTL = 1
    MaxTime = 2
    MaxTokens = 1
    MaxSecrets = 1
    \* status pages
    PageStores = {"mongo", "file"}
    PageIDs = {1, 2}
    Slugs = {"a", "b"}
    PageNames = {"x", "y"}
    PageChecks = {"web", "db"}
    \* dashboards
    DashStores = {"mongo", "file"}
    DashIDs = {1, 2}
    Owners = {"ann", "bob"}
    Callers = {c1, c2}
    \* maintenance windows: two windows, months of 3 to 5 days of two slots
    MaintStores = {"mongo", "file"}
    WindowIDs = {1, 2}
    WindowCfgs <- MCWindowCfgs
    MaintChecks = {"web", "db"}
    SlotsPerDay = 2
    MonthLengths <- MCMonthLengths
    Probes <- MCProbes
    \* checks and results
    CheckIDs = {"a", "b"}
    Seeds <- MCSeeds
    Versions = {2}
    CheckSecrets = {"s1"}
    MaxResults = 3
    \* the hybrid store
    HybridIDs = {"a", "b"}
    ConfigIDs = {"a"}
    MaxVersion = 2
    Writers = {c1, c2}
    \* conversations
    ChatStores = {"mongo", "file"}
    ChatOwners = {"ann", "bob", ""}
    ChatIDs = {1}
    Asks = {c1, c2}
    Window = 2
SYMMETRY Interchangeable
\* Requests stop when the bounds on them are reached.
CHECK_DEADLOCK FALSE
INVARIANTS AuthoritySound StatusPagesSound MaintenanceSound CheckStoreSound HybridReads ChatsSound
PROPERTY DashboardsOwned
