SPECIFICATION RepositoriesSpec
CONSTANTS
    c1 = c1
    c2 = c2
    ServerIDs = {"s1", "s2"}
    ServerPws = {"p1"}
    ServerCalls = {c1, c2}
    MaxChanges = 2
    Prints = {"f"}
    LogCalls = {c1, c2}
    MaxSent = 3
    MaxWrites = 2
    SampleStores = {"mongo", "file"}
    Executions = {c1, c2}
    MaxCount = 1
    MaxBoots = 1
    MaxStamp = 2
    MaxSamples = 3
SYMMETRY CallSymmetry
INVARIANTS DeltasSound ServersSound LogCountsSound
