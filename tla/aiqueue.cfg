SPECIFICATION ServiceSpec
CONSTANTS
    Incidents = {i1, i2}
    Requests = {q1, q2}
    MaxConcurrent = 1
    RetryCount = 1
    Providers = {"p1", "p2"}
    Secrets = {"k1"}
    Prompts = {}
    Handlers = {"h1", "h2"}
    MaxKeys = 3
    MaxEdits = 2
INVARIANTS OneResult 
PROPERTIES FinishedIsFinal QueuedIsAnalysed
