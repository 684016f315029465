SPECIFICATION Spec
CONSTANTS
    r1 = r1
    r2 = r2
    a1 = a1
    a2 = a2
    a3 = a3
    k1 = k1
    i1 = i1
    NoIncident = NoIncident
    Runs = {r1, r2}
    Attempts = {a1, a2, a3}
    Checks = {k1}
    Incidents = {i1}
    CheckOf <- SameCheck
    Inline = {}
    MaxAttempts = 1
    MaxConcurrent = 1
    HasAI = TRUE
SYMMETRY Interchangeable
INVARIANT EngineSound
PROPERTY VerdictFinal
