SPECIFICATION ProjectionSpec
CONSTANTS
    k1 = k1
    k2 = k2
    w1 = w1
    w2 = w2
    noWorker = noWorker
    Keys <- MCKeys
    Payloads <- MCPayloads
    Workers <- MCWorkers
    NoWorker = noWorker
    MaxIds = 4
    Capacity = 4
    BatchSize = 2
    MaxRetries = 2
    MaxOverruns = 0
    MaxFaults = 0
INVARIANT
    IndexIsCurrent
CHECK_DEADLOCK FALSE
