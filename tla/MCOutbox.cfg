SPECIFICATION Spec
CONSTANTS
    k1 = k1
    k2 = k2
    p1 = p1
    w1 = w1
    w2 = w2
    noWorker = noWorker
    Keys <- MCKeys
    Payloads <- MCPayloads
    Workers <- MCWorkers
    NoWorker = noWorker
    MaxIds = 2
    Capacity = 2
    BatchSize = 2
    MaxRetries = 2
    MaxOverruns = 1
    MaxFaults = 1
INVARIANTS
    DeliveredWasTaken
    TwiceOnlyAfterTrouble
PROPERTIES
    DeliveredStands
    Settles
CHECK_DEADLOCK FALSE
