SPECIFICATION Spec
CONSTANTS
    a1 = a1
    a2 = a2
    s1 = s1
    Action = {a1, a2}
    Real = {a1}
    Continue = {}
    Session = {s1}
    SessionOf <- MCOneSession
    QueueSize = 1
    Threads = 1
    Retained = 1
    MaxCrashes = 1
    MaxFaults = 0
    MaxLosses = 1
    MaxMishaps = 2
INVARIANTS
    EndedActionsReadable
CHECK_DEADLOCK FALSE
