SPECIFICATION FairSpec
CONSTANTS
    a1 = a1
    a2 = a2
    s1 = s1
    Action = {a1, a2}
    Real = {a1}
    Continue = {}
    Session = {s1}
    SessionOf <- MCOneSession
    QueueSize = 2
    Threads = 1
    Retained = 2
    MaxCrashes = 0
    MaxFaults = 0
    MaxLosses = 0
    MaxMishaps = 0
PROPERTIES
    OverdueEnds
CHECK_DEADLOCK FALSE
