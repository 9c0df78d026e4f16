SPECIFICATION Spec
CONSTANTS
    a1 = a1
    a2 = a2
    s1 = s1
    Action = {a1, a2}
    Real = {a1, a2}
    Continue = {}
    Session = {s1}
    SessionOf <- MCOneSession
    QueueSize = 1
    Threads = 1
    Retained = 1
    MaxCrashes = 2
    MaxFaults = 1
    MaxLosses = 0
    MaxMishaps = 2
SYMMETRY Symmetry
INVARIANTS
    DispatchedAtMostOnce
    DispatchIsOnRecord
    SlotsConserved
    UnrecordedRealIsReviewed
    JournalsWellFormed
    ReviewsReadableWhileHealthy
PROPERTIES
    NoDispatchBeforeReview
CHECK_DEADLOCK FALSE
