SPECIFICATION Spec
CONSTANTS
    Event = {e1, e2}
    Created = created
    Forged = forged
    MaxRows = 4
INVARIANTS
    VerifiedIsComplete
    UnopenableOnlyAfterInterruption
PROPERTIES
    ImplementsLog
CHECK_DEADLOCK FALSE
