SPECIFICATION Spec
CONSTANTS
    Proposal = {p1}
    Lister = {l1, l2}
    NoProposal = NoProposal
    Capacity = 1
    MaxFaults = 1
    MaxCrashes = 1
SYMMETRY Symmetry
INVARIANTS SubmissionIsAccepted NoLeftoverPermit DeclineStands
PROPERTY RollbackStops
CHECK_DEADLOCK FALSE
