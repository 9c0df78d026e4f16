SPECIFICATION Spec
CONSTANTS
    Proposal = {p1}
    Lister = {l1}
    NoProposal = NoProposal
    Capacity = 1
    MaxFaults = 0
    MaxCrashes = 0
INVARIANT SubmissionIsCreated
CHECK_DEADLOCK FALSE
