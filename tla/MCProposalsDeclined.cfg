SPECIFICATION Spec
CONSTANTS
    Proposal = {p1}
    Lister = {l1}
    NoProposal = NoProposal
    Capacity = 1
    MaxFaults = 0
    MaxCrashes = 0
INVARIANT DeclineIsFinal
CHECK_DEADLOCK FALSE
