SPECIFICATION Spec
CONSTANTS
    p1 = p1
    p2 = p2
    a1 = a1
    a2 = a2
    a3 = a3
    s1 = s1
    Permit <- MCPermit
    Action <- MCAction
    Session <- MCSession
    NoSession = NoSession
    NoPermit = NoPermit
    SessionOf <- MCSessionOf
    MaxUses <- MCMaxUses
    Binds <- MCBinds
INVARIANTS
    LedgerReplayable
    GrantsAreSingleUse
    RevocationIsFinal
PROPERTIES
    NoGrantFromEarlierGeneration
CHECK_DEADLOCK FALSE
