SPECIFICATION Spec
CONSTANTS
    p1 = p1
    p2 = p2
    a1 = a1
    Processes <- OneProcess
    Actions <- MCActions
    MaxCrashes = 2
    MaxKills = 1
PROPERTY
    LostIsUnverifiable
