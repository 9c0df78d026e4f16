SPECIFICATION FairSpec
CONSTANTS
    o1 = o1
    o2 = o2
    Monitor = Monitor
    Operator = {o1}
    RestartLimit = 1
    MaxPrunes = 1
PROPERTIES
    SupervisedForGood
