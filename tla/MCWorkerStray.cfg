SPECIFICATION Spec
CONSTANTS
    o1 = o1
    o2 = o2
    Monitor = Monitor
    Operator = {o1}
    RestartLimit = 2
    MaxPrunes = 0
INVARIANTS
    NoStrayProcess
