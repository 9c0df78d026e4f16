SPECIFICATION FairSpec
CONSTANTS
    c1 = c1
    c2 = c2
    c3 = c3
    a1 = a1
    a2 = a2
    b1 = b1
    NoCaller = NoCaller
    Caller = {c1, c2}
    Action = {a1, a2}
    Physical = {a1}
    Fixture = {a2}
    Strict = {a1}
    Required <- MCRequired
    Claims = {3, 4}
    Body = {b1}
    BodyOf <- MCBodyOf
    Stops = TRUE
    MaxDiscards = 1
INVARIANTS
    OneExecutorPerBody
    ExecutedOncePerReceipt
    ClaimsAreEarned
PROPERTIES
    ReceiptStands
    CallsReturn
