SPECIFICATION LiveSpec
CONSTANTS
    Ops = {o1}
    p1 = p1
    p2 = p2
    Processes = {p1, p2}
    Cancels = {o1}
    MaxCrashes = 1
    MaxRepeats = 1
    MaxTakeovers = 1
    b1 = b1
    c1 = c1
    c2 = c2
    openai = openai
    home = home
INVARIANTS DeliveredOnce
PROPERTIES AuditIsExactlyOnce EverythingEnds
CHECK_DEADLOCK FALSE
