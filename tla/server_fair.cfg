SPECIFICATION FairSpec
CONSTANTS
    c1 = c1
    c2 = c2
    Conn = {c1, c2}
    NFds = 7
    MaxStarts = 1
PROPERTIES
    StopIsOver
    EveryClientServed
CHECK_DEADLOCK FALSE
