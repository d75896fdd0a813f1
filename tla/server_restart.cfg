SPECIFICATION Spec
CONSTANTS
    c1 = c1
    c2 = c2
    Conn = {c1, c2}
    NFds = 6
    MaxStarts = 2
SYMMETRY ConnSymmetry
INVARIANTS
    LifecycleTypeOK
    OneOwnerPerNumber
    QuietMeansClean
CHECK_DEADLOCK FALSE
