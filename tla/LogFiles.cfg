SPECIFICATION Spec
CONSTANTS
    Threads = {t1, t2}
    None = None
    MaxSize = 2
    MaxFiles = 2
    LastSecond = 3
    MaxLines = 5
    MaxStarts = 2
SYMMETRY ThreadSymmetry
INVARIANTS TypeOK NewestKept
PROPERTIES RotationSpares
CHECK_DEADLOCK FALSE
