SPECIFICATION Spec
CONSTANTS
    Callers = {c1, c2}
    Closers = {}
    MaxProc = 2
    MaxID = 2
CHECK_DEADLOCK FALSE
INVARIANTS
    FailureHitsOwnProcess
