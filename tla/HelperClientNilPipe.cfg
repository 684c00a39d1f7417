\* One caller and one process are enough for the panic.
SPECIFICATION Spec
CONSTANTS
    Callers = {c1}
    Closers = {}
    MaxProc = 1
    MaxID = 1
CHECK_DEADLOCK FALSE
INVARIANTS
    PipeInitialised
