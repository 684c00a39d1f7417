\* Two callers, one closer, two processes, two request identifiers.  No
\* symmetry: it is unsound for liveness.
SPECIFICATION FairSpec
CONSTANTS
    Callers = {c1, c2}
    Closers = {k}
    MaxProc = 2
    MaxID = 2
\* A host that panicked, or that has used up its bounds, stops.
CHECK_DEADLOCK FALSE
INVARIANTS
    OneAnswerer
    SendNeverBlocks
    CallNotLost
    PendingHasCaller
    PendingOnCurrent
    NoOrphanProcess
    IInv
PROPERTIES
    DeadHelperNoticed
    KeepsContract
