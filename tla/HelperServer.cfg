\* Two requests for one worker, so that the second waits in the queue; three
\* sessions each.  No symmetry: it is unsound for liveness.
SPECIFICATION FairSpec
CONSTANTS
    ID = {i1, i2}
    Session = {s1, s2, s3}
    MaxWorkers = 1
\* The helper exits at the end of its input.
CHECK_DEADLOCK FALSE
INVARIANTS
    CancelReachesEverySession
    ActiveIsExact
    SessionsAreGivenBack
PROPERTIES
    CancelNeverPunishes
    CancelEndsRequest
    EndOfInputExits
