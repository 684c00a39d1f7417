\* Two images, of one request or of two, share two credentials.  No symmetry:
\* it is unsound for liveness.
SPECIFICATION FairSpec
CONSTANTS
    k1 = k1
    k2 = k2
    r1 = r1
    r2 = r2
    Requests = {r1, r2}
    Credentials = {k1, k2}
    Offered <- TwoCredentials
    Arrivals <- TwoImages
    MaxN = 2
\* Every request is answered, then nothing happens.
CHECK_DEADLOCK FALSE
INVARIANTS
    SchedulerInv
    NoUseWhileCooling
    NoEarlySurrender
PROPERTIES
    KeepsSharing
    CooldownNeverShortened
    EveryRequestAnswered
