\* Two requests, two plugin objects (a shutdown in between), three slots, two
\* helper paths.  No symmetry: it is unsound for liveness.
SPECIFICATION FairSpec
CONSTANTS
    Requests = {r1, r2}
    Paths = {a, b}
    Options = {x}
    MaxPlugin = 2
    MaxSlot = 3
\* With every slot used and every request idle nothing more may happen.
CHECK_DEADLOCK FALSE
INVARIANTS
    LifecycleInv
    LeaseMatchesConfig
    CurrentSlotIsOpen
PROPERTIES
    RetirementWaitsForLeases
    KeepsLeases
    ReloadKeepsHelper
    ReplacedIsClosed
