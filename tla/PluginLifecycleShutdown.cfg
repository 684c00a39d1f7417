SPECIFICATION Spec
CONSTANTS
    Requests = {r1}
    Paths = {a}
    Options = {x}
    MaxPlugin = 1
    MaxSlot = 1
CHECK_DEADLOCK FALSE
INVARIANTS
    ShutdownStopsHelper
