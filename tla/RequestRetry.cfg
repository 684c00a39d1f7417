\* Two credentials, each refreshed at most once.  The deadline falls between
\* two seconds, and tokens expire too early for it or late enough.
SPECIFICATION FairSpec
CONSTANTS
    Auth = {a1, a2}
    Expiries = {4, 5}
    Timeout = 3
    Margin = 1
    Second = 2
    Fallback = 30
    MaxVersion = 1
    MaxTime = 3
\* The client has its answer and time has run out.
CHECK_DEADLOCK FALSE
INVARIANTS
    CredentialsOutliveRequest
    HelperDeadlineFits
    AuthErrorIsGenuine
PROPERTIES
    RequestEnds
