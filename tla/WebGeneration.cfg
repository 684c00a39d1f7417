\* One generation, with every answer of the servers.
SPECIFICATION FairSpec
CONSTANTS
    Cleanup = TRUE
    Inputs <- Requests
    Document <- Documents
    Line <- Lines
    Blank = Blank
    Decode <- decode
    MaxLines = 4
    HasConversationId <- conversation_id
    References <- references
    SaysInvalidToken <- token_text
    IsTokenError <- token_error
\* The session is closed.
CHECK_DEADLOCK FALSE
INVARIANTS
    EveryInputUploaded
    FramesAreComplete
PROPERTIES
    TimeUpCountsDown
    GenerationEnds
