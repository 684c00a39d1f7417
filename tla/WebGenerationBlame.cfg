\* Who is blamed for a server's refusal.
SPECIFICATION Spec
CONSTANTS
    Cleanup = TRUE
    Inputs <- Requests
    Document <- Documents
    Line <- Lines
    Blank = Blank
    Decode <- decode
    MaxLines = 1
    HasConversationId <- conversation_id
    References <- references
    SaysInvalidToken <- token_text
    IsTokenError <- token_error
\* The session is closed.
CHECK_DEADLOCK FALSE
INVARIANTS
    OnlyTheAccountRejects
