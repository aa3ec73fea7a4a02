SPECIFICATION Spec
CONSTANTS
    None = None
    MailboxCap = 1
    ResponseCap = 1
    Sizes = {0, 1}
    MaxSessions = 2
    MaxUnits = 2
    MaxChunks = 2
    MaxGets = 2
CHECK_DEADLOCK FALSE
INVARIANTS
    OneConnection
