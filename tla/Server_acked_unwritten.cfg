SPECIFICATION Spec
CONSTANTS
    Ids = {i1}
    Actors = {a1}
    Reqs = {r1}
    None = None
    MailboxCap = 1
    Offered <- WriteLoad
    MaxUnits = 0
    MaxTakes = 0
CHECK_DEADLOCK FALSE
INVARIANT
    AckedMeansWritten
