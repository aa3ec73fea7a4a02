SPECIFICATION FairSpec
CONSTANTS
    Ids = {i1}
    Actors = {a1}
    Reqs = {r1}
    None = None
    MailboxCap = 1
    Offered <- MixedLoad
    MaxUnits = 0
    MaxTakes = 0
CHECK_DEADLOCK FALSE
PROPERTY
    DeadEntriesCollected
