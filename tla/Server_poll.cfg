SPECIFICATION FairSpec
CONSTANTS
    Ids = {i1}
    Actors = {a1}
    Reqs = {r1, r2}
    None = None
    MailboxCap = 1
    Offered <- ReadLoad
    MaxUnits = 2
    MaxTakes = 1
CHECK_DEADLOCK FALSE
INVARIANTS
    OneReader
    NoLeakedLock
    AbortCoversReader
    NoUnitLost
    StatsConserved
PROPERTIES
    LongPollEnds
    AskReturns
    SessionsCleaned
