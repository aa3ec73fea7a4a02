SPECIFICATION FairSpec
CONSTANTS
    Clients = {c1, c2, c3}
    None = None
    ReportEvery = 2
    MaxTime = 5
CHECK_DEADLOCK FALSE
INVARIANTS
    NoDowngrade
    ReportsAddUp
    ReportsBounded
PROPERTIES
    Accepted
