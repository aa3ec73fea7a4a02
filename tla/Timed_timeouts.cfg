SPECIFICATION TimedSpec
CONSTANTS
    Ids = {i1}
    Actors = {a1}
    Reqs = {r1, r2, r3}
    None = None
    MailboxCap = 1
    Offered <- TimedLoad
    MaxUnits = 1
    MaxTakes = 0
    TotalTimeout = 3
    IdleTimeout = 2
    MaxConnect = 4
SYMMETRY Symmetry
CHECK_DEADLOCK FALSE
INVARIANTS
    TotalBound
    IdleBound
    IdleExact
