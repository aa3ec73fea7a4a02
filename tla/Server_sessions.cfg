SPECIFICATION Spec
CONSTANTS
    Ids = {i1}
    Actors = {a1, a2}
    Reqs = {r1, r2}
    None = None
    MailboxCap = 1
    Offered <- SessionLoad
    MaxUnits = 0
    MaxTakes = 0
SYMMETRY Symmetry
CHECK_DEADLOCK FALSE
INVARIANTS
    TypeOK
    EntriesOwned
    LiveReachable
    DeadlineArmed
    AckedOrStopped
    FramesInOrder
PROPERTY LeavesByDrop
