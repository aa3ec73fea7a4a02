SPECIFICATION Spec
CONSTANTS
    Ids = {i1}
    Actors = {a1, a2, a3}
    Reqs = {r1, r2, r3}
    None = None
    MailboxCap = 1
    Offered <- MixedLoad
    MaxUnits = 0
    MaxTakes = 0
SYMMETRY Symmetry
CHECK_DEADLOCK FALSE
INVARIANT
    OneLiveSessionPerId
