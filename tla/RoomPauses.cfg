SPECIFICATION FairSpec
CONSTANTS
    Users = {u1, u2}
    Handlers = {h1, h2}
    TeamSize = 1
    MaxPlayers = 2
    PauseLengths = {1, 3}
    StoreFaults = FALSE
    None = None
    u1 = u1
    u2 = u2
    h1 = h1
    h2 = h2
INVARIANTS
    FaultFreeInv
PROPERTIES
    PausesCountedByNext
    LockReleased
