SPECIFICATION Spec
CONSTANTS
    Users = {u1, u2, u3}
    Handlers = {h1, h2}
    TeamSize = 1
    MaxPlayers = 2
    PauseLengths = {1}
    StoreFaults = TRUE
    None = None
    u1 = u1
    u2 = u2
    u3 = u3
    h1 = h1
    h2 = h2
SYMMETRY Symmetry
INVARIANTS
    IInv
    RoomWithinCapacity
