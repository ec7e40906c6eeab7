SPECIFICATION PromiseSpec
CONSTANTS
    Users = {u1, u2}
    Handlers = {h1}
    TeamSize = 1
    MaxPlayers = 2
    PauseLengths = {1}
    StoreFaults = FALSE
    None = None
    u1 = u1
    u2 = u2
    h1 = h1
PROPERTIES
    UndoRevertsLastResult
