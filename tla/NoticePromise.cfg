SPECIFICATION PromiseSpec
CONSTANTS
    Users = {u1}
    Reactions = {g1}
    TeamSize = 1
    MaxPlayers = 1
    PauseLengths = {1}
    StoreFaults = FALSE
    MaxNotices = 1
    None = None
    u1 = u1
    g1 = g1
INVARIANTS
    ReactionHonoured
