SPECIFICATION Spec
CONSTANTS
    Users = {u1, u2}
    Reactions = {g1, g2}
    TeamSize = 1
    MaxPlayers = 2
    PauseLengths = {1}
    StoreFaults = FALSE
    MaxNotices = 3
    None = None
    u1 = u1
    u2 = u2
    g1 = g1
    g2 = g2
SYMMETRY Symmetry
INVARIANTS
    TypeOK
    PausedCanReact
PROPERTIES
    PauseEndedByMember
