SPECIFICATION Spec
CONSTANTS
    u1 = u1
    u2 = u2
    u3 = u3
    None = None
    Nil = Nil
    Users = {u1, u2, u3}
    TeamSize = 1
    MaxPlayers = 3
    Addresses = {1, 2, 3, 4, 5, 6}
    PauseLengths = {1}
    MaxSteps = 8
SYMMETRY Interchangeable
INVARIANTS
    NoSharing
    CountsFitMatches
PROPERTY
    ImplementsRoomRow
CHECK_DEADLOCK FALSE
