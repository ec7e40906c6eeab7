SPECIFICATION ExportSpec
CONSTANTS
    u1 = u1
    u2 = u2
    u3 = u3
    Users = {u1, u2, u3}
    r1 = r1
    r2 = r2
    Rooms = {r1, r2}
    Draws <- MCDraws
    RatingStep = 10
    RatingLimit = 15
    MaxMatches = 2
    Nothing = Nothing
    Guild <- OneServer
    Limits = {1, 4}
SYMMETRY Symmetry
INVARIANTS
    TypeOK
    TxConsistent
    StatsMatchHistory
    ExportIsOneMoment
PROPERTIES
    ResultsAreAtomic
