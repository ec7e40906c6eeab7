SPECIFICATION OnceSpec
CONSTANTS
    u1 = u1
    u2 = u2
    Users = {u1, u2}
    r1 = r1
    Rooms = {r1}
    Draws <- MCDraws
    RatingStep = 10
    RatingLimit = 15
    MaxMatches = 2
    Nothing = Nothing
INVARIANTS
    MatchCreditedOnce
