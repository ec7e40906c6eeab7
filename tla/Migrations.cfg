SPECIFICATION FairSpec
CONSTANTS
    p1 = p1
    p2 = p2
    None = None
    Processes = {p1, p2}
    Databases <- MCDatabases
    Ratings = {0, 1}
    MaxFaults = 3
INVARIANTS
    ServesWholeSchema
    RecordedWereApplied
    RatingsSurvive
PROPERTY
    EventuallyServes
