SPECIFICATION Spec
CONSTANTS
    Members = {1, 2, 3, 4, 5, 6}
    Rooms <- MCRooms
    TeamSize = 2
    Slack = 1
    Gaps = {0, 6}
    Start = 40
INVARIANTS
    NearlyBalanced
    NeverWorseThanBalanced
    RotationIsOptimal
PROPERTIES
    DrawsAreFair
    LevelStaysLevel
CHECK_DEADLOCK FALSE
