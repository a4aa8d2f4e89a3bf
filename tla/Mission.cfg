\* GOTO and SETMODE while the robot navigates.
CONSTANTS
    Files <- Routes
    ShortLegs = FALSE
    Modes0 <- AnyMode
SPECIFICATION FairSpec
INVARIANT AccessInBounds
INVARIANT MissionHolds
PROPERTY TourInOrder
PROPERTY MissionEnds
