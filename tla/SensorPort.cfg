\* Two answers owed and two lines in the port; a request and the one before it are told apart.
CONSTANTS
    Requests = 2
    MaxOwed = 2
    Budget = 2
    InTime = 1
SPECIFICATION FairSpec
INVARIANT OwnReading
INVARIANT OnlyFaultsAddUp
PROPERTY UnitReadAgain
