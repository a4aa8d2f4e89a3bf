\* A write and the one before are told apart; the process is two writes behind.
CONSTANTS
    Frames = 2
    MaxCount = 2
SPECIFICATION ImageFairSpec
INVARIANT LastWriteSeen
PROPERTY ReadsAgain
