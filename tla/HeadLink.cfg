\* One answer owed, one in the port and one being decoded; a request and the one before it are told apart.
CONSTANTS
    Requests = 2
    MaxOwed = 1
SPECIFICATION FairSpec
INVARIANT AnswerIsOwn
INVARIANT OnlyHeadMisses
PROPERTY HeardAgain
