\* Every kind of trouble on the line, under the fairness of the scheduler.
CONSTANTS
    Speeds <- OneSpeed
    Stopped = "stop"
    ReplyKinds <- AllReplies
    TelemetryPasses = 0
    MaySkipReply = TRUE
    MaxUnanswered = 1
    MaxTty = 1
SPECIFICATION FairSpec
INVARIANT OwnLineSent
INVARIANT OneStrayCommand
PROPERTY ImplementsLease
PROPERTY HearsAgain
PROPERTY RemoteServed
