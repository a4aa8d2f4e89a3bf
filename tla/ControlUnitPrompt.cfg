\* A driver that answers every request, with good lines.
CONSTANTS
    Speeds <- TwoSpeeds
    Stopped = "stop"
    ReplyKinds <- GoodReplies
    TelemetryPasses = 1
    MaySkipReply = FALSE
    MaxUnanswered = 3
    MaxTty = 3
SPECIFICATION Spec
INVARIANT AnswersForReaders
INVARIANT PromptDriverHeard
