\* Server and local client, fed by one SendFrame.
CONSTANTS
    k1 = k1
    k2 = k2
    NoKey = NoKey
    Keys <- TwoKeys
SPECIFICATION FairSpec
INVARIANT ServerCanRead
INVARIANT ClientCanRead
INVARIANT OneStrayFrame
PROPERTY ClosedOnce
PROPERTY TelemetryGoesOn
PROPERTY NextClientLetIn
