\* Two clients of two commands each.
CONSTANTS
    MaxConns = 2
    MaxCommands = 2
SPECIFICATION FairSpec
INVARIANT OnlyAuthenticated
INVARIANT OneSessionKept
PROPERTY NextClientServed
PROPERTY SessionServed
\* A broken pipe ends the program.
CHECK_DEADLOCK FALSE
