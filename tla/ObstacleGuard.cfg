\* Half a second to stop, three to start again, in eighths of a second; a pass
\* takes up to three.
CONSTANTS
    ToStop = 4
    ToStart = 24
    MaxPass = 3
SPECIFICATION GuardFairSpec
INVARIANT ObstacleStops
PROPERTY GlimpseIgnored
PROPERTY HeldLongEnough
PROPERTY LetGo
