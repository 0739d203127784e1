CONSTANTS
    AgentCount = 2
    Frames <- MCFrames
    MaxEvents = 2
    MaxInputs = 1
SPECIFICATION MCSpec
INVARIANT
    RoxyIsLoudest
PROPERTIES
    CompleteShownOnce
    ScreenSettles
