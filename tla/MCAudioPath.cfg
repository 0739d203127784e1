CONSTANTS
    FifoFrames = 3
    ToneQueue = 3
    NoteFrames = 2
SPECIFICATION AudioFairSpec
INVARIANTS
    StaleBounded
    TonesStop
PROPERTIES
    Flows
