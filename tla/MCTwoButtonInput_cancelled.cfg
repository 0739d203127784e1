CONSTANTS
    Debounce = 1
    VoiceHold = 2
    DoubleClick = 2
    LongPress = 3
    MenuTimeout = 5
    MaxPoll = 1
    Menu <- ConfirmMenu
    AgentCount = 1
    NavigationCount = 1
SPECIFICATION Spec
INVARIANT
    CancelledConfirmIsSilent
