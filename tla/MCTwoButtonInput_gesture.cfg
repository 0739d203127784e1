CONSTANTS
    Debounce = 2
    VoiceHold = 2
    DoubleClick = 2
    LongPress = 3
    MenuTimeout = 4
    MaxPoll = 2
    Menu <- WholeMenu
    AgentCount = 1
    NavigationCount = 1
SPECIFICATION FairSpec
INVARIANTS
    DeclineConfirmed
    SideActsWherePressed
    SendNotUnderPress
    SendNotOverdue
PROPERTIES
    PendingResolved
    MenusClose
