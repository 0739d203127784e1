CONSTANTS
    StaleAfter = 1
    MaxTime = 4
    Answered = {0, 1}
SPECIFICATION DeliveryFairSpec
INVARIANTS
    LiveIsRecent
    AckIsHeld
PROPERTIES
    ImplementsRegister
    Converges
