CONSTANTS
    Full = 2
    One = 8
    Hysteresis = 6
    Confirm = 3
    Dim = 5
    Low = 6
    MaxChanges = 1
    MaxPresses = 1
    MaxFaults = 1
SPECIFICATION FairSpec
INVARIANTS
    NoOvershoot
    LitAfterPress
PROPERTIES
    RisesOnlyCharging
    Settles
