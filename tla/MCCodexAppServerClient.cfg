CONSTANTS
    Id <- MCId
    None = None
    MaxAttempt = 1
    MaxWaiting = 2
SPECIFICATION FairSpec
INVARIANTS
    AlwaysWoken
    NoRefreshLost
    OwnSnapshots
PROPERTY
    Recovers
