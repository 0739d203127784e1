CONSTANTS
    Payload <- MCPayload
    Id <- MCId
    Watched <- MCWatched
    StaleAfter = 0
SPECIFICATION FairSpec
INVARIANTS
    OnlyWholeSnapshots
PROPERTIES
    StoredNeverRollsBack
    ScreenCatchesUp
