CONSTANTS
    Payload <- MCPayload
    None = None
SPECIFICATION FairSpec
INVARIANTS
    AwaitsAnswer
    NoUpdateLost
PROPERTY
    Recovers
