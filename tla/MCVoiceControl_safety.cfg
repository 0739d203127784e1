CONSTANT
    ClickAction <- MCClickAction
SPECIFICATION FairSpec
INVARIANTS
    TrackerMirrorsHost
    CompletedIsConfirmed
    TonesSuppressed
PROPERTIES
    KeepsVoiceSession
    VoiceSettles
