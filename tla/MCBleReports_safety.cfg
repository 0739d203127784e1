CONSTANTS
    Nobody = Nobody
    QueueSize = 5
    MaxUnread = 2
    MaxReports = 2
SPECIFICATION FairSpec
INVARIANTS ConfirmationIsOwn EscapeIsReleased
PROPERTY DisconnectIsHandled
