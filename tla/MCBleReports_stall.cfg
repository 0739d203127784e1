CONSTANTS
    Nobody = Nobody
    QueueSize = 5
    MaxUnread = 6
    MaxReports = 1
SPECIFICATION FairSpec
PROPERTY DisconnectIsHandled
CHECK_DEADLOCK FALSE
