CONSTANTS
    NoMsg = NoMsg
    Msgs = {"image", "video"}
    Contacts = {"anna"}
    Table <- MCTable
    Recipients <- MCRecipients
    Uploads <- MCUploads
    Restored = {"video"}
    Unresendable = {"video"}
    MediaMissing = {"video"}
    MaxTimers = 1
    MaxTimeouts = 1
    MaxLosses = 1
    MaxCrashes = 1
    MaxDeletes = 1
    MaxReceipts = 1
    MaxWork = 1

SPECIFICATION MCSpec
INVARIANTS
    CopiesNeedACause
    TypeOK
    OnlyStoredMessagesTravel
    ReportsAreJustified
PROPERTIES
    SentIsFinal
    ImplementsDelivery
CHECK_DEADLOCK FALSE
