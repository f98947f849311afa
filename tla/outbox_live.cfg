CONSTANTS
    NoMsg = NoMsg
    Msgs = {"group", "receipt"}
    Contacts = {"anna", "bert"}
    Table <- MCTable
    Recipients <- MCRecipients
    Uploads <- MCUploads
    Restored = {}
    Unresendable = {}
    MediaMissing = {}
    MaxTimers = 0
    MaxTimeouts = 1
    MaxLosses = 0
    MaxCrashes = 1
    MaxDeletes = 0
    MaxReceipts = 0
    MaxWork = 1

SPECIFICATION LiveSpec

PROPERTIES
    SentUnlessLate
    WaitingMessagesAreTried

INVARIANTS
    SentOnlyIfAccepted

CHECK_DEADLOCK FALSE
