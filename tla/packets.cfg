CONSTANTS
    Drawn <- MCDrawn
    Messages <- MCMessages
    MaxSessions = 2
    MaxPackets = 2
    MaxEnqueued = 1
SPECIFICATION LiveSpec
INVARIANTS
    InOrderOnce
    ServerCanFollow
    ReadAsWritten
PROPERTIES
    NothingIsLeftLying
CHECK_DEADLOCK FALSE
