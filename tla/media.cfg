SPECIFICATION LiveSpec
CONSTANTS
    Kinds <- MCKinds
    Contact = "carol"
    Members = {"dave", "erin"}
    MaxAttempts <- MCAttempts
    MaxAtOnce = 2
    MaxFaults = 1
INVARIANTS
    ReceivedAsSent
    BlobsLastAsLongAsNeeded
PROPERTIES
    MediaArrives
CHECK_DEADLOCK FALSE
