SPECIFICATION Spec
CONSTANTS
    Kinds <- MCWithCover
    Contact = "carol"
    Members = {"dave", "erin"}
    MaxAttempts <- MCAttempts
    MaxAtOnce = 1
    MaxFaults = 0
INVARIANTS
    PostedMediaCanBeOpened
CHECK_DEADLOCK FALSE
