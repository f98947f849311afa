CONSTANTS
    Self = "me"
    Contacts = {"anna", "bert"}
    Groups = {"ours", "theirs"}
    Owner <- MCOwner
    Messages = {"photo", "setup", "dismiss", "bye", "name", "ask"}
    Kind <- MCKind
    GroupOf <- MCGroupOf
    Sender <- MCSender
    MembersIn <- MCMembersIn
    Answers = {}
    Delayed = {}
    Trusts = {TRUE, FALSE}
    Initially <- OnlyOurs
    MaxSessions = 1
    MaxCrashes = 1
    MaxWaits = 0
    MaxRequests = 0
    Scenarios <- WithoutOne

SPECIFICATION MCSpec

INVARIANTS
    NoMessageVanishes
    StoresSucceed
    KnownGroupsContainUs

PROPERTIES
    OnlyMembersSpeak

CHECK_DEADLOCK FALSE
