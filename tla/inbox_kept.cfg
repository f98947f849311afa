CONSTANTS
    Self = "me"
    Contacts = {"anna", "bert"}
    Groups = {"theirs"}
    Owner <- MCOwner
    Messages = {"hello", "again", "setup"}
    Kind <- MCKind
    GroupOf <- MCGroupOf
    Sender <- MCSender
    MembersIn <- MCMembersIn
    Answers = {"setup"}
    Delayed = {"setup"}
    Trusts = {FALSE}
    Initially <- Nothing
    MaxSessions = 2
    MaxCrashes = 1
    MaxWaits = 1
    MaxRequests = 1
    Scenarios <- All

SPECIFICATION LiveSpec

PROPERTIES
    MessagesAreKept
    OnlyTheOwnerAdds

INVARIANTS
    RowsFollowDeliveries
    QueuedGroupsWereAskedFor

CHECK_DEADLOCK FALSE
