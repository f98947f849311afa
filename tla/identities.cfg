CONSTANTS
    alice = alice
    bob = bob
    carol = carol
    team = team
    club = club
    hello = hello
    again = again
    teamed = teamed
    clubbed = clubbed
    photo = photo
    NoGroup = NoGroup
    Contacts <- MCContacts
    HashOrder <- MCHashOrder
    KnownAtFirst <- MCKnownAtFirst
    Groups <- MCGroups
    Owner <- MCOwner
    Messages = {hello, again, teamed, clubbed, photo}
    Sender <- MCSender
    GroupOf <- MCGroupOf
    Creations <- MCCreations
    MembersIn <- MCMembersIn
    Downloads <- MCDownloads
    MaxCalls = 1
    MaxPosted = 3
    MaxSessions = 1
    MaxFailures = 1
    MaxDialogs = 1

SPECIFICATION MCSpec

INVARIANTS
    LookupsMatchWaiters
    HandedOverWithContacts

PROPERTIES
    NoOvertakingInOwnProcessor
    HeldMessagesComeFree

CHECK_DEADLOCK FALSE
