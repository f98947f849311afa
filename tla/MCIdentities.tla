---------------------------- MODULE MCIdentities ----------------------------
(***************************************************************************)
(* Identities with bounds for TLC: two groups, whose creations share a     *)
(* member that is not known, and messages of that member.  Its two texts   *)
(* are alike, so only one order of them is looked at; the second group's   *)
(* creation comes beside the first's, in either order, before a text.      *)
(***************************************************************************)
EXTENDS Identities

CONSTANTS
    alice, bob, carol,
    team, club,
    hello, again,              \* alice to us
    teamed, clubbed,           \* bob tells the members of his groups
    photo,                     \* bob to the team, with a download
    MaxPosted,                 \* messages that are sent to us
    MaxSessions, MaxFailures,  \* sessions ended, tasks failed
    MaxDialogs                 \* dialogs opened, if none of that happens

VARIABLE budget

MCContacts == {alice, bob, carol}
MCHashOrder == <<carol, alice, bob>>
MCKnownAtFirst == {bob}
MCGroups == {team, club}
MCOwner == [g \in MCGroups |-> bob]
MCSender == [m \in Messages |-> IF m \in {hello, again} THEN alice ELSE bob]
MCGroupOf == [m \in Messages |->
    CASE m \in {teamed, photo} -> team [] m = clubbed -> club [] OTHER -> NoGroup]
MCCreations == Messages \cap {teamed, clubbed}
MCMembersIn == [m \in MCCreations |->
    IF m = teamed THEN {alice, bob, carol} ELSE {alice, bob}]
MCDownloads == [m \in Messages |-> IF m = photo THEN 1 ELSE 0]

mcVars == <<vars, budget>>

Full == [session |-> MaxSessions, failure |-> MaxFailures, dialog |-> MaxDialogs]

Spend(what) ==
    /\ budget[what] > 0
    /\ budget' = [budget EXCEPT ![what] = @ - 1, !.dialog = 0]

SpendAll ==
    /\ budget = Full /\ MaxDialogs > 0
    /\ budget' = [what \in DOMAIN budget |-> 0]

MCInit ==
    /\ Init
    /\ Len(posted) = MaxPosted
    /\ again \in Range(posted) => Precedes(hello, again)
    /\ clubbed \in Range(posted) => teamed \in Range(posted) /\ Last(posted) = hello
    /\ budget = Full

WorkOff ==
    \/ DeliverMessage
    \/ \E c \in Contacts : LookupFinishes(c, TRUE)
    \/ \E i \in DOMAIN net.tasks : DownloadFinishes(i, TRUE)
    \/ OnContactChanged
    \/ AddNewContact
    \/ ExecuteCall
    \/ \E successful \in BOOLEAN : ContactEntered(successful)

(* The network thread's loop over the messages of a processor touches      *)
(* nothing that other threads look at, so they need not run meanwhile.     *)
MCNext ==
    /\ ~net.crashed
    /\ \/ HandleQueuedMessage /\ UNCHANGED budget
       \/ Idle /\ WorkOff /\ UNCHANGED budget
       \/ \E c \in Contacts : LookupFinishes(c, FALSE) /\ Spend("failure")
       \/ \E i \in DOMAIN net.tasks : DownloadFinishes(i, FALSE) /\ Spend("failure")
       \/ Reconnect /\ Spend("session")
       \/ ReplaceClient /\ Spend("session")
       \/ \E c \in Contacts : Idle /\ AskForContact(c) /\ SpendAll

(* Every thread runs its event loop, and a request to a server ends with   *)
(* an answer or a timeout.  The network thread's events keep their order,  *)
(* so that a signal is not passed over by lookups that end again and again.*)
Fairness ==
    /\ WF_vars(HandleQueuedMessage)
    /\ WF_vars(TaskStep)
    /\ SF_vars(OnContactChanged)
    /\ WF_vars(AddNewContact)
    /\ WF_vars(ExecuteCall)

MCSpec == MCInit /\ [][MCNext]_mcVars /\ Fairness
=============================================================================
