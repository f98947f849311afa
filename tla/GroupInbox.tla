----------------------------- MODULE GroupInbox -----------------------------
(***************************************************************************)
(* Received group messages, from the server's mailbox to the tables.       *)
(*   - The server keeps a message until we acknowledge it and delivers     *)
(*     what it keeps anew in every session.                                *)
(*   - The protocol client hands each message to the message center.       *)
(*   - The message center (SimpleMessageCenter) refuses a message, holds   *)
(*     it in a queue in memory (MessageQueue) until its group is set up,   *)
(*     or posts it to the database and acknowledges it.                    *)
(*   - The database thread executes the posted calls in order.             *)
(* The message center's questions to the database block, so they are       *)
(* answered after everything posted before them; its stores do not block,  *)
(* so the acknowledgment may leave before the row exists.                  *)
(***************************************************************************)
EXTENDS Integers, Sequences, FiniteSets

CONSTANTS
    Self,          \* our own identity
    Contacts,      \* the other identities, all of them in our contact list
    Groups,
    Owner,         \* Owner[g]: the identity that is part of g's identifier
    Messages,
    Kind,          \* Kind[m]: what m is
    GroupOf,       \* GroupOf[m]: the group that m names
    Sender,        \* Sender[m]
    MembersIn,     \* MembersIn[m]: the members that a creation m lists
    Answers,       \* messages posted only in answer to a sync request of ours
    Delayed,       \* messages the protocol client may have to hold back
    Trusts,        \* the values the option TRUST_OTHERS may have
    Initially      \* Initially[g]: the members of a group known at first

People == Contacts \cup {Self}
Kinds == {"text", "media", "title", "leave", "creation", "sync"}

(* A title or creation names its sender as the owner, a sync request names *)
(* us: the group identifier is completed like this when it is parsed.      *)
ASSUME InboxAssumption ==
    /\ Self \notin Contacts
    /\ Owner \in [Groups -> People]
    /\ Kind \in [Messages -> Kinds]
    /\ GroupOf \in [Messages -> Groups]
    /\ Sender \in [Messages -> Contacts]
    /\ \A m \in Messages :
        /\ Kind[m] \in {"title", "creation"} => Owner[GroupOf[m]] = Sender[m]
        /\ Kind[m] = "sync" => Owner[GroupOf[m]] = Self
    /\ MembersIn \in [Messages -> SUBSET People]
    /\ Answers \subseteq Messages
    /\ Delayed \subseteq Messages
    /\ Trusts \subseteq BOOLEAN
    /\ Initially \in [Groups -> SUBSET People]
    /\ \A g \in Groups : Initially[g] # {} => Self \in Initially[g]

VARIABLES
    app,           \* "running", "quitting" (an exception was seen) or "quit"
    status,        \* status[g]: getGroupStatus, from is_deleted and
                   \* is_awaiting_sync
    members,       \* members[g]: column members
    titled,        \* titled[g]: column groupname is not empty
    stored,        \* rows of received messages, in the order of insertion
    lastSync,      \* lastSync[g]: age of our last stored sync request
    inbox,         \* events waiting for the message center
    queue,         \* queue[g]: MessageQueue's messages for g
    replay,        \* what the loop over the dequeued messages has left
    dbq,           \* calls waiting for the database thread
    acks,          \* acknowledgments under way to the server
    connected,     \* a session is established
    posted,        \* messages sent to us so far, in order (history)
    unacked,       \* messages the server keeps for us
    seen,          \* messages delivered in this session
    delivered,     \* delivered[m]: times m was delivered (history)
    lost           \* stores that a crash or an exception cut off (history)

tableVars  == <<status, members, titled, stored>>
memoryVars == <<inbox, queue, replay>>
serverVars == <<connected, posted, unacked, seen, delivered>>
vars == <<app, tableVars, lastSync, memoryVars, dbq, acks, serverVars, lost>>

Call == [op: Kinds \cup {"newGroup"}, msg: Messages, with: SUBSET People]

HasGroup(g) == status[g] \in {"known", "temporary"}

(* The messages that calls will store. *)
MessagesIn(calls) ==
    {calls[i].msg : i \in {j \in DOMAIN calls : calls[j].op # "newGroup"}}

Kept == {stored[i] : i \in DOMAIN stored} \cup MessagesIn(dbq) \cup lost

-----------------------------------------------------------------------------
(* The database thread.                                                    *)

(* Mutated form of AddGroup: containsUs is not looked at. *)
MutantAddGroup(g, with, awaitingSync) ==
    /\ members' = [members EXCEPT ![g] = with]
    /\ titled' = [titled EXCEPT ![g] = FALSE]
    /\ status' = [status EXCEPT ![g] = IF awaitingSync THEN "temporary" ELSE "known"]

(* addGroup; both callers pass an empty name. *)
AddGroup(g, with, awaitingSync) ==
    /\ members' = [members EXCEPT ![g] = with]
    /\ titled' = [titled EXCEPT ![g] = FALSE]
    /\ status' = [status EXCEPT ![g] = IF Self \notin with THEN "deleted"
                                       ELSE IF awaitingSync THEN "temporary"
                                       ELSE "known"]

(* setGroupMembers: is_awaiting_sync stays as it is. *)
SetGroupMembers(g, with) ==
    /\ members' = [members EXCEPT ![g] = with]
    /\ status' = [status EXCEPT ![g] = IF Self \in with THEN @ ELSE "deleted"]
    /\ UNCHANGED titled

(* The conditions under which the database does not throw. *)
CanExecute(call) ==
    LET g == GroupOf[call.msg]
        isFromOwner == Sender[call.msg] = Owner[g]
    IN  \/ call.op \in {"text", "newGroup"}
        \/ call.op \in {"media", "leave"} /\ HasGroup(g)
        \/ call.op = "title" /\ HasGroup(g) /\ isFromOwner
        \/ call.op = "sync" /\ HasGroup(g) /\ Owner[g] = Self
        \/ call.op = "creation" /\ isFromOwner

InsertRow(call) == stored' = Append(stored, call.msg)

Execute(call) ==
    LET g == GroupOf[call.msg]
    IN  \/ /\ call.op \in {"text", "media", "sync"}
           /\ InsertRow(call)
           /\ UNCHANGED <<status, members, titled>>
        \/ /\ call.op = "leave"
           /\ InsertRow(call)
           /\ SetGroupMembers(g, members[g] \ {Sender[call.msg]})
        \/ /\ call.op = "title"
           /\ InsertRow(call)
           /\ titled' = [titled EXCEPT ![g] = TRUE]
           /\ UNCHANGED <<status, members>>
        \/ /\ call.op = "creation"
           /\ InsertRow(call)
           /\ AddGroup(g, call.with, FALSE)
        \/ /\ call.op = "newGroup"
           /\ AddGroup(g, call.with, TRUE)
           /\ UNCHANGED stored

(* A call that throws tells the application to quit; the other threads     *)
(* keep running until it does.                                             *)
ExecuteStore ==
    /\ app # "quit"
    /\ dbq # <<>>
    /\ dbq' = Tail(dbq)
    /\ IF CanExecute(Head(dbq))
       THEN /\ Execute(Head(dbq))
            /\ UNCHANGED <<app, lost>>
       ELSE /\ app' = "quitting"
            /\ lost' = lost \cup MessagesIn(<<Head(dbq)>>)
            /\ UNCHANGED tableVars
    /\ UNCHANGED <<lastSync, memoryVars, acks, serverVars>>

-----------------------------------------------------------------------------
(* The message center.                                                     *)

(* Mutated form of Ready: the questions to the database do not wait for    *)
(* the calls posted before them.                                           *)
MutantReady == app # "quit"

(* Every handler begins with a blocking question to the database, so that  *)
(* what the handlers before it posted has been executed.                   *)
Ready == app # "quit" /\ dbq = <<>>

(* The next message: of the loop over dequeued messages or, when there is  *)
(* no such loop, of the event queue.                                       *)
Take(m) ==
    \/ /\ replay # <<>>
       /\ m = Head(replay)
       /\ replay' = Tail(replay)
       /\ UNCHANGED inbox
    \/ /\ replay = <<>>
       /\ inbox # <<>>
       /\ m = Head(inbox)
       /\ inbox' = Tail(inbox)
       /\ UNCHANGED replay

(* The early returns of the handlers. *)
Refused(m) ==
    \/ /\ Kind[m] \in {"title", "creation", "sync"}
       /\ Sender[m] # Owner[GroupOf[m]]
    \/ Kind[m] = "sync" /\ Owner[GroupOf[m]] # Self

(* checkAndFixGroupMembership returns true without further ado. *)
Recognised(m) ==
    LET g == GroupOf[m]
    IN  HasGroup(g) /\ (Sender[m] \in members[g] \/ Sender[m] = Owner[g])

(* Mutated form of RequestSyncForGroupIfApplicable: the message that calls *)
(* for a request is already found in the queue.                            *)
MutantRequestSyncForGroupIfApplicable(g) == UNCHANGED lastSync

(* requestSyncForGroupIfApplicable, for a group that is not ours; the      *)
(* request is stored before the call returns.                              *)
RequestSyncForGroupIfApplicable(g) ==
    lastSync' = [lastSync EXCEPT ![g] =
                    IF Owner[g] # Self /\ queue[g] = <<>> THEN "recent" ELSE @]

SaveCall(m) == [op |-> Kind[m], msg |-> m, with |-> {}]

(* A message is refused: neither stored nor acknowledged. *)
IgnoreMessage(m) ==
    /\ Ready
    /\ Take(m)
    /\ Refused(m)
    /\ UNCHANGED <<app, tableVars, lastSync, queue, dbq, acks, serverVars, lost>>

AcceptMessage(m) ==
    /\ Ready
    /\ Take(m)
    /\ Kind[m] # "creation"
    /\ ~Refused(m)
    /\ Recognised(m)
    /\ dbq' = Append(dbq, SaveCall(m))
    /\ acks' = acks \cup {m}
    /\ UNCHANGED <<app, tableVars, lastSync, queue, serverVars, lost>>

(* Mutated form of MayTrust: the option is not looked at. *)
MutantMayTrust(m) == HasGroup(GroupOf[m]) => Owner[GroupOf[m]] # Self

(* What may be done with a message whose sender is no member. *)
MayTrust(m) ==
    /\ TRUE \in Trusts
    /\ HasGroup(GroupOf[m]) => Owner[GroupOf[m]] # Self

MayDistrust(m) ==
    \/ FALSE \in Trusts
    \/ HasGroup(GroupOf[m]) /\ Owner[GroupOf[m]] = Self

(* The members of a group that trust adds the sender to.  Those of a       *)
(* deleted group cannot be read: the database throws, and the blocked call *)
(* returns an empty set.                                                   *)
TrustedMembers(m) ==
    {Self, Sender[m]} \cup
        (IF HasGroup(GroupOf[m]) THEN members[GroupOf[m]] ELSE {})

NewGroupCall(m) ==
    [op |-> "newGroup", msg |-> m, with |-> TrustedMembers(m)]

(* Mutated form of TrustCalls: the message is posted before the group. *)
MutantTrustCalls(m) == <<SaveCall(m), NewGroupCall(m)>>

TrustCalls(m) == <<NewGroupCall(m), SaveCall(m)>>

(* A message that is neither refused nor recognised. *)
Unrecognised(m) ==
    /\ Ready
    /\ Take(m)
    /\ Kind[m] # "creation"
    /\ ~Refused(m)
    /\ ~Recognised(m)

TrustSender(m) ==
    /\ Unrecognised(m)
    /\ MayTrust(m)
    /\ RequestSyncForGroupIfApplicable(GroupOf[m])
    /\ dbq' = dbq \o TrustCalls(m)
    /\ acks' = acks \cup {m}
    /\ app' = IF status[GroupOf[m]] = "deleted" THEN "quitting" ELSE app
    /\ UNCHANGED <<tableVars, queue, serverVars, lost>>

(* Mutated form of StoreGroupMessage: a queued message is acknowledged. *)
MutantStoreGroupMessage(m) ==
    /\ queue' = [queue EXCEPT ![GroupOf[m]] = Append(@, m)]
    /\ acks' = acks \cup {m}

(* storeGroupMessage; there is no acknowledgment. *)
StoreGroupMessage(m) ==
    /\ queue' = [queue EXCEPT ![GroupOf[m]] = Append(@, m)]
    /\ UNCHANGED acks

QueueMessage(m) ==
    /\ Unrecognised(m)
    /\ MayDistrust(m)
    /\ RequestSyncForGroupIfApplicable(GroupOf[m])
    /\ StoreGroupMessage(m)
    /\ UNCHANGED <<app, tableVars, dbq, serverVars, lost>>

CreationCall(m) ==
    [op |-> "creation", msg |-> m, with |-> MembersIn[m] \cup {Owner[GroupOf[m]]}]

(* Mutated form of ReplayQueued: the messages are posted as new events. *)
MutantReplayQueued(g) ==
    /\ inbox' = Tail(inbox) \o queue[g]
    /\ queue' = [queue EXCEPT ![g] = <<>>]
    /\ UNCHANGED replay

(* Mutated form of ReplayQueued: the messages stay in the queue. *)
MutantReplayQueuedKeep(g) ==
    /\ inbox' = Tail(inbox)
    /\ replay' = queue[g]
    /\ UNCHANGED queue

(* Mutated form of ReplayQueued: the queue is cleared only. *)
MutantReplayQueuedDrop(g) ==
    /\ inbox' = Tail(inbox)
    /\ queue' = [queue EXCEPT ![g] = <<>>]
    /\ UNCHANGED replay

(* The messages of getAndRemoveQueuedMessages are processed next. *)
ReplayQueued(g) ==
    /\ inbox' = Tail(inbox)
    /\ replay' = queue[g]
    /\ queue' = [queue EXCEPT ![g] = <<>>]

(* The owner counts as a member even if the creation does not list it. *)
ProcessReceivedGroupCreation(m) ==
    /\ Ready
    /\ replay = <<>>
    /\ inbox # <<>>
    /\ m = Head(inbox)
    /\ Kind[m] = "creation"
    /\ ~Refused(m)
    /\ dbq' = Append(dbq, CreationCall(m))
    /\ acks' = acks \cup {m}
    /\ ReplayQueued(GroupOf[m])
    /\ UNCHANGED <<app, tableVars, lastSync, serverVars, lost>>

(* sendSyncRequest, from a group's entry in the window, which may be there *)
(* a little longer than the group.                                         *)
SendSyncRequest(g) ==
    /\ Ready
    /\ replay = <<>>
    /\ status[g] # "unknown"
    /\ Owner[g] # Self
    /\ lastSync' = [lastSync EXCEPT ![g] = "recent"]
    /\ UNCHANGED <<app, tableVars, memoryVars, dbq, acks, serverVars, lost>>

FiveMinutesPass(g) ==
    /\ lastSync[g] = "recent"
    /\ lastSync' = [lastSync EXCEPT ![g] = "old"]
    /\ UNCHANGED <<app, tableVars, memoryVars, dbq, acks, serverVars, lost>>

-----------------------------------------------------------------------------
(* The protocol client and the server.                                     *)

Post(m) ==
    /\ \A i \in DOMAIN posted : posted[i] # m
    /\ m \in Answers => lastSync[GroupOf[m]] # "never"
    /\ posted' = Append(posted, m)
    /\ unacked' = unacked \cup {m}
    /\ UNCHANGED <<app, tableVars, lastSync, memoryVars, dbq, acks, connected,
                   seen, delivered, lost>>

(* The server delivers in the order of posting.  A message with a download *)
(* or with an identity to look up reaches the message center later.        *)
Deliver(m) ==
    /\ app # "quit"
    /\ connected
    /\ m \in unacked \ seen
    /\ \E i \in DOMAIN posted :
        /\ posted[i] = m
        /\ \A j \in 1..(i - 1) : posted[j] \in unacked \ seen => posted[j] \in Delayed
    /\ inbox' = Append(inbox, m)
    /\ seen' = seen \cup {m}
    /\ delivered' = [delivered EXCEPT ![m] = @ + 1]
    /\ UNCHANGED <<app, tableVars, lastSync, queue, replay, dbq, acks,
                   connected, posted, unacked, lost>>

AckArrives(m) ==
    /\ connected
    /\ m \in acks
    /\ acks' = acks \ {m}
    /\ unacked' = unacked \ {m}
    /\ UNCHANGED <<app, tableVars, lastSync, memoryVars, dbq, connected, posted,
                   seen, delivered, lost>>

SocketDisconnected ==
    /\ connected
    /\ connected' = FALSE
    /\ UNCHANGED <<app, tableVars, lastSync, memoryVars, dbq, acks, posted,
                   unacked, seen, delivered, lost>>

(* A new session.  An acknowledgment that was not taken before is lost     *)
(* unless the message center happened to hand it to the new client.        *)
Reconnect ==
    /\ app = "running"
    /\ ~connected
    /\ connected' = TRUE
    /\ seen' = {}
    /\ acks' \in SUBSET acks
    /\ UNCHANGED <<app, tableVars, lastSync, memoryVars, dbq, posted, unacked,
                   delivered, lost>>

-----------------------------------------------------------------------------
(* The process.                                                            *)

LoseVolatileState ==
    /\ app' = "quit"
    /\ inbox' = <<>>
    /\ queue' = [g \in Groups |-> <<>>]
    /\ replay' = <<>>
    /\ dbq' = <<>>
    /\ acks' = {}
    /\ connected' = FALSE
    /\ lost' = lost \cup MessagesIn(dbq)
    /\ UNCHANGED <<lastSync, posted, unacked, seen, delivered>>

(* The process dies.  A call that inserts a row and then changes the group *)
(* runs in no transaction and may be cut in two.                           *)
Crash ==
    /\ app = "running"
    /\ LoseVolatileState
    /\ \/ UNCHANGED stored
       \/ /\ dbq # <<>>
          /\ Head(dbq).op \in {"leave", "title", "creation"}
          /\ CanExecute(Head(dbq))
          /\ InsertRow(Head(dbq))
    /\ UNCHANGED <<status, members, titled>>

(* The application has left its event loop after an exception. *)
Exit ==
    /\ app = "quitting"
    /\ LoseVolatileState
    /\ UNCHANGED tableVars

Restart ==
    /\ app = "quit"
    /\ app' = "running"
    /\ UNCHANGED <<tableVars, lastSync, memoryVars, dbq, acks, serverVars, lost>>

Init ==
    /\ app = "running"
    /\ status = [g \in Groups |-> IF Initially[g] = {} THEN "unknown" ELSE "known"]
    /\ members = Initially
    /\ titled = [g \in Groups |-> Initially[g] # {}]
    /\ stored = <<>>
    /\ lastSync = [g \in Groups |-> "never"]
    /\ inbox = <<>>
    /\ queue = [g \in Groups |-> <<>>]
    /\ replay = <<>>
    /\ dbq = <<>>
    /\ acks = {}
    /\ connected = FALSE
    /\ posted = <<>>
    /\ unacked = {}
    /\ seen = {}
    /\ delivered = [m \in Messages |-> 0]
    /\ lost = {}

CenterStep ==
    \E m \in Messages :
        \/ IgnoreMessage(m)
        \/ AcceptMessage(m)
        \/ TrustSender(m)
        \/ QueueMessage(m)
        \/ ProcessReceivedGroupCreation(m)

Next ==
    \/ ExecuteStore
    \/ CenterStep
    \/ \E g \in Groups : SendSyncRequest(g) \/ FiveMinutesPass(g)
    \/ \E m \in Messages : Post(m) \/ Deliver(m) \/ AckArrives(m)
    \/ SocketDisconnected
    \/ Reconnect
    \/ Crash
    \/ Exit
    \/ Restart

Spec == Init /\ [][Next]_vars

-----------------------------------------------------------------------------
(* Properties.                                                             *)

Held(g) == {m \in Messages : GroupOf[m] = g /\ Kind[m] \notin {"creation", "sync"}}

(* Types.  Of the message queue: it holds messages for the group they are  *)
(* filed under, and none of a type that the loop over the dequeued         *)
(* messages does not expect or that an early return should have stopped.   *)
TypeOK ==
    /\ app \in {"running", "quitting", "quit"}
    /\ status \in [Groups -> {"unknown", "known", "temporary", "deleted"}]
    /\ members \in [Groups -> SUBSET People]
    /\ titled \in [Groups -> BOOLEAN]
    /\ stored \in Seq(Messages)
    /\ lastSync \in [Groups -> {"never", "recent", "old"}]
    /\ inbox \in Seq(Messages)
    /\ queue \in [Groups -> Seq(Messages)]
    /\ \A g \in Groups : \A i \in DOMAIN queue[g] : queue[g][i] \in Held(g)
    /\ replay \in Seq(Messages)
    /\ \A i \in DOMAIN replay : Kind[replay[i]] \notin {"creation", "sync"}
    /\ dbq \in Seq(Call)
    /\ acks \subseteq Messages
    /\ connected \in BOOLEAN
    /\ posted \in Seq(Messages)
    /\ unacked \subseteq Messages
    /\ seen \subseteq Messages
    /\ delivered \in [Messages -> Nat]
    /\ lost \subseteq Messages

(* No message vanishes: what the server keeps no longer is in the tables,  *)
(* is about to be, or fell to a crash between the posting of the call and  *)
(* its execution.  A message in the queue is safe with the server.         *)
NoMessageVanishes ==
    \A i \in DOMAIN posted : posted[i] \in unacked \cup Kept

(* A group that is not ours and for which messages wait was asked for, so  *)
(* that there is hope for them.  This survives a crash: the request is     *)
(* stored before the message is queued.                                    *)
QueuedGroupsWereAskedFor ==
    \A g \in Groups :
        queue[g] # <<>> /\ Owner[g] # Self => lastSync[g] # "never"

(* The database accepts every call: what the message center found out      *)
(* about the group still holds when the call is executed.                  *)
StoresSucceed == dbq # <<>> => CanExecute(Head(dbq))

(* A group is in our list exactly if we are one of its members.            *)
KnownGroupsContainUs == \A g \in Groups : HasGroup(g) <=> Self \in members[g]

Occurrences(seq, m) == Cardinality({i \in DOMAIN seq : seq[i] = m})

OccurrencesInCalls(m) ==
    Cardinality({i \in DOMAIN dbq : dbq[i].op # "newGroup" /\ dbq[i].msg = m})

(* Each delivery of a message leads to one row at most, however often the  *)
(* message passes through the queue.                                       *)
OneRowPerDelivery ==
    \A m \in Messages :
        Occurrences(stored, m) + OccurrencesInCalls(m) + Occurrences(inbox, m)
            + Occurrences(queue[GroupOf[m]], m) + Occurrences(replay, m)
                <= delivered[m]

FirstPlace(seq, m) ==
    CHOOSE i \in DOMAIN seq :
        seq[i] = m /\ \A j \in DOMAIN seq : seq[j] = m => i <= j

IsIn(seq, m) == \E i \in DOMAIN seq : seq[i] = m

(* Texts of one sender to one group come to the tables in the order in     *)
(* which they were sent, also when some of them had to wait in the queue,  *)
(* were delivered anew after a reconnect or survived a crash at the        *)
(* server.  (Not if TRUST_OTHERS is switched on while one waits.)          *)
TextsKeepTheirOrder ==
    \A i \in DOMAIN posted : \A j \in (i + 1)..Len(posted) :
        LET first  == posted[i]
            second == posted[j]
        IN  /\ Kind[first] = "text" /\ Kind[second] = "text"
            /\ Sender[first] = Sender[second]
            /\ GroupOf[first] = GroupOf[second]
            /\ IsIn(stored, second)
            /\ first \notin lost
            => /\ IsIn(stored, first)
               /\ FirstPlace(stored, first) < FirstPlace(stored, second)

(* The rows are what the deliveries make them: no delivery leads to two,   *)
(* and the texts of a sender keep their order.                             *)
RowsFollowDeliveries == OneRowPerDelivery /\ TextsKeepTheirOrder

(* A row of content is written only while the group is known and the       *)
(* sender is a member or the owner, although the check was made in another *)
(* thread and earlier.                                                     *)
OnlyMembersSpeak ==
    [][\A m \in Messages :
          /\ Kind[m] \in {"text", "media"}
          /\ stored' = Append(stored, m)
          => /\ HasGroup(GroupOf[m])
             /\ Sender[m] \in members[GroupOf[m]] \cup {Owner[GroupOf[m]]}]_vars

(* Without TRUST_OTHERS only the owner adds members: whoever comes into a  *)
(* group is listed by the creation stored in the same step or is the owner.*)
OnlyTheOwnerAdds ==
    [][\A g \in Groups : \A c \in members'[g] \ members[g] :
          \E m \in Messages : /\ Kind[m] = "creation"
                             /\ GroupOf[m] = g
                             /\ stored' = Append(stored, m)
                             /\ c \in MembersIn[m] \cup {Owner[g]}]_vars
=============================================================================
