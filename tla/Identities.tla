----------------------------- MODULE Identities -----------------------------
(***************************************************************************)
(* Received messages whose sender, group owner or group members are not    *)
(* known yet, from the server to the message center.                       *)
(*   - The network thread (ProtocolClient) may only open a message with    *)
(*     the sender's public key.  It holds a message back in a              *)
(*     MissingIdentityProcessor while lookups, each in a thread of its     *)
(*     own, ask the identity server; media contents are downloaded in      *)
(*     threads of their own, too.                                          *)
(*   - A key that was found goes through the message center's thread and   *)
(*     the database's before the network thread's KeyRegistry, a cache of  *)
(*     the table of contacts, has it.                                      *)
(*   - Meanwhile the user may enter the same contact in a dialog.          *)
(***************************************************************************)
EXTENDS Naturals, Sequences, FiniteSets, SequencesExt

CONSTANTS
    Contacts,      \* the identities other than our own
    HashOrder,     \* the contacts in the order in which a QSet lists them
    KnownAtFirst,  \* the contacts in our list from the start
    Groups,
    Owner,         \* Owner[g]: the identity that is part of g's identifier
    Messages,
    Sender,        \* Sender[m]
    GroupOf,       \* GroupOf[m]: a group, or NoGroup for a contact message
    NoGroup,
    Creations,     \* the messages that tell the members of a group
    MembersIn,     \* MembersIn[m]: what a creation lists
    Downloads,     \* Downloads[m]: tasks to run once m is opened
    MaxCalls       \* bound: calls that wait for a thread

ASSUME IdentitiesAssumption ==
    /\ HashOrder \in Seq(Contacts)
    /\ Range(HashOrder) = Contacts /\ Len(HashOrder) = Cardinality(Contacts)
    /\ KnownAtFirst \subseteq Contacts
    /\ NoGroup \notin Groups
    /\ Owner \in [Groups -> Contacts]
    /\ IsFiniteSet(Messages) /\ Sender \in [Messages -> Contacts]
    /\ GroupOf \in [Messages -> Groups \cup {NoGroup}]
    /\ \A m \in Creations : GroupOf[m] # NoGroup /\ Owner[GroupOf[m]] = Sender[m]
    /\ MembersIn \in [Creations -> SUBSET Contacts]
    /\ Downloads \in [Messages -> Nat]

VARIABLES
    net,           \* what the protocol client holds, a record of
                   \*   processorOf, groupProcessor: the two tables of
                   \*     processors, by contact and by group
                   \*   processor: what is in a processor
                   \*   lookups: lookups that run for a contact
                   \*   tasks: running downloads, <<message, downloads left>>
                   \*   backlog: messages taken out of a processor that are
                   \*     handled next
                   \*   handed: how often a message was handed over
                   \*   crashed: a null pointer was used
    known,         \* KeyRegistry's cached identities
    outdated,      \* a contactChanged signal waits for the network thread
    centerq,       \* calls of addNewContact waiting for the message center
    dbq,           \* calls waiting for the database
    nickname,      \* the table of contacts, by their nickname
    dialog,        \* the contact whose key the dialog is waiting for
    posted,        \* messages sent to us, in order (constant)
    coming,        \* the set of those that this session has yet to deliver
    acked          \* those that the server need not keep any more

dbVars     == <<centerq, dbq, nickname>>
serverVars == <<posted, coming, acked>>
vars == <<net, known, outdated, dbVars, dialog, serverVars>>

Ids == 1 .. Cardinality(Contacts)
None == 0
Nobody == "nobody"

Empty == [missing |-> {}, group |-> NoGroup, failed |-> FALSE, queue |-> <<>>]

NewClient ==
    [processorOf    |-> [c \in Contacts |-> None],
     groupProcessor |-> [g \in Groups |-> None],
     processor      |-> [p \in Ids |-> Empty],
     lookups        |-> [c \in Contacts |-> 0],
     tasks          |-> <<>>,
     backlog        |-> <<>>,
     handed         |-> [m \in Messages |-> 0],
     crashed        |-> FALSE]

-----------------------------------------------------------------------------
(* The protocol client's handlers, as functions of what it holds.          *)

Waiting(s, c) == s.processorOf[c] # None

EnqueueMessage(s, p, m) == [s EXCEPT !.processor[p].queue = Append(@, m)]

Referenced(s) == Range(s.processorOf) \cup Range(s.groupProcessor)

(* A new MissingIdentityProcessor for the contacts in missing, its first   *)
(* message, and a lookup for each of them.                                 *)
NewProcessor(s, missing, group, m) ==
    LET p == CHOOSE i \in Ids : i \notin Referenced(s)
    IN  [s EXCEPT
            !.processorOf = [c \in Contacts |-> IF c \in missing THEN p ELSE @[c]],
            !.processor[p] = [missing |-> missing, group |-> group,
                              failed |-> FALSE, queue |-> <<m>>],
            !.lookups = [c \in Contacts |-> IF c \in missing THEN @[c] + 1 ELSE @[c]]]

(* needToWaitForMissingIdentity: whether it holds the message back ... *)
NeedsToWait(s, c) == Waiting(s, c) \/ c \notin known

(* ... and what it does then. *)
WaitForMissingIdentity(s, c, m) ==
    IF Waiting(s, c) THEN EnqueueMessage(s, s.processorOf[c], m)
    ELSE NewProcessor(s, {c}, NoGroup, m)

HandOver(s, m) == [s EXCEPT !.handed[m] = @ + 1]

(* The first of these contacts for which messages wait already. *)
FirstWaiting(s, contacts) ==
    LET waits(i) == HashOrder[i] \in contacts /\ Waiting(s, HashOrder[i])
    IN  HashOrder[CHOOSE i \in DOMAIN HashOrder :
                      waits(i) /\ \A j \in DOMAIN HashOrder : waits(j) => i <= j]

(* Mutated form of HandleGroupCreation: all members are looked up. *)
MutantHandleGroupCreation(s, m) ==
    LET members == MembersIn[m]
        g == GroupOf[m]
    IN  IF \E c \in members : Waiting(s, c)
        THEN EnqueueMessage(s, s.processorOf[FirstWaiting(s, members)], m)
        ELSE IF MembersIn[m] \subseteq known THEN HandOver(s, m)
        ELSE LET t == NewProcessor(s, MembersIn[m], g, m)
             IN  [t EXCEPT !.groupProcessor[g] = t.processorOf[CHOOSE c \in MembersIn[m] : TRUE]]

(* Mutated form of HandleGroupCreation: who is not known is not missing. *)
MutantHandleGroupCreationUnknown(s, m) ==
    LET members == MembersIn[m]
    IN  IF \E c \in members : Waiting(s, c)
        THEN EnqueueMessage(s, s.processorOf[FirstWaiting(s, members)], m)
        ELSE HandOver(s, m)

(* A creation waits with the first of its members that others wait for     *)
(* already, or with a processor of its own for the unknown ones.           *)
HandleGroupCreation(s, m) ==
    LET members == MembersIn[m]
        missing == members \ known
        g == GroupOf[m]
    IN  IF \E c \in members : Waiting(s, c)
        THEN EnqueueMessage(s, s.processorOf[FirstWaiting(s, members)], m)
        ELSE IF missing = {} THEN HandOver(s, m)
        ELSE LET t == NewProcessor(s, missing, g, m)
             IN  [t EXCEPT !.groupProcessor[g] =
                      t.processorOf[CHOOSE c \in missing : TRUE]]

(* An opened message with downloads still to run; sealed: its encrypted    *)
(* form is at hand, which it is not after a download.  A message that      *)
(* cannot be queued then is dropped.                                       *)
HandleOpened(s, m, left, sealed) ==
    LET g == GroupOf[m]
        waits == g # NoGroup /\ NeedsToWait(s, Owner[g])
        groupWaits == g # NoGroup /\ s.groupProcessor[g] # None
    IN  IF waits /\ sealed THEN WaitForMissingIdentity(s, Owner[g], m)
        ELSE IF waits THEN [s EXCEPT !.crashed = TRUE]
        ELSE IF groupWaits /\ sealed THEN EnqueueMessage(s, s.groupProcessor[g], m)
        ELSE IF groupWaits THEN s
        ELSE IF left > 0 THEN [s EXCEPT !.tasks = Append(@, <<m, left>>)]
        ELSE IF m \in Creations THEN HandleGroupCreation(s, m)
        ELSE HandOver(s, m)

(* Mutated form of HandleIncomingMessage: what is known need not wait. *)
MutantHandleIncomingMessage(s, m) ==
    IF Sender[m] \notin known THEN WaitForMissingIdentity(s, Sender[m], m)
    ELSE HandleOpened(s, m, Downloads[m], TRUE)

(* A message as the server delivers it, or taken out of a processor. *)
HandleIncomingMessage(s, m) ==
    IF NeedsToWait(s, Sender[m]) THEN WaitForMissingIdentity(s, Sender[m], m)
    ELSE HandleOpened(s, m, Downloads[m], TRUE)

(* Mutated form of ProcessorFinishes: the group's entry stays. *)
MutantProcessorFinishes(s, p) ==
    LET done == s.processor[p]
        t == [s EXCEPT !.processor[p] = Empty]
    IN  IF done.failed THEN t ELSE [t EXCEPT !.backlog = done.queue]

(* The last lookup of a processor has ended: its messages are handled      *)
(* anew, or discarded if any of its lookups has failed.                    *)
ProcessorFinishes(s, p) ==
    LET done == s.processor[p]
        t == [s EXCEPT
                !.groupProcessor = [g \in Groups |-> IF g = done.group THEN None ELSE @[g]],
                !.processor[p] = Empty]
    IN  IF done.failed THEN t ELSE [t EXCEPT !.backlog = done.queue]

-----------------------------------------------------------------------------
(* The database.                                                           *)

(* addContact sets the columns of a contact that it finds in the table to  *)
(* those of the new one, which has no nickname; setNickName.               *)
NameAfter(call) == IF call[1] = "add" THEN "" ELSE "chosen"

ExecuteCall ==
    /\ dbq # <<>>
    /\ dbq' = Tail(dbq)
    /\ nickname' = [nickname EXCEPT ![Head(dbq)[2]] = NameAfter(Head(dbq))]
    /\ outdated' = TRUE
    /\ UNCHANGED <<net, known, centerq, dialog, serverVars>>

(* The nickname once all calls are executed: the last one for c counts. *)
FinalName(c) ==
    LET calls == {i \in DOMAIN dbq : dbq[i][2] = c}
        last  == CHOOSE i \in calls : \A j \in calls : j <= i
    IN  IF calls = {} THEN nickname[c] ELSE NameAfter(dbq[last])

(* A call that blocks until the database answers, which executes what was  *)
(* posted before.                                                          *)
AskDatabase ==
    /\ dbq' = <<>>
    /\ nickname' = [c \in Contacts |-> FinalName(c)]

-----------------------------------------------------------------------------
(* The network thread.                                                     *)

(* The thread is in no slot, in particular not in the loop over the        *)
(* messages of a processor.                                                *)
Idle == net.backlog = <<>>

(* The server delivers in the order of sending. *)
DeliverMessage ==
    /\ Idle
    /\ \E i \in DOMAIN posted :
        /\ posted[i] \in coming
        /\ \A j \in 1 .. i - 1 : posted[j] \notin coming
        /\ net' = HandleIncomingMessage(net, posted[i])
        /\ coming' = coming \ {posted[i]}
    /\ UNCHANGED <<known, outdated, dbVars, dialog, posted, acked>>

(* The loop in callbackTaskFinished over the messages of a processor. *)
HandleQueuedMessage ==
    /\ net.backlog # <<>>
    /\ net' = HandleIncomingMessage([net EXCEPT !.backlog = Tail(@)], Head(net.backlog))
    /\ UNCHANGED <<known, outdated, dbVars, dialog, serverVars>>

(* callbackTaskFinished for an IdentityReceiverCallbackTask. *)
LookupFinishes(c, successful) ==
    /\ Idle
    /\ net.lookups[c] > 0
    /\ Len(centerq) < MaxCalls
    /\ LET p == net.processorOf[c]
           s == [net EXCEPT !.lookups[c] = @ - 1]
           t == [s EXCEPT !.processorOf[c] = None,
                          !.processor[p].missing = @ \ {c},
                          !.processor[p].failed = @ \/ ~successful]
       IN  IF p = None THEN net' = s
           ELSE net' = IF t.processor[p].missing = {} THEN ProcessorFinishes(t, p) ELSE t
    /\ centerq' = IF net.processorOf[c] # None /\ successful /\ c \notin known
                  THEN Append(centerq, c) ELSE centerq
    /\ UNCHANGED <<known, outdated, dbq, nickname, dialog, serverVars>>

(* callbackTaskFinished for a received message: the next one of its        *)
(* downloads, or the message is complete; a failed one drops it.           *)
DownloadFinishes(i, successful) ==
    /\ Idle
    /\ i \in DOMAIN net.tasks
    /\ LET m == net.tasks[i][1]
           left == net.tasks[i][2] - 1
           s == [net EXCEPT !.tasks = RemoveAt(@, i)]
       IN  net' = IF successful THEN HandleOpened(s, m, left, FALSE) ELSE s
    /\ UNCHANGED <<known, outdated, dbVars, dialog, serverVars>>

(* Mutated form of OnContactChanged: the cache is not filled again. *)
MutantOnContactChanged ==
    /\ Idle
    /\ outdated
    /\ outdated' = FALSE
    /\ UNCHANGED <<net, known, dbVars, dialog, serverVars>>

(* KeyRegistry::onContactChanged reads the whole table anew. *)
OnContactChanged ==
    /\ Idle
    /\ outdated
    /\ AskDatabase
    /\ outdated' = (dbq # <<>>)
    /\ known' = {c \in Contacts : nickname'[c] # "absent"}
    /\ UNCHANGED <<net, centerq, dialog, serverVars>>

HandedOver == {m \in Messages : net.handed[m] > 0}

(* The next session delivers what the server has got no acknowledgment for *)
(* in this one; those are under way from the moment a message is handed    *)
(* over.                                                                   *)
NewSession ==
    \E heard \in SUBSET (HandedOver \ acked) :
        /\ acked' = acked \cup heard
        /\ coming' = Range(posted) \ acked'
        /\ UNCHANGED posted

(* The connection is lost and set up again. *)
Reconnect ==
    /\ Idle
    /\ NewSession
    /\ UNCHANGED <<net, known, outdated, dbVars, dialog>>

(* The user has the protocol client replaced by a new one; the results of  *)
(* running lookups and downloads do not reach that one.                    *)
ReplaceClient ==
    /\ Idle
    /\ AskDatabase
    /\ net' = [NewClient EXCEPT !.handed = net.handed]
    /\ known' = {c \in Contacts : nickname'[c] # "absent"}
    /\ outdated' = FALSE
    /\ NewSession
    /\ UNCHANGED <<centerq, dialog>>

-----------------------------------------------------------------------------
(* The message center.                                                     *)

AddNewContact ==
    /\ centerq # <<>>
    /\ Len(dbq) < MaxCalls
    /\ dbq' = Append(dbq, <<"add", Head(centerq)>>)
    /\ centerq' = Tail(centerq)
    /\ UNCHANGED <<net, known, outdated, nickname, dialog, serverVars>>

-----------------------------------------------------------------------------
(* The user and the outside.                                               *)

(* menuContactAddOnClick: the contact must not be in the table. *)
AskForContact(c) ==
    /\ dialog = Nobody
    /\ AskDatabase
    /\ nickname'[c] = "absent"
    /\ dialog' = c
    /\ outdated' = (outdated \/ dbq # <<>>)
    /\ UNCHANGED <<net, known, centerq, serverVars>>

(* Its lookup has succeeded, and a nickname was entered; or it has failed. *)
ContactEntered(successful) ==
    /\ dialog # Nobody
    /\ dbq' = IF successful THEN dbq \o << <<"add", dialog>>, <<"name", dialog>> >>
              ELSE dbq
    /\ dialog' = Nobody
    /\ UNCHANGED <<net, known, outdated, centerq, nickname, serverVars>>

Init ==
    /\ net = NewClient
    /\ known = KnownAtFirst
    /\ outdated = FALSE
    /\ centerq = <<>> /\ dbq = <<>>
    /\ nickname = [c \in Contacts |-> IF c \in KnownAtFirst THEN "" ELSE "absent"]
    /\ dialog = Nobody
    /\ posted \in UNION {[1 .. n -> Messages] : n \in 0 .. Cardinality(Messages)}
    /\ \A i, j \in DOMAIN posted : posted[i] = posted[j] => i = j
    /\ coming = Range(posted) /\ acked = {}

TaskStep ==
    \/ \E c \in Contacts, successful \in BOOLEAN : LookupFinishes(c, successful)
    \/ \E i \in DOMAIN net.tasks, successful \in BOOLEAN :
           DownloadFinishes(i, successful)

Next ==
    \/ DeliverMessage
    \/ HandleQueuedMessage
    \/ TaskStep
    \/ OnContactChanged
    \/ AddNewContact
    \/ ExecuteCall
    \/ \E c \in Contacts : AskForContact(c)
    \/ \E successful \in BOOLEAN : ContactEntered(successful)
    \/ Reconnect
    \/ ReplaceClient

Spec == Init /\ [][~net.crashed /\ Next]_vars

-----------------------------------------------------------------------------
(* Properties.                                                             *)

Net ==
    [processorOf    : [Contacts -> Ids \cup {None}],
     groupProcessor : [Groups -> Ids \cup {None}],
     processor      : [Ids -> [missing : SUBSET Contacts, group : Groups \cup {NoGroup},
                               failed : BOOLEAN, queue : Seq(Messages)]],
     lookups        : [Contacts -> Nat],
     tasks          : Seq(Messages \X (Nat \ {0})),
     backlog        : Seq(Messages),
     handed         : [Messages -> Nat],
     crashed        : BOOLEAN]

TypeOK ==
    /\ net \in Net
    /\ known \subseteq Contacts /\ outdated \in BOOLEAN
    /\ centerq \in Seq(Contacts)
    /\ dbq \in Seq({"add", "name"} \X Contacts)
    /\ nickname \in [Contacts -> {"absent", "", "chosen"}]
    /\ dialog \in Contacts \cup {Nobody}
    /\ posted \in Seq(Messages) /\ coming \subseteq Messages
    /\ acked \subseteq Messages

(* The tables, the processors and the running lookups agree: a contact is  *)
(* looked up exactly if messages wait for it, once, and then its processor *)
(* misses it; a group waits exactly as long as one of its members is       *)
(* missing.  No message can be left in a processor that nothing ends.      *)
LookupsMatchWaiters ==
    /\ TypeOK
    /\ \A c \in Contacts :
        LET p == net.processorOf[c]
        IN  /\ net.lookups[c] = IF p = None THEN 0 ELSE 1
            /\ \A q \in Ids : c \in net.processor[q].missing <=> q = p
    /\ \A g \in Groups :
        LET p == net.groupProcessor[g]
        IN  p # None => net.processor[p].group = g /\ net.processor[p].missing # {}

InQueue(m, p) == m \in Range(net.processor[p].queue)

Precedes(m, n) ==
    \E i, j \in DOMAIN posted : i < j /\ posted[i] = m /\ posted[j] = n

SameThread(m, n) ==
    /\ GroupOf[m] = GroupOf[n]
    /\ Sender[m] = Sender[n] \/ m \in Creations

HandedNow(n) == net'.handed[n] > net.handed[n]

(* The processor waits for nobody but the message's own sender and owner,  *)
(* or for the members of its own group.                                    *)
WaitsForItsOwn(m, p) ==
    LET g == GroupOf[m]
    IN  \/ net.processor[p].missing \subseteq
               {Sender[m]} \cup (IF g = NoGroup THEN {} ELSE {Owner[g]})
        \/ g # NoGroup /\ net.processor[p].group = g

(* A message that waits for its own sender, owner or group is not          *)
(* overtaken by a later one of the same conversation and sender, nor a     *)
(* creation by any later message of its group.  One that was put into      *)
(* somebody else's processor can be.                                       *)
NoOvertakingInOwnProcessor ==
    [][\A p \in Ids, m, n \in Messages :
           /\ InQueue(m, p) /\ InQueue(m, p)'
           /\ Precedes(m, n) /\ SameThread(m, n)
           /\ HandedNow(n)
           => ~WaitsForItsOwn(m, p)]_vars

Needed(m) ==
    {Sender[m]} \cup (IF GroupOf[m] = NoGroup THEN {} ELSE {Owner[GroupOf[m]]})
                \cup (IF m \in Creations THEN MembersIn[m] ELSE {})

(* The table of contacts has everybody whom a message handed to the        *)
(* message center is about, and keeps them.  For that a message that comes *)
(* back from a download never gives needToWaitForMissingIdentity a null    *)
(* pointer: the owner of a group that was known when it began is still    *)
(* not being looked up when it ends.                                       *)
HandedOverWithContacts ==
    /\ ~net.crashed
    /\ \A m \in HandedOver : \A c \in Needed(m) : nickname[c] # "absent"

Held(m) ==
    \/ \E p \in Referenced(net) \ {None} : InQueue(m, p)
    \/ \E i \in DOMAIN net.tasks : net.tasks[i][1] = m
    \/ m \in Range(net.backlog)

(* Every message that is held back comes free: handed over, or discarded   *)
(* with a failed lookup or download.  Handling it anew finds its sender    *)
(* unknown again until the key has come back through the database, but     *)
(* not for ever.                                                           *)
HeldMessagesComeFree == \A m \in Messages : Held(m) ~> ~Held(m)
=============================================================================
