------------------------------- MODULE Outbox -------------------------------
(***************************************************************************)
(* The life of an outgoing message, from the send call to the server's     *)
(* acknowledgment.  Five actors, each a thread or an outside party:        *)
(*   - the message center (SimpleMessageCenter), which stores a message    *)
(*     and posts it to the protocol client;                                *)
(*   - the database thread (SimpleDatabase), which owns the rows, runs the *)
(*     calls posted to it in order, and has a 30 s queue timer;            *)
(*   - the protocol client (ProtocolClient), which uploads, encrypts and   *)
(*     writes messages and keeps a table of awaited acknowledgments;       *)
(*   - the server, reached over a connection that may break;               *)
(*   - the user, who sends, deletes, reconnects and restarts.              *)
(* The calls between the threads are queued Qt calls: dbq, pcq, reports and *)
(* resends are the event queues.  Reports keep their order; resend events  *)
(* come by way of other threads and may be overtaken.  A packet is         *)
(* encrypted for the session in which it is enqueued, so one that outlives *)
(* the session is useless ("live" is FALSE) although it is still written   *)
(* to the next one.                                                        *)
(***************************************************************************)
EXTENDS Integers, Sequences, FiniteSets

CONSTANTS
    Msgs,          \* outgoing messages
    NoMsg,         \* no message
    Contacts,      \* identities other than our own
    Table,         \* Table[m]: the table that holds m's row
    Recipients,    \* Recipients[m]: whom m goes to, our own identity left out
    Uploads,       \* messages whose content is uploaded before they are sent
    Restored,      \* rows that a backup restore brought in unsent
    Unresendable,  \* rows of a type that the resend loop refuses
    MediaMissing   \* rows whose media file is not available

Tables == {"contact", "group", "control"}

ASSUME OutboxAssumption ==
    /\ IsFiniteSet(Msgs)
    /\ NoMsg \notin Msgs
    /\ IsFiniteSet(Contacts)
    /\ Table \in [Msgs -> Tables]
    /\ Recipients \in [Msgs -> SUBSET Contacts]
    /\ Uploads \subseteq Msgs
    /\ Restored \subseteq Msgs
    /\ \A m \in Restored : Table[m] # "control"
    /\ Unresendable \subseteq Msgs
    /\ MediaMissing \subseteq Restored

VARIABLES
    app,           \* "running" or "quit"
    created,       \* messages that were stored at some time
    present,       \* messages that have a row now
    queued,        \* rows with is_queued = 1
    sent,          \* rows with is_sent = 1
    fresh,         \* rows whose modified_at is NULL
    state,         \* state[m]: the row's messagestate
    pending,       \* the message the message center is storing, or NoMsg
    willQueue,     \* whether it will be posted once stored
    acceptor,      \* "none", "new" or "current": the message center's view
    resends,       \* resend events waiting for the message center
    reports,       \* results and receipts waiting for the message center
    dbq,           \* calls waiting for the database thread
    pcq,           \* messages posted to the protocol client
    uploads,       \* uploads[m]: upload tasks running for m
    waiting,       \* waiting[m]: acknowledgments m's table entry still awaits
    outgoing,      \* encrypted packets not yet written
    connected,     \* the session is established
    wire,          \* packets on their way to the server
    acks,          \* acknowledgments on their way back
    accepted       \* accepted[m]: recipients whose copy the server has taken

rowVars     == <<created, present, queued, sent, fresh, state>>
centerVars  == <<pending, willQueue, acceptor, resends, reports>>
clientVars  == <<pcq, uploads, waiting, outgoing>>
networkVars == <<connected, wire, acks, accepted>>
vars == <<app, rowVars, centerVars, dbq, clientVars, networkVars>>

Results    == {"SENT", "SENDFAILED"}
Receipts   == {"DELIVERED", "READ", "USERACK", "USERDEC"}
SentStates == {"SENT"} \cup Receipts
States     == SentStates \cup {"SENDING", "SENDFAILED"}

Report == [op: Results \cup Receipts, msg: Msgs]
Call   == [op: {"store"} \cup Results \cup Receipts, msg: Msgs, live: BOOLEAN]
              \cup [op: {"drain"}, msg: {NoMsg}, live: BOOLEAN]
Packet == [msg: Msgs, to: Contacts, live: BOOLEAN]

-----------------------------------------------------------------------------
(* The database thread.                                                    *)

(* Mutated form of CanSwitchTo: a failure may overwrite a success. *)
MutantCanSwitchTo(old, new) ==
    \/ old = new
    \/ old = "SENDFAILED" /\ new \in {"SENDING", "SENT"}
    \/ old = "SENDING"    /\ new \in {"SENT", "SENDFAILED"}
    \/ old = "SENT"       /\ new \in Receipts \cup {"SENDFAILED"}
    \/ old = "DELIVERED"  /\ new \in {"READ", "USERACK", "USERDEC"}

(* UserMessageStateHelper::canSwitchTo *)
CanSwitchTo(old, new) ==
    \/ old = new
    \/ old = "SENDFAILED" /\ new \in {"SENDING", "SENT"}
    \/ old = "SENDING"    /\ new \in {"SENT", "SENDFAILED"}
    \/ old = "SENT"       /\ new \in Receipts
    \/ old = "DELIVERED"  /\ new \in {"READ", "USERACK", "USERDEC"}
    \/ old = "READ"       /\ new \in {"USERACK", "USERDEC"}
    \/ old = "USERACK"    /\ new = "USERDEC"
    \/ old = "USERDEC"    /\ new = "USERACK"

SetMessageState(m, new) ==
    \/ /\ CanSwitchTo(state[m], new)
       /\ state' = [state EXCEPT ![m] = new]
       /\ fresh' = fresh \ {m}
       /\ queued' = IF new = "SENDFAILED" THEN queued \ {m} ELSE queued \cup {m}
       /\ sent' = IF new = "SENDFAILED" THEN sent ELSE sent \cup {m}
       /\ UNCHANGED <<created, present>>
    \/ /\ ~CanSwitchTo(state[m], new)
       /\ UNCHANGED rowVars

(* setIsQueued for every row of S; taking a row off the queue also clears  *)
(* its is_sent.                                                            *)
SetIsQueued(S, isQueued) ==
    /\ queued' = IF isQueued THEN queued \cup S ELSE queued \ S
    /\ sent'   = IF isQueued THEN sent ELSE sent \ S
    /\ fresh'  = fresh \ S
    /\ UNCHANGED <<created, present, state>>

(* Everything that does not survive the process. *)
LoseVolatileState ==
    /\ app' = "quit"
    /\ pending' = NoMsg
    /\ willQueue' = FALSE
    /\ acceptor' = "none"
    /\ resends' = 0
    /\ reports' = <<>>
    /\ dbq' = <<>>
    /\ pcq' = <<>>
    /\ uploads' = [m \in Msgs |-> 0]
    /\ waiting' = [m \in Msgs |-> 0]
    /\ outgoing' = <<>>
    /\ connected' = FALSE
    /\ wire' = <<>>
    /\ acks' = <<>>
    /\ UNCHANGED accepted

Running == app = "running"

HandleCall(op) ==
    /\ Running
    /\ dbq # <<>>
    /\ Head(dbq).op = op

(* insertContactMessageFromUs and its siblings. *)
StoreSent ==
    /\ HandleCall("store")
    /\ LET m == Head(dbq).msg IN
        /\ created' = created \cup {m}
        /\ present' = present \cup {m}
        /\ queued'  = IF Head(dbq).live THEN queued \cup {m} ELSE queued \ {m}
        /\ sent'    = sent \ {m}
        /\ fresh'   = fresh \cup {m}
        /\ state'   = [state EXCEPT ![m] = "SENDING"]
    /\ dbq' = Tail(dbq)
    /\ UNCHANGED <<app, centerVars, clientVars, networkVars>>

(* storeMessageSendDone and storeMessageSendFailed.  Opening a row that is *)
(* gone throws, nothing on this thread catches it, and the application's   *)
(* notify() answers any exception by quitting.                             *)
StoreResult(result) ==
    /\ HandleCall(result)
    /\ \/ /\ Head(dbq).msg \in present
          /\ SetMessageState(Head(dbq).msg, result)
          /\ dbq' = Tail(dbq)
          /\ UNCHANGED <<app, centerVars, clientVars, networkVars>>
       \/ /\ Head(dbq).msg \notin present
          /\ LoseVolatileState
          /\ UNCHANGED rowVars

(* storeReceivedContactMessageReceipt*: here the exception is caught. *)
StoreReceipt(receipt) ==
    /\ HandleCall(receipt)
    /\ \/ /\ Head(dbq).msg \in present
          /\ SetMessageState(Head(dbq).msg, receipt)
       \/ /\ Head(dbq).msg \notin present
          /\ UNCHANGED rowVars
    /\ dbq' = Tail(dbq)
    /\ UNCHANGED <<app, centerVars, clientVars, networkVars>>

Rows(t) == {m \in present : Table[m] = t}

Unsent == {m \in present : m \notin queued /\ m \notin sent}

Resendable == Unsent \ MediaMissing

(* The resend loop visits the contact table, then the group table, then    *)
(* the control table.                                                      *)
TableRank == [contact |-> 1, group |-> 2, control |-> 3]

VisitOrders(S) ==
    {seq \in [1..Cardinality(S) -> S] :
        /\ \A m \in S : \E i \in DOMAIN seq : seq[i] = m
        /\ \A i, j \in DOMAIN seq :
               i < j => TableRank[Table[seq[i]]] <= TableRank[Table[seq[j]]]}

(* sendAllWaitingMessages.  The acceptor that came with the call may belong*)
(* to a client that is gone: the rows are marked queued all the same.      *)
SendAllWaitingMessages ==
    /\ HandleCall("drain")
    /\ Unsent \cap Unresendable = {}
    /\ SetIsQueued(Resendable, TRUE)
    /\ \/ /\ Head(dbq).live
          /\ \E batch \in VisitOrders(Resendable) : pcq' = pcq \o batch
       \/ /\ ~Head(dbq).live
          /\ UNCHANGED pcq
    /\ dbq' = Tail(dbq)
    /\ UNCHANGED <<app, centerVars, uploads, waiting, outgoing, networkVars>>

(* The same loop meeting a row of a type it refuses: it throws there, and  *)
(* the rows before that one have been marked.                              *)
SendAllWaitingMessagesThrows ==
    /\ HandleCall("drain")
    /\ \E bad \in Unsent \cap Unresendable :
        \E before \in SUBSET (Resendable \ Unresendable) :
            /\ \A m \in before : TableRank[Table[m]] <= TableRank[Table[bad]]
            /\ \A m \in Unsent : TableRank[Table[m]] < TableRank[Table[bad]]
                   => m \in before \cup MediaMissing
            /\ SetIsQueued(before, TRUE)
    /\ LoseVolatileState

(* Mutated form of ResetCandidates: is_sent is not looked at. *)
MutantResetCandidates(t, old) ==
    {m \in Rows(t) : m \in queued /\ (m \in fresh \/ m \in old)}

(* resetQueueStatus selects the unsent queued rows of one table that were  *)
(* not modified for 30 s or that were never modified.                      *)
ResetCandidates(t, old) ==
    {m \in Rows(t) : /\ m \in queued /\ m \notin sent
                     /\ m \in fresh \/ m \in old}

(* Mutated form of OnQueueTimeoutTimerFire: haveQueuedMessages is not       *)
(* emitted.                                                                *)
MutantOnQueueTimeoutTimerFire(old) ==
    LET toReset == ResetCandidates("contact", old)
                       \cup ResetCandidates("group", old)
    IN  /\ Running
        /\ toReset # {}
        /\ SetIsQueued(toReset, FALSE)
        /\ UNCHANGED <<app, centerVars, dbq, clientVars, networkVars>>

(* onQueueTimeoutTimerFire: the chain of || stops at the first table in    *)
(* which a row was reset.                                                  *)
OnQueueTimeoutTimerFire(old) ==
    LET candidates(t) == ResetCandidates(t, old)
        toReset == IF candidates("contact") # {} THEN candidates("contact")
                   ELSE IF candidates("group") # {} THEN candidates("group")
                   ELSE candidates("control")
    IN  /\ Running
        /\ toReset # {}
        /\ SetIsQueued(toReset, FALSE)
        /\ resends' = resends + 1
        /\ UNCHANGED <<app, pending, willQueue, acceptor, reports, dbq,
                       clientVars, networkVars>>

(* A user deletes a message from a chat (never a control message). *)
DeleteMessage(m) ==
    /\ Running
    /\ m \in present
    /\ Table[m] # "control"
    /\ present' = present \ {m}
    /\ queued'  = queued \ {m}
    /\ sent'    = sent \ {m}
    /\ fresh'   = fresh \ {m}
    /\ UNCHANGED <<app, created, state, centerVars, dbq, clientVars,
                   networkVars>>

-----------------------------------------------------------------------------
(* The message center.                                                     *)

IsConnected == acceptor = "current" /\ connected

(* Mutated form of SendMessage: the row is stored as not queued although    *)
(* the message is posted.                                                  *)
MutantSendMessage(m) ==
    /\ Running
    /\ pending = NoMsg
    /\ m \notin created
    /\ pending' = m
    /\ willQueue' = IsConnected
    /\ dbq' = Append(dbq, [op |-> "store", msg |-> m, live |-> FALSE])
    /\ UNCHANGED <<app, rowVars, acceptor, resends, reports, clientVars,
                   networkVars>>

(* SimpleMessageCenter::send*: decides whether the message will be queued  *)
(* and blocks on the database until the row is stored.                     *)
SendMessage(m) ==
    /\ Running
    /\ pending = NoMsg
    /\ m \notin created
    /\ pending' = m
    /\ willQueue' = IsConnected
    /\ dbq' = Append(dbq, [op |-> "store", msg |-> m, live |-> IsConnected])
    /\ UNCHANGED <<app, rowVars, acceptor, resends, reports, clientVars,
                   networkVars>>

(* Mutated form of ProcessSentMessage: the store call does not block. *)
MutantProcessSentMessage ==
    /\ Running
    /\ pending # NoMsg
    /\ pending' = NoMsg
    /\ willQueue' = FALSE
    /\ pcq' = IF willQueue THEN Append(pcq, pending) ELSE pcq
    /\ UNCHANGED <<app, rowVars, acceptor, resends, reports, dbq, uploads,
                   waiting, outgoing, networkVars>>

(* ... and, with the message ID it got back, posts it to the client. *)
ProcessSentMessage ==
    /\ Running
    /\ pending # NoMsg
    /\ pending \in created
    /\ pending' = NoMsg
    /\ willQueue' = FALSE
    /\ pcq' = IF willQueue THEN Append(pcq, pending) ELSE pcq
    /\ UNCHANGED <<app, rowVars, acceptor, resends, reports, dbq, uploads,
                   waiting, outgoing, networkVars>>

DrainCall == [op |-> "drain", msg |-> NoMsg, live |-> TRUE]

TryResendingMessagesToNetwork ==
    /\ Running
    /\ pending = NoMsg
    /\ resends > 0
    /\ resends' = resends - 1
    /\ dbq' = IF IsConnected THEN Append(dbq, DrainCall) ELSE dbq
    /\ UNCHANGED <<app, rowVars, pending, willQueue, acceptor, reports,
                   clientVars, networkVars>>

SetNetworkSentMessageAcceptor ==
    /\ Running
    /\ pending = NoMsg
    /\ acceptor = "new"
    /\ acceptor' = "current"
    /\ dbq' = IF connected THEN Append(dbq, DrainCall) ELSE dbq
    /\ UNCHANGED <<app, rowVars, pending, willQueue, resends, reports,
                   clientVars, networkVars>>

(* processMessageSend* and processReceivedContactMessageReceipt*: the      *)
(* message center passes the report on to the database.                    *)
ProcessReport ==
    /\ Running
    /\ pending = NoMsg
    /\ reports # <<>>
    /\ reports' = Tail(reports)
    /\ dbq' = Append(dbq, [op |-> Head(reports).op, msg |-> Head(reports).msg,
                          live |-> TRUE])
    /\ UNCHANGED <<app, rowVars, pending, willQueue, acceptor, resends,
                   clientVars, networkVars>>

-----------------------------------------------------------------------------
(* The protocol client.                                                    *)

(* One packet per recipient, encrypted for the present session. *)
CopyOrders(m) ==
    {seq \in [1..Cardinality(Recipients[m]) ->
                  [msg: {m}, to: Recipients[m], live: {connected}]] :
        \A r \in Recipients[m] : \E i \in DOMAIN seq : seq[i].to = r}

(* Mutated form of HandleOutgoingMessage: the copies are not counted. *)
MutantHandleOutgoingMessage(m) ==
    /\ \E copies \in CopyOrders(m) : outgoing' = outgoing \o copies
    /\ waiting' = IF Recipients[m] = {} THEN waiting
                  ELSE [waiting EXCEPT ![m] = 1]

(* handleOutgoingMessage past its upload: enqueue the packets and register *)
(* a new acknowledgment processor under the message's ID.                  *)
HandleOutgoingMessage(m) ==
    /\ \E copies \in CopyOrders(m) : outgoing' = outgoing \o copies
    /\ waiting' = IF Recipients[m] = {} THEN waiting
                  ELSE [waiting EXCEPT ![m] = Cardinality(Recipients[m])]

(* A contact message to our own identity is dropped before anything else;  *)
(* a group message is only dropped recipient by recipient.                 *)
DroppedAtOnce(m) == Table[m] # "group" /\ Recipients[m] = {}

SendPostedMessage ==
    /\ Running
    /\ pcq # <<>>
    /\ LET m == Head(pcq) IN
        \/ /\ DroppedAtOnce(m)
           /\ UNCHANGED <<uploads, waiting, outgoing>>
        \/ /\ ~DroppedAtOnce(m)
           /\ m \in Uploads
           /\ uploads' = [uploads EXCEPT ![m] = @ + 1]
           /\ UNCHANGED <<waiting, outgoing>>
        \/ /\ ~DroppedAtOnce(m)
           /\ m \notin Uploads
           /\ HandleOutgoingMessage(m)
           /\ UNCHANGED uploads
    /\ pcq' = Tail(pcq)
    /\ UNCHANGED <<app, rowVars, centerVars, dbq, networkVars>>

PostReport(m, op) == reports' = Append(reports, [op |-> op, msg |-> m])

NonReportVars == <<pending, willQueue, acceptor, resends>>

CallbackTaskSucceeded(m) ==
    /\ Running
    /\ uploads[m] > 0
    /\ uploads' = [uploads EXCEPT ![m] = @ - 1]
    /\ HandleOutgoingMessage(m)
    /\ UNCHANGED <<app, rowVars, centerVars, dbq, pcq, networkVars>>

(* Mutated form of CallbackTaskFailed: success is reported. *)
MutantCallbackTaskFailed(m) ==
    /\ Running
    /\ uploads[m] > 0
    /\ uploads' = [uploads EXCEPT ![m] = @ - 1]
    /\ PostReport(m, "SENT")
    /\ UNCHANGED <<app, rowVars, NonReportVars, dbq, pcq, waiting, outgoing,
                   networkVars>>

(* A contact message is reported as failed.  A group message is not: its   *)
(* processor counts the copies in flight, there are none before the upload *)
(* is done, and a failure that meets the count 0 is ignored.               *)
CallbackTaskFailed(m) ==
    /\ Running
    /\ uploads[m] > 0
    /\ uploads' = [uploads EXCEPT ![m] = @ - 1]
    /\ IF Table[m] = "group" THEN UNCHANGED reports
       ELSE PostReport(m, "SENDFAILED")
    /\ UNCHANGED <<app, rowVars, NonReportVars, dbq, pcq, waiting, outgoing,
                   networkVars>>

OutgoingMessagesTimerOnTimer ==
    /\ Running
    /\ connected
    /\ outgoing # <<>>
    /\ wire' = wire \o outgoing
    /\ outgoing' = <<>>
    /\ UNCHANGED <<app, rowVars, centerVars, dbq, pcq, uploads, waiting,
                   connected, acks, accepted>>

(* An entry times out 15 s after the send call, connected or not. *)
AcknowledgmentTimeout(m) ==
    /\ Running
    /\ waiting[m] > 0
    /\ waiting' = [waiting EXCEPT ![m] = 0]
    /\ PostReport(m, "SENDFAILED")
    /\ UNCHANGED <<app, rowVars, NonReportVars, dbq, pcq, uploads, outgoing,
                   networkVars>>

(* Mutated form of HandleIncomingAcknowledgment: an answer is counted even  *)
(* if nobody waits for it.                                                 *)
MutantHandleIncomingAcknowledgment ==
    /\ Running
    /\ acks # <<>>
    /\ acks' = Tail(acks)
    /\ waiting' = [waiting EXCEPT ![Head(acks)] = @ - 1]
    /\ IF waiting[Head(acks)] = 1 THEN PostReport(Head(acks), "SENT")
       ELSE UNCHANGED reports
    /\ UNCHANGED <<app, rowVars, NonReportVars, dbq, pcq, uploads, outgoing,
                   connected, wire, accepted>>

(* handleIncomingAcknowledgment: one answer less to wait for; the last one *)
(* removes the entry.  An answer nobody waits for is only logged.          *)
HandleIncomingAcknowledgment ==
    /\ Running
    /\ acks # <<>>
    /\ acks' = Tail(acks)
    /\ LET m == Head(acks) IN
        /\ waiting' = IF waiting[m] > 0 THEN [waiting EXCEPT ![m] = @ - 1]
                      ELSE waiting
        /\ IF waiting[m] = 1 THEN PostReport(m, "SENT") ELSE UNCHANGED reports
    /\ UNCHANGED <<app, rowVars, NonReportVars, dbq, pcq, uploads, outgoing,
                   connected, wire, accepted>>

(* A delivery receipt for a message the peer got. *)
ReceiveReceipt(m, receipt) ==
    /\ Running
    /\ connected
    /\ Table[m] = "contact"
    /\ accepted[m] # {}
    /\ PostReport(m, receipt)
    /\ UNCHANGED <<app, rowVars, NonReportVars, dbq, clientVars, networkVars>>

-----------------------------------------------------------------------------
(* The connection, the server and the process.                             *)

(* The server takes packets in order and answers each one it can decrypt. *)
ServerTakesPacket ==
    /\ Running
    /\ wire # <<>>
    /\ wire' = Tail(wire)
    /\ LET p == Head(wire) IN
        IF p.live
        THEN /\ accepted' = [accepted EXCEPT ![p.msg] = @ \cup {p.to}]
             /\ acks' = Append(acks, p.msg)
        ELSE UNCHANGED <<accepted, acks>>
    /\ UNCHANGED <<app, rowVars, centerVars, dbq, clientVars, connected>>

(* Mutated form of ConnectToFinished: the acceptor does not pass the signal *)
(* on.                                                                     *)
MutantConnectToFinished ==
    /\ Running
    /\ acceptor # "none"
    /\ ~connected
    /\ connected' = TRUE
    /\ UNCHANGED <<app, rowVars, centerVars, dbq, clientVars, wire, acks,
                   accepted>>

(* The handshake of socketConnected ended well: connectToFinished(0). *)
ConnectToFinished ==
    /\ Running
    /\ acceptor # "none"
    /\ ~connected
    /\ connected' = TRUE
    /\ resends' = IF acceptor = "current" THEN resends + 1 ELSE resends
    /\ UNCHANGED <<app, rowVars, pending, willQueue, acceptor, reports, dbq,
                   clientVars, wire, acks, accepted>>

(* What was under way is gone; what is still in the client's list was      *)
(* encrypted for the session that just ended.                              *)
SocketDisconnected ==
    /\ Running
    /\ connected
    /\ connected' = FALSE
    /\ wire' = <<>>
    /\ acks' = <<>>
    /\ outgoing' = [i \in DOMAIN outgoing |->
                        [outgoing[i] EXCEPT !.live = FALSE]]
    /\ UNCHANGED <<app, rowVars, centerVars, dbq, pcq, uploads, waiting,
                   accepted>>

(* btnConnectOnClick / setupProtocolClient: the old client is torn down    *)
(* with all it holds and a new one is made.  A post or a resend loop that  *)
(* still holds the old acceptor finds no client behind it.                 *)
SetupProtocolClient ==
    /\ Running
    /\ ~connected
    /\ acceptor' = "new"
    /\ willQueue' = FALSE
    /\ dbq' = [i \in DOMAIN dbq |-> IF dbq[i].op = "drain"
                                    THEN [dbq[i] EXCEPT !.live = FALSE]
                                    ELSE dbq[i]]
    /\ pcq' = <<>>
    /\ uploads' = [m \in Msgs |-> 0]
    /\ waiting' = [m \in Msgs |-> 0]
    /\ outgoing' = <<>>
    /\ UNCHANGED <<app, rowVars, pending, resends, reports, networkVars>>

Crash ==
    /\ Running
    /\ LoseVolatileState
    /\ UNCHANGED rowVars

Restart ==
    /\ app = "quit"
    /\ app' = "running"
    /\ UNCHANGED <<rowVars, centerVars, dbq, clientVars, networkVars>>

-----------------------------------------------------------------------------

Init ==
    /\ app = "running"
    /\ created = Restored
    /\ present = Restored
    /\ queued \in SUBSET Restored
    /\ sent = {}
    /\ fresh = {}
    /\ state \in [Msgs -> {"SENDING", "SENDFAILED"}]
    /\ \A m \in Msgs \ Restored : state[m] = "SENDING"
    /\ pending = NoMsg
    /\ willQueue = FALSE
    /\ acceptor = "none"
    /\ resends = 0
    /\ reports = <<>>
    /\ dbq = <<>>
    /\ pcq = <<>>
    /\ uploads = [m \in Msgs |-> 0]
    /\ waiting = [m \in Msgs |-> 0]
    /\ outgoing = <<>>
    /\ connected = FALSE
    /\ wire = <<>>
    /\ acks = <<>>
    /\ accepted = [m \in Msgs |-> {}]

(* Steps that the threads take by themselves once there is work to do. *)
CenterStep ==
    ProcessSentMessage \/ TryResendingMessagesToNetwork
        \/ SetNetworkSentMessageAcceptor \/ ProcessReport

DatabaseStep ==
    \/ StoreSent
    \/ \E result \in Results : StoreResult(result)
    \/ \E receipt \in Receipts : StoreReceipt(receipt)
    \/ SendAllWaitingMessages
    \/ SendAllWaitingMessagesThrows

ClientStep ==
    SendPostedMessage \/ OutgoingMessagesTimerOnTimer
        \/ HandleIncomingAcknowledgment

UploadEnds(m) == CallbackTaskSucceeded(m) \/ CallbackTaskFailed(m)

(* Steps of the outside world. *)
UserStep ==
    \/ \E m \in Msgs : SendMessage(m) \/ DeleteMessage(m)
    \/ SetupProtocolClient
    \/ Restart

PeerStep == \E m \in Msgs, receipt \in Receipts : ReceiveReceipt(m, receipt)

Next ==
    \/ CenterStep
    \/ DatabaseStep
    \/ ClientStep
    \/ \E m \in Msgs : UploadEnds(m) \/ AcknowledgmentTimeout(m)
    \/ \E old \in SUBSET queued : OnQueueTimeoutTimerFire(old)
    \/ ServerTakesPacket
    \/ ConnectToFinished
    \/ SocketDisconnected
    \/ UserStep
    \/ PeerStep
    \/ Crash

Spec == Init /\ [][Next]_vars

-----------------------------------------------------------------------------
(* What should hold.                                                       *)

TypeOK ==
    /\ app \in {"running", "quit"}
    /\ created \in SUBSET Msgs /\ present \in SUBSET Msgs
    /\ queued \in SUBSET Msgs /\ sent \in SUBSET Msgs
    /\ fresh \in SUBSET Msgs
    /\ state \in [Msgs -> States]
    /\ pending \in Msgs \cup {NoMsg}
    /\ willQueue \in BOOLEAN
    /\ acceptor \in {"none", "new", "current"}
    /\ resends \in Nat
    /\ reports \in Seq(Report)
    /\ dbq \in Seq(Call)
    /\ pcq \in Seq(Msgs)
    /\ uploads \in [Msgs -> Nat]
    /\ waiting \in [Msgs -> Nat]
    /\ outgoing \in Seq(Packet)
    /\ connected \in BOOLEAN
    /\ wire \in Seq(Packet)
    /\ acks \in Seq(Msgs)
    /\ accepted \in [Msgs -> SUBSET Contacts]

(* A row carries its progress twice, in messagestate and in the flags      *)
(* is_queued and is_sent, and three writers change them: the resend loop   *)
(* and the queue timer (setIsQueued, which may clear is_sent) and the      *)
(* reports (setMessageState).  The two must tell the same story.           *)
RowConsistent ==
    /\ present \subseteq created
    /\ queued \subseteq present
    /\ fresh \subseteq present
    /\ sent \subseteq queued
    /\ \A m \in present : m \in sent <=> state[m] \in SentStates

(* A message is shown as sent only if the server took a copy for every     *)
(* recipient, whatever resends, reconnects and late answers came between:  *)
(* the acknowledgment table counts answers without telling them apart.     *)
SentOnlyIfAccepted == \A m \in sent : accepted[m] = Recipients[m]

(* Nothing is posted before the blocking store call came back: an upload   *)
(* task, a packet or a table entry never refers to a message that has not  *)
(* been stored.                                                            *)
StoredPackets == [msg: created, to: Contacts, live: BOOLEAN]

OnlyStoredMessagesTravel ==
    /\ pcq \in Seq(created)
    /\ outgoing \in Seq(StoredPackets)
    /\ wire \in Seq(StoredPackets)
    /\ \A m \in Msgs : uploads[m] > 0 \/ waiting[m] > 0 => m \in created

(* An answer, a report of success and a row that is shown as sent each     *)
(* refer to a message the server took; a report of failure refers at least *)
(* to a stored one.  A store call is the only one of its kind and carries  *)
(* the message the message center is waiting for.                          *)
Taken == {m \in Msgs : accepted[m] # {}}

Justified(op, m) == m \in created /\ (op # "SENDFAILED" => m \in Taken)

AnswersAreJustified ==
    /\ Taken \subseteq created
    /\ sent \subseteq Taken
    /\ acks \in Seq(Taken)
    /\ reports \in Seq({r \in Report : Justified(r.op, r.msg)})

JustifiedCalls ==
    {c \in Call : /\ c.op = "store" => c.msg = pending /\ c.msg \notin created
                  /\ c.op \in Results \cup Receipts => Justified(c.op, c.msg)}

CallsAreJustified ==
    /\ dbq \in Seq(JustifiedCalls)
    /\ \A i, j \in 1..Len(dbq) :
           dbq[i].op = "store" /\ dbq[j].op = "store" => i = j

ReportsAreJustified == AnswersAreJustified /\ CallsAreJustified

(* No report, resend or timer takes a row that is shown as sent back to an *)
(* earlier stage: a timeout report that arrives after the acknowledgment   *)
(* of another copy must not undo it.                                       *)
StageOf == [SENDING |-> 0, SENDFAILED |-> 0, SENT |-> 1, DELIVERED |-> 2,
            READ |-> 3, USERACK |-> 4, USERDEC |-> 4]

SentIsFinal ==
    [][\A m \in sent \cap present' : /\ m \in sent'
                                     /\ StageOf[state'[m]] >= StageOf[state[m]]]_vars

(* The outbox keeps the promise of the abstract specification: stored,     *)
(* queued and sent are what the comments on isQueued and isSent say.       *)
Status(m) ==
    CASE m \in created \ present -> "deleted"
      [] m \notin created -> "absent"
      [] m \in sent -> "sent"
      [] m \in queued \ sent -> "queued"
      [] OTHER -> "stored"

D == INSTANCE Delivery WITH
        status <- [m \in Msgs |-> Status(m)],
        taken  <- Taken

ImplementsDelivery == D!Spec

(* A message that waits while there is no connection is tried again once   *)
(* there is one: connectToFinished and setNetworkSentMessageAcceptor both  *)
(* lead to sendAllWaitingMessages.                                         *)
WaitingMessagesAreTried ==
    \A m \in Msgs : (m \in Unsent /\ ~connected) ~> m \notin Unsent

(* The copies of a message that the server can still take.                 *)
Copies(m, to) == {i \in DOMAIN outgoing : outgoing[i].msg = m
                     /\ outgoing[i].to = to /\ outgoing[i].live}
              \cup {-i : i \in {j \in DOMAIN wire : wire[j].msg = m
                     /\ wire[j].to = to /\ wire[j].live}}

(* No copy is under way twice, or again after the server took it:          *)
(* is_queued tells a row that is being sent from one that waits.  A timer  *)
(* or a failure may take the row off the queue, so this is stated under a  *)
(* condition (CopiesNeedACause in MCOutbox).                               *)
NoDuplicateCopies ==
    \A m \in Msgs : \A to \in Recipients[m] :
        /\ Cardinality(Copies(m, to)) <= 1
        /\ to \in accepted[m] => Copies(m, to) = {}
=============================================================================
