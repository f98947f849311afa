---------------------------- MODULE OutboxProofs ----------------------------
(***************************************************************************)
(* Proofs about Outbox for any number of messages, recipients, faults and  *)
(* reconnects.  TypeOK is inductive by itself.  RowConsistent needs only   *)
(* TypeOK: the database thread and the user are the only ones to touch     *)
(* rows, so what is left is setMessageState and setIsQueued.               *)
(* OnlyStoredMessagesTravel needs TypeOK, too.  At the end, Outbox         *)
(* implements Delivery.                                                    *)
(***************************************************************************)
EXTENDS MCOutbox, SequenceFacts, FiniteSetTheorems, TLAPS

(* A resend loop posts rows of the set it walks over. *)
LEMMA VisitOrdersAreSeqs ==
    ASSUME NEW S \in SUBSET Msgs, NEW batch \in VisitOrders(S)
    PROVE  batch \in Seq(S)
<1>1. Cardinality(S) \in Nat
  BY OutboxAssumption, FS_Subset, FS_CardinalityType
<1>2. batch \in [1..Cardinality(S) -> S]
  BY DEF VisitOrders
<1> QED
  BY <1>1, <1>2, SeqOfFunction

(* The copies of a message are packets that carry it to contacts. *)
LEMMA CopyOrdersAreSeqs ==
    ASSUME NEW m \in Msgs, connected \in BOOLEAN, NEW copies \in CopyOrders(m)
    PROVE  copies \in Seq([msg: {m}, to: Contacts, live: BOOLEAN])
<1>1. Recipients[m] \in SUBSET Contacts
  BY OutboxAssumption
<1>2. Cardinality(Recipients[m]) \in Nat
  BY <1>1, OutboxAssumption, FS_Subset, FS_CardinalityType
<1>3. copies \in [1..Cardinality(Recipients[m]) ->
                     [msg: {m}, to: Contacts, live: BOOLEAN]]
  BY <1>1 DEF CopyOrders
<1> QED
  BY <1>2, <1>3, SeqOfFunction

-----------------------------------------------------------------------------
(* Every step keeps the types.                                             *)

LEMMA LosingStateKeepsTypes ==
    ASSUME TypeOK, LoseVolatileState, created' \in SUBSET Msgs,
           present' \in SUBSET Msgs, queued' \in SUBSET Msgs,
           sent' \in SUBSET Msgs, fresh' \in SUBSET Msgs,
           state' \in [Msgs -> States]
    PROVE  TypeOK'
  BY EmptySeq DEF TypeOK, LoseVolatileState

LEMMA SetMessageStateKeepsTypes ==
    ASSUME TypeOK, NEW m \in Msgs, NEW new \in States, SetMessageState(m, new)
    PROVE  /\ created' \in SUBSET Msgs /\ present' \in SUBSET Msgs
           /\ queued' \in SUBSET Msgs /\ sent' \in SUBSET Msgs
           /\ fresh' \in SUBSET Msgs /\ state' \in [Msgs -> States]
  BY DEF TypeOK, SetMessageState, rowVars

LEMMA SetIsQueuedKeepsTypes ==
    ASSUME TypeOK, NEW S \in SUBSET Msgs, NEW isQueued \in BOOLEAN,
           SetIsQueued(S, isQueued)
    PROVE  /\ created' \in SUBSET Msgs /\ present' \in SUBSET Msgs
           /\ queued' \in SUBSET Msgs /\ sent' \in SUBSET Msgs
           /\ fresh' \in SUBSET Msgs /\ state' \in [Msgs -> States]
  BY DEF TypeOK, SetIsQueued

(* The message of a call that is not a resend loop is one of Msgs. *)
LEMMA HeadCall ==
    ASSUME TypeOK, NEW op \in {"store"} \cup Results \cup Receipts, HandleCall(op)
    PROVE  Head(dbq).msg \in Msgs /\ Tail(dbq) \in Seq(Call)
<1>1. dbq \in Seq(Call) /\ dbq # <<>> /\ Head(dbq).op = op
  BY DEF TypeOK, HandleCall
<1>2. Head(dbq) \in Call /\ Tail(dbq) \in Seq(Call)
  BY <1>1, SeqTail
<1>3. op # "drain"
  BY DEF Results, Receipts
<1> QED
  BY <1>1, <1>2, <1>3 DEF Call

LEMMA HandleOutgoingMessageKeepsTypes ==
    ASSUME TypeOK, NEW m \in Msgs, HandleOutgoingMessage(m)
    PROVE  outgoing' \in Seq(Packet) /\ waiting' \in [Msgs -> Nat]
<1>1. PICK copies \in CopyOrders(m) : outgoing' = outgoing \o copies
  BY DEF HandleOutgoingMessage
<1>2. copies \in Seq([msg: {m}, to: Contacts, live: BOOLEAN])
  BY CopyOrdersAreSeqs DEF TypeOK
<1>3. [msg: {m}, to: Contacts, live: BOOLEAN] \subseteq Packet
  BY DEF Packet
<1>4. copies \in Seq(Packet)
  BY <1>2, <1>3, SeqMonotonic
<1>5. outgoing' \in Seq(Packet)
  BY <1>1, <1>4, SeqConcat DEF TypeOK
<1>6. Cardinality(Recipients[m]) \in Nat
  BY OutboxAssumption, FS_Subset, FS_CardinalityType
<1> QED
  BY <1>5, <1>6 DEF TypeOK, HandleOutgoingMessage

LEMMA PostReportKeepsTypes ==
    ASSUME TypeOK, NEW m \in Msgs, NEW op \in Results \cup Receipts,
           PostReport(m, op)
    PROVE  reports' \in Seq(Report)
  BY SeqAppend DEF TypeOK, PostReport, Report

LEMMA InitHasTypes == Init => TypeOK
<1> SUFFICES ASSUME Init
             PROVE  TypeOK
  OBVIOUS
<1>1. Restored \subseteq Msgs
  BY OutboxAssumption
<1>2. /\ created \in SUBSET Msgs /\ present \in SUBSET Msgs
      /\ queued \in SUBSET Msgs /\ sent \in SUBSET Msgs
      /\ fresh \in SUBSET Msgs
  BY <1>1 DEF Init
<1>3. state \in [Msgs -> States]
  BY DEF Init, States
<1>4. /\ reports \in Seq(Report) /\ dbq \in Seq(Call) /\ pcq \in Seq(Msgs)
      /\ outgoing \in Seq(Packet) /\ wire \in Seq(Packet) /\ acks \in Seq(Msgs)
  BY EmptySeq DEF Init
<1>5. /\ uploads \in [Msgs -> Nat] /\ waiting \in [Msgs -> Nat]
      /\ accepted \in [Msgs -> SUBSET Contacts]
  BY DEF Init
<1> QED
  BY <1>2, <1>3, <1>4, <1>5 DEF Init, TypeOK

LEMMA CenterStepKeepsTypes == TypeOK /\ CenterStep => TypeOK'
<1> SUFFICES ASSUME TypeOK, CenterStep
             PROVE  TypeOK'
  OBVIOUS
<1> USE DEF TypeOK, rowVars, clientVars, networkVars
<1>1. CASE ProcessSentMessage
  <2>1. pending \in Msgs
    BY <1>1, OutboxAssumption DEF ProcessSentMessage
  <2>2. pcq' \in Seq(Msgs)
    BY <1>1, <2>1, SeqAppend DEF ProcessSentMessage
  <2> QED
    BY <1>1, <2>2 DEF ProcessSentMessage
<1>2. CASE TryResendingMessagesToNetwork
  <2>1. dbq' \in Seq(Call)
    BY <1>2, SeqAppend DEF TryResendingMessagesToNetwork, DrainCall, Call
  <2> QED
    BY <1>2, <2>1 DEF TryResendingMessagesToNetwork
<1>3. CASE SetNetworkSentMessageAcceptor
  <2>1. dbq' \in Seq(Call)
    BY <1>3, SeqAppend DEF SetNetworkSentMessageAcceptor, DrainCall, Call
  <2> QED
    BY <1>3, <2>1 DEF SetNetworkSentMessageAcceptor
<1>4. CASE ProcessReport
  <2>1. Head(reports) \in Report /\ reports' \in Seq(Report)
    BY <1>4, SeqTail DEF ProcessReport
  <2>2. dbq' \in Seq(Call)
    BY <1>4, <2>1, SeqAppend DEF ProcessReport, Report, Call
  <2> QED
    BY <1>4, <2>1, <2>2 DEF ProcessReport
<1> QED
  BY <1>1, <1>2, <1>3, <1>4 DEF CenterStep

LEMMA DatabaseStepKeepsTypes == TypeOK /\ DatabaseStep => TypeOK'
<1> SUFFICES ASSUME TypeOK, DatabaseStep
             PROVE  TypeOK'
  OBVIOUS
<1> USE DEF rowVars, centerVars, clientVars, networkVars
<1>1. CASE StoreSent
  <2>1. Head(dbq).msg \in Msgs /\ Tail(dbq) \in Seq(Call)
    BY <1>1, HeadCall DEF StoreSent
  <2> QED
    BY <1>1, <2>1 DEF TypeOK, StoreSent, States
<1>2. ASSUME NEW result \in Results, StoreResult(result)
      PROVE  TypeOK'
  <2>1. Head(dbq).msg \in Msgs /\ Tail(dbq) \in Seq(Call)
    BY <1>2, HeadCall DEF StoreResult
  <2>2. CASE Head(dbq).msg \in present
    <3>1. result \in States
      BY DEF Results, States, SentStates
    <3>2. SetMessageState(Head(dbq).msg, result)
      BY <1>2, <2>2 DEF StoreResult
    <3> QED
      BY <1>2, <2>1, <2>2, <3>1, <3>2, SetMessageStateKeepsTypes
         DEF TypeOK, StoreResult
  <2>3. CASE Head(dbq).msg \notin present
    BY <1>2, <2>3, LosingStateKeepsTypes DEF TypeOK, StoreResult
  <2> QED
    BY <2>2, <2>3
<1>3. ASSUME NEW receipt \in Receipts, StoreReceipt(receipt)
      PROVE  TypeOK'
  <2>1. Head(dbq).msg \in Msgs /\ Tail(dbq) \in Seq(Call)
    BY <1>3, HeadCall DEF StoreReceipt
  <2>2. receipt \in States
    BY DEF States, SentStates
  <2>3. CASE SetMessageState(Head(dbq).msg, receipt)
    BY <1>3, <2>1, <2>2, <2>3, SetMessageStateKeepsTypes
       DEF TypeOK, StoreReceipt
  <2>4. CASE UNCHANGED rowVars
    BY <1>3, <2>1, <2>4 DEF TypeOK, StoreReceipt
  <2> QED
    BY <1>3, <2>3, <2>4 DEF StoreReceipt
<1>4. CASE SendAllWaitingMessages
  <2>1. Resendable \in SUBSET Msgs
    BY DEF TypeOK, Resendable, Unsent
  <2>2. pcq' \in Seq(Msgs)
    <3>1. CASE UNCHANGED pcq
      BY <3>1 DEF TypeOK
    <3>2. ASSUME NEW batch \in VisitOrders(Resendable), pcq' = pcq \o batch
          PROVE  pcq' \in Seq(Msgs)
      <4>1. batch \in Seq(Msgs)
        BY <2>1, VisitOrdersAreSeqs, SeqMonotonic
      <4> QED
        BY <3>2, <4>1, SeqConcat DEF TypeOK
    <3> QED
      BY <1>4, <3>1, <3>2 DEF SendAllWaitingMessages
  <2>3. Tail(dbq) \in Seq(Call)
    BY <1>4, SeqTail DEF TypeOK, SendAllWaitingMessages, HandleCall
  <2>4. SetIsQueued(Resendable, TRUE)
    BY <1>4 DEF SendAllWaitingMessages
  <2> QED
    BY <1>4, <2>1, <2>2, <2>3, <2>4, SetIsQueuedKeepsTypes
       DEF TypeOK, SendAllWaitingMessages
<1>5. CASE SendAllWaitingMessagesThrows
  <2>1. PICK before \in SUBSET Resendable : SetIsQueued(before, TRUE)
    BY <1>5 DEF SendAllWaitingMessagesThrows
  <2>2. before \in SUBSET Msgs
    BY DEF TypeOK, Resendable, Unsent
  <2> QED
    BY <1>5, <2>1, <2>2, SetIsQueuedKeepsTypes, LosingStateKeepsTypes
       DEF SendAllWaitingMessagesThrows
<1> QED
  BY <1>1, <1>2, <1>3, <1>4, <1>5 DEF DatabaseStep

LEMMA ClientStepKeepsTypes == TypeOK /\ ClientStep => TypeOK'
<1> SUFFICES ASSUME TypeOK, ClientStep
             PROVE  TypeOK'
  OBVIOUS
<1> USE DEF rowVars, centerVars, NonReportVars, networkVars
<1>1. CASE SendPostedMessage
  <2>1. Head(pcq) \in Msgs /\ pcq' \in Seq(Msgs)
    BY <1>1, SeqTail DEF TypeOK, SendPostedMessage
  <2>2. /\ outgoing' \in Seq(Packet)
        /\ waiting' \in [Msgs -> Nat]
        /\ uploads' \in [Msgs -> Nat]
    <3>1. CASE UNCHANGED <<uploads, waiting, outgoing>>
      BY <3>1 DEF TypeOK
    <3>2. CASE /\ uploads' = [uploads EXCEPT ![Head(pcq)] = @ + 1]
               /\ UNCHANGED <<waiting, outgoing>>
      <4>1. uploads[Head(pcq)] + 1 \in Nat
        BY <2>1 DEF TypeOK
      <4> QED
        BY <3>2, <4>1 DEF TypeOK
    <3>3. CASE HandleOutgoingMessage(Head(pcq)) /\ UNCHANGED uploads
      BY <2>1, <3>3, HandleOutgoingMessageKeepsTypes DEF TypeOK
    <3> QED
      BY <1>1, <3>1, <3>2, <3>3 DEF SendPostedMessage
  <2>3. UNCHANGED <<app, rowVars, centerVars, dbq, networkVars>>
    BY <1>1 DEF SendPostedMessage
  <2> QED
    BY <2>1, <2>2, <2>3 DEF TypeOK
<1>2. CASE OutgoingMessagesTimerOnTimer
  <2>1. wire' \in Seq(Packet) /\ outgoing' \in Seq(Packet)
    BY <1>2, SeqConcat, EmptySeq DEF TypeOK, OutgoingMessagesTimerOnTimer
  <2> QED
    BY <1>2, <2>1 DEF TypeOK, OutgoingMessagesTimerOnTimer
<1>3. CASE HandleIncomingAcknowledgment
  <2>1. Head(acks) \in Msgs /\ acks' \in Seq(Msgs)
    BY <1>3, SeqTail DEF TypeOK, HandleIncomingAcknowledgment
  <2>2. reports' \in Seq(Report)
    BY <1>3, <2>1, PostReportKeepsTypes
       DEF TypeOK, HandleIncomingAcknowledgment, Results
  <2>3. waiting' \in [Msgs -> Nat]
    <3>1. CASE UNCHANGED waiting
      BY <3>1 DEF TypeOK
    <3>2. CASE /\ waiting[Head(acks)] > 0
               /\ waiting' = [waiting EXCEPT ![Head(acks)] = @ - 1]
      <4>1. waiting[Head(acks)] - 1 \in Nat
        BY <2>1, <3>2 DEF TypeOK
      <4> QED
        BY <3>2, <4>1 DEF TypeOK
    <3> QED
      BY <1>3, <3>1, <3>2 DEF HandleIncomingAcknowledgment
  <2>4. UNCHANGED <<app, rowVars, NonReportVars, dbq, pcq, uploads, outgoing,
                    connected, wire, accepted>>
    BY <1>3 DEF HandleIncomingAcknowledgment
  <2> QED
    BY <2>1, <2>2, <2>3, <2>4 DEF TypeOK
<1> QED
  BY <1>1, <1>2, <1>3 DEF ClientStep

LEMMA MessageEndKeepsTypes ==
    ASSUME TypeOK, NEW m \in Msgs, UploadEnds(m) \/ AcknowledgmentTimeout(m)
    PROVE  TypeOK'
<1> USE DEF rowVars, centerVars, NonReportVars, networkVars
<1>1. CASE CallbackTaskSucceeded(m)
  <2>1. outgoing' \in Seq(Packet) /\ waiting' \in [Msgs -> Nat]
    BY <1>1, HandleOutgoingMessageKeepsTypes DEF CallbackTaskSucceeded
  <2>2. /\ uploads' \in [Msgs -> Nat]
        /\ UNCHANGED <<app, rowVars, centerVars, dbq, pcq, networkVars>>
    BY <1>1 DEF TypeOK, CallbackTaskSucceeded
  <2> QED
    BY <2>1, <2>2 DEF TypeOK
<1>2. CASE CallbackTaskFailed(m)
  <2>1. reports' \in Seq(Report)
    BY <1>2, PostReportKeepsTypes DEF TypeOK, CallbackTaskFailed, Results
  <2> QED
    BY <1>2, <2>1 DEF TypeOK, CallbackTaskFailed
<1>3. CASE AcknowledgmentTimeout(m)
  <2>1. reports' \in Seq(Report)
    BY <1>3, PostReportKeepsTypes DEF AcknowledgmentTimeout, Results
  <2> QED
    BY <1>3, <2>1 DEF TypeOK, AcknowledgmentTimeout
<1> QED
  BY <1>1, <1>2, <1>3 DEF UploadEnds

LEMMA NetworkStepKeepsTypes ==
    ASSUME TypeOK, ServerTakesPacket \/ ConnectToFinished \/ SocketDisconnected
    PROVE  TypeOK'
<1> USE DEF rowVars, centerVars, clientVars
<1>1. CASE ServerTakesPacket
  <2>1. Head(wire) \in Packet /\ wire' \in Seq(Packet)
    BY <1>1, SeqTail DEF TypeOK, ServerTakesPacket
  <2>2. Head(wire).msg \in Msgs /\ Head(wire).to \in Contacts
    BY <2>1 DEF Packet
  <2>3. CASE UNCHANGED <<accepted, acks>>
    BY <1>1, <2>1, <2>3 DEF TypeOK, ServerTakesPacket
  <2>4. CASE /\ accepted' = [accepted EXCEPT ![Head(wire).msg] =
                                @ \cup {Head(wire).to}]
             /\ acks' = Append(acks, Head(wire).msg)
    <3>1. acks' \in Seq(Msgs)
      BY <2>2, <2>4, SeqAppend DEF TypeOK
    <3>2. accepted' \in [Msgs -> SUBSET Contacts]
      BY <2>2, <2>4 DEF TypeOK
    <3>3. UNCHANGED <<app, rowVars, centerVars, dbq, clientVars, connected>>
      BY <1>1 DEF ServerTakesPacket
    <3> QED
      BY <2>1, <3>1, <3>2, <3>3 DEF TypeOK
  <2> QED
    BY <1>1, <2>3, <2>4 DEF ServerTakesPacket
<1>2. CASE ConnectToFinished
  BY <1>2 DEF TypeOK, ConnectToFinished
<1>3. CASE SocketDisconnected
  <2>1. /\ Len(outgoing) \in Nat /\ DOMAIN outgoing = 1..Len(outgoing)
        /\ outgoing \in [1..Len(outgoing) -> Packet]
    BY LenProperties DEF TypeOK
  <2>2. outgoing' \in [1..Len(outgoing) -> Packet]
    BY <1>3, <2>1 DEF SocketDisconnected, Packet
  <2>3. outgoing' \in Seq(Packet)
    BY <2>1, <2>2, SeqOfFunction
  <2> QED
    BY <1>3, <2>3, EmptySeq DEF TypeOK, SocketDisconnected
<1> QED
  BY <1>1, <1>2, <1>3

LEMMA OutsideStepKeepsTypes ==
    ASSUME TypeOK, UserStep \/ PeerStep \/ Crash
    PROVE  TypeOK'
<1> USE DEF rowVars, centerVars, NonReportVars, clientVars, networkVars
<1>1. ASSUME NEW m \in Msgs, SendMessage(m)
      PROVE  TypeOK'
  <2>1. IsConnected \in BOOLEAN
    BY DEF IsConnected, TypeOK
  <2>2. dbq' \in Seq(Call)
    BY <1>1, <2>1, SeqAppend DEF TypeOK, SendMessage, Call
  <2> QED
    BY <1>1, <2>1, <2>2 DEF TypeOK, SendMessage
<1>2. ASSUME NEW m \in Msgs, DeleteMessage(m)
      PROVE  TypeOK'
  BY <1>2 DEF TypeOK, DeleteMessage
<1>3. CASE SetupProtocolClient
  <2>1. /\ Len(dbq) \in Nat /\ DOMAIN dbq = 1..Len(dbq)
        /\ dbq \in [1..Len(dbq) -> Call]
    BY LenProperties DEF TypeOK
  <2>2. dbq' \in [1..Len(dbq) -> Call]
    BY <1>3, <2>1 DEF SetupProtocolClient, Call
  <2>3. dbq' \in Seq(Call)
    BY <2>1, <2>2, SeqOfFunction
  <2>4. pcq' \in Seq(Msgs) /\ outgoing' \in Seq(Packet)
    BY <1>3, EmptySeq DEF SetupProtocolClient
  <2> QED
    BY <1>3, <2>3, <2>4 DEF TypeOK, SetupProtocolClient
<1>4. CASE Restart
  BY <1>4 DEF TypeOK, Restart
<1>5. ASSUME NEW m \in Msgs, NEW receipt \in Receipts, ReceiveReceipt(m, receipt)
      PROVE  TypeOK'
  <2>1. reports' \in Seq(Report)
    BY <1>5, PostReportKeepsTypes DEF ReceiveReceipt
  <2> QED
    BY <1>5, <2>1 DEF TypeOK, ReceiveReceipt
<1>6. CASE Crash
  BY <1>6, LosingStateKeepsTypes DEF TypeOK, Crash
<1> QED
  BY <1>1, <1>2, <1>3, <1>4, <1>5, <1>6 DEF UserStep, PeerStep

LEMMA QueueTimerKeepsTypes ==
    ASSUME TypeOK, NEW old, OnQueueTimeoutTimerFire(old)
    PROVE  TypeOK'
<1> DEFINE candidates(t) == ResetCandidates(t, old)
           toReset == IF candidates("contact") # {} THEN candidates("contact")
                      ELSE IF candidates("group") # {} THEN candidates("group")
                      ELSE candidates("control")
<1>1. toReset \in SUBSET Msgs
  BY DEF TypeOK, ResetCandidates, Rows
<1>2. SetIsQueued(toReset, FALSE)
  BY DEF OnQueueTimeoutTimerFire
<1> HIDE DEF toReset
<1>3. /\ created' \in SUBSET Msgs /\ present' \in SUBSET Msgs
      /\ queued' \in SUBSET Msgs /\ sent' \in SUBSET Msgs
      /\ fresh' \in SUBSET Msgs /\ state' \in [Msgs -> States]
  BY <1>1, <1>2, SetIsQueuedKeepsTypes
<1>4. /\ resends' = resends + 1
      /\ UNCHANGED <<app, pending, willQueue, acceptor, reports, dbq>>
      /\ UNCHANGED <<pcq, uploads, waiting, outgoing>>
      /\ UNCHANGED <<connected, wire, acks, accepted>>
  BY DEF OnQueueTimeoutTimerFire, clientVars, networkVars
<1> QED
  BY <1>3, <1>4 DEF TypeOK

LEMMA StepKeepsTypes == TypeOK /\ [Next]_vars => TypeOK'
<1> SUFFICES ASSUME TypeOK, [Next]_vars
             PROVE  TypeOK'
  OBVIOUS
<1>1. CASE UNCHANGED vars
  BY <1>1 DEF TypeOK, vars, rowVars, centerVars, clientVars, networkVars
<1>2. CASE Next
  BY <1>2, CenterStepKeepsTypes, DatabaseStepKeepsTypes, ClientStepKeepsTypes,
     MessageEndKeepsTypes, NetworkStepKeepsTypes, OutsideStepKeepsTypes,
     QueueTimerKeepsTypes DEF Next
<1> QED
  BY <1>1, <1>2

(* Type correctness: every thread leaves rows, event queues and tables     *)
(* well formed, in particular no count of awaited answers ever goes below  *)
(* zero.                                                                   *)
THEOREM TypeCorrect == Spec => []TypeOK
  BY InitHasTypes, StepKeepsTypes, PTL DEF Spec

-----------------------------------------------------------------------------
(* Steps of the threads and of the outside that no row notices. *)
LEMMA RowsAreTheDatabases ==
    ASSUME [Next]_vars,
           ~DatabaseStep,
           \A m \in Msgs : ~DeleteMessage(m),
           \A old \in SUBSET queued : ~OnQueueTimeoutTimerFire(old)
    PROVE  UNCHANGED rowVars
<1>1. CASE UNCHANGED vars
  BY <1>1 DEF vars
<1>2. CASE CenterStep
  BY <1>2 DEF CenterStep, ProcessSentMessage, TryResendingMessagesToNetwork,
     SetNetworkSentMessageAcceptor, ProcessReport
<1>3. CASE ClientStep
  BY <1>3 DEF ClientStep, SendPostedMessage, OutgoingMessagesTimerOnTimer,
     HandleIncomingAcknowledgment
<1>4. CASE \E m \in Msgs : UploadEnds(m) \/ AcknowledgmentTimeout(m)
  BY <1>4 DEF UploadEnds, CallbackTaskSucceeded, CallbackTaskFailed,
     AcknowledgmentTimeout
<1>5. CASE ServerTakesPacket \/ ConnectToFinished \/ SocketDisconnected \/ Crash
  BY <1>5 DEF ServerTakesPacket, ConnectToFinished, SocketDisconnected, Crash
<1>6. CASE UserStep
  BY <1>6 DEF UserStep, SendMessage, SetupProtocolClient, Restart
<1>7. CASE PeerStep
  BY <1>7 DEF PeerStep, ReceiveReceipt
<1> QED
  BY <1>1, <1>2, <1>3, <1>4, <1>5, <1>6, <1>7 DEF Next

-----------------------------------------------------------------------------
(* The two writers.                                                        *)

LEMMA SetMessageStateKeepsRows ==
    ASSUME TypeOK, RowConsistent, NEW m \in present,
           NEW new \in Results \cup Receipts, SetMessageState(m, new)
    PROVE  RowConsistent'
<1>1. CASE UNCHANGED rowVars
  BY <1>1 DEF RowConsistent, rowVars
<1>2. CASE /\ CanSwitchTo(state[m], new)
           /\ state' = [state EXCEPT ![m] = new]
           /\ fresh' = fresh \ {m}
           /\ queued' = IF new = "SENDFAILED" THEN queued \ {m}
                        ELSE queued \cup {m}
           /\ sent' = IF new = "SENDFAILED" THEN sent ELSE sent \cup {m}
           /\ UNCHANGED <<created, present>>
  <2>1. m \in Msgs /\ state'[m] = new
    BY <1>2 DEF TypeOK
  <2>2. \A n \in present \ {m} : state'[n] = state[n]
    BY <1>2 DEF TypeOK
  <2>3. CASE new = "SENDFAILED"
    <3>1. state[m] \notin SentStates
      BY <1>2, <2>3 DEF CanSwitchTo, SentStates, Receipts
    <3>2. m \notin sent /\ new \notin SentStates
      BY <2>3, <3>1 DEF RowConsistent, SentStates, Receipts
    <3> QED
      BY <1>2, <2>1, <2>2, <2>3, <3>2 DEF RowConsistent
  <2>4. CASE new # "SENDFAILED"
    <3>1. new \in SentStates
      BY <2>4 DEF SentStates, Results
    <3> QED
      BY <1>2, <2>1, <2>2, <2>4, <3>1 DEF RowConsistent
  <2> QED
    BY <2>3, <2>4
<1> QED
  BY <1>1, <1>2 DEF SetMessageState

LEMMA SetIsQueuedKeepsRows ==
    ASSUME RowConsistent, NEW S \in SUBSET present, S \cap sent = {},
           NEW isQueued \in BOOLEAN, SetIsQueued(S, isQueued)
    PROVE  RowConsistent'
  BY DEF RowConsistent, SetIsQueued

(* What the queue timer takes off the queue. *)
LEMMA QueueTimerResetsUnsentRows ==
    ASSUME NEW old, OnQueueTimeoutTimerFire(old)
    PROVE  \E S \in SUBSET {m \in present : m \in queued /\ m \notin sent} :
              SetIsQueued(S, FALSE)
<1> DEFINE candidates(t) == ResetCandidates(t, old)
           toReset == IF candidates("contact") # {} THEN candidates("contact")
                      ELSE IF candidates("group") # {} THEN candidates("group")
                      ELSE candidates("control")
<1>1. toReset \subseteq {m \in present : m \in queued /\ m \notin sent}
  BY DEF ResetCandidates, Rows
<1>2. SetIsQueued(toReset, FALSE)
  BY DEF OnQueueTimeoutTimerFire
<1> QED
  BY <1>1, <1>2

(* What the resend loop puts on the queue, whether it throws or not. *)
LEMMA ResendLoopQueuesUnsentRows ==
    ASSUME SendAllWaitingMessages \/ SendAllWaitingMessagesThrows
    PROVE  \E S \in SUBSET Unsent : SetIsQueued(S, TRUE)
  BY DEF SendAllWaitingMessages, SendAllWaitingMessagesThrows, Resendable

LEMMA ReportKeepsOrSetsState ==
    ASSUME NEW op \in Results \cup Receipts, StoreResult(op) \/ StoreReceipt(op)
    PROVE  \/ UNCHANGED rowVars
           \/ /\ Head(dbq).msg \in present
              /\ SetMessageState(Head(dbq).msg, op)
  BY DEF StoreResult, StoreReceipt

-----------------------------------------------------------------------------

(* A new row starts out unsent in both records. *)
LEMMA StoreSentKeepsRows ==
    ASSUME TypeOK, RowConsistent, StoreSent
    PROVE  RowConsistent'
<1>1. Head(dbq).msg \in Msgs
  BY HeadCall DEF StoreSent
<1> DEFINE m == Head(dbq).msg
<1>2. state'[m] = "SENDING" /\ \A n \in Msgs \ {m} : state'[n] = state[n]
  BY <1>1 DEF TypeOK, StoreSent
<1>3. m \notin sent' /\ state'[m] \notin SentStates
  BY <1>2 DEF StoreSent, SentStates, Receipts
<1>4. /\ created' = created \cup {m} /\ present' = present \cup {m}
      /\ sent' = sent \ {m} /\ fresh' = fresh \cup {m}
      /\ queued \ {m} \subseteq queued' /\ queued' \subseteq queued \cup {m}
  BY DEF StoreSent
<1>5. \A n \in present' \ {m} : n \in sent' <=> state'[n] \in SentStates
  BY <1>2, <1>4 DEF TypeOK, RowConsistent
<1> QED
  BY <1>3, <1>4, <1>5 DEF RowConsistent

LEMMA DeleteMessageKeepsRows ==
    ASSUME RowConsistent, NEW m \in Msgs, DeleteMessage(m)
    PROVE  RowConsistent'
  BY DEF RowConsistent, DeleteMessage

LEMMA StepKeepsRows == TypeOK /\ RowConsistent /\ [Next]_vars => RowConsistent'
<1> SUFFICES ASSUME TypeOK, RowConsistent, [Next]_vars
             PROVE  RowConsistent'
  OBVIOUS
<1>1. CASE StoreSent
  BY <1>1, StoreSentKeepsRows
<1>2. ASSUME NEW op \in Results \cup Receipts, StoreResult(op) \/ StoreReceipt(op)
      PROVE  RowConsistent'
  <2>1. CASE UNCHANGED rowVars
    BY <2>1 DEF RowConsistent, rowVars
  <2>2. CASE /\ Head(dbq).msg \in present
             /\ SetMessageState(Head(dbq).msg, op)
    BY <2>2, SetMessageStateKeepsRows
  <2> QED
    BY <1>2, <2>1, <2>2, ReportKeepsOrSetsState
<1>3. CASE SendAllWaitingMessages \/ SendAllWaitingMessagesThrows
  <2>1. PICK S \in SUBSET Unsent : SetIsQueued(S, TRUE)
    BY <1>3, ResendLoopQueuesUnsentRows
  <2>2. S \in SUBSET present /\ S \cap sent = {}
    BY DEF Unsent
  <2> QED
    BY <2>1, <2>2, SetIsQueuedKeepsRows
<1>4. ASSUME NEW old, OnQueueTimeoutTimerFire(old)
      PROVE  RowConsistent'
  <2>1. PICK S \in SUBSET {m \in present : m \in queued /\ m \notin sent} :
            SetIsQueued(S, FALSE)
    BY <1>4, QueueTimerResetsUnsentRows
  <2> QED
    BY <2>1, SetIsQueuedKeepsRows
<1>5. ASSUME NEW m \in Msgs, DeleteMessage(m)
      PROVE  RowConsistent'
  BY <1>5, DeleteMessageKeepsRows
<1>6. CASE UNCHANGED rowVars
  BY <1>6 DEF RowConsistent, rowVars
<1> QED
  BY <1>1, <1>2, <1>3, <1>4, <1>5, <1>6, RowsAreTheDatabases DEF DatabaseStep

LEMMA InitHasConsistentRows == Init => RowConsistent
  BY OutboxAssumption DEF Init, RowConsistent, SentStates, Receipts

(* messagestate and the flags is_queued and is_sent of a row never         *)
(* contradict each other: the resend loop, the queue timer and reports of  *)
(* any age leave both or neither at "sent".                                *)
THEOREM RowsAreConsistent == Spec => []RowConsistent
<1>1. TypeOK /\ RowConsistent /\ [Next]_vars => RowConsistent'
  BY StepKeepsRows
<1> QED
  BY <1>1, InitHasConsistentRows, TypeCorrect, PTL DEF Spec

-----------------------------------------------------------------------------
(* Nothing unstored travels.                                               *)

(* A message is stored once and for all, even if its row is deleted. *)
LEMMA CreatedGrows ==
    ASSUME [Next]_vars
    PROVE  created \subseteq created'
<1>1. CASE StoreSent
  BY <1>1 DEF StoreSent
<1>2. ASSUME NEW op \in Results \cup Receipts, StoreResult(op) \/ StoreReceipt(op)
      PROVE  created' = created
  BY <1>2, ReportKeepsOrSetsState DEF SetMessageState, rowVars
<1>3. CASE SendAllWaitingMessages \/ SendAllWaitingMessagesThrows
  BY <1>3, ResendLoopQueuesUnsentRows DEF SetIsQueued
<1>4. ASSUME NEW old, OnQueueTimeoutTimerFire(old)
      PROVE  created' = created
  BY <1>4, QueueTimerResetsUnsentRows DEF SetIsQueued
<1>5. ASSUME NEW m \in Msgs, DeleteMessage(m)
      PROVE  created' = created
  BY <1>5 DEF DeleteMessage
<1>6. CASE UNCHANGED rowVars
  BY <1>6 DEF rowVars
<1> QED
  BY <1>1, <1>2, <1>3, <1>4, <1>5, <1>6, RowsAreTheDatabases DEF DatabaseStep

LEMMA StoredPacketsGrow ==
    ASSUME created \subseteq created'
    PROVE  StoredPackets \subseteq StoredPackets'
  BY DEF StoredPackets

(* A step that touches neither posts, packets nor tables. *)
LEMMA NothingNewTravels ==
    ASSUME OnlyStoredMessagesTravel, created \subseteq created',
           UNCHANGED <<pcq, uploads, waiting, outgoing, wire>>
    PROVE  OnlyStoredMessagesTravel'
<1>1. pcq' \in Seq(created')
  BY SeqMonotonic DEF OnlyStoredMessagesTravel
<1>2. outgoing' \in Seq(StoredPackets') /\ wire' \in Seq(StoredPackets')
  BY StoredPacketsGrow, SeqMonotonic DEF OnlyStoredMessagesTravel
<1> QED
  BY <1>1, <1>2 DEF OnlyStoredMessagesTravel

LEMMA LosingStateStopsTravel ==
    ASSUME LoseVolatileState
    PROVE  OnlyStoredMessagesTravel'
<1>1. /\ pcq' \in Seq(created')
      /\ outgoing' \in Seq(StoredPackets') /\ wire' \in Seq(StoredPackets')
  BY EmptySeq DEF LoseVolatileState
<1>2. \A m \in Msgs : uploads'[m] = 0 /\ waiting'[m] = 0
  BY DEF LoseVolatileState
<1> QED
  BY <1>1, <1>2 DEF OnlyStoredMessagesTravel

LEMMA CenterPostsStoredMessages ==
    ASSUME OnlyStoredMessagesTravel, CenterStep
    PROVE  OnlyStoredMessagesTravel'
<1>1. CASE ProcessSentMessage
  <2>1. pcq' \in Seq(created)
    BY <1>1, SeqAppend DEF ProcessSentMessage, OnlyStoredMessagesTravel
  <2> QED
    BY <1>1, <2>1 DEF ProcessSentMessage, OnlyStoredMessagesTravel,
       StoredPackets, rowVars, networkVars
<1>2. CASE \/ TryResendingMessagesToNetwork
           \/ SetNetworkSentMessageAcceptor
           \/ ProcessReport
  <2>1. UNCHANGED <<created, pcq, uploads, waiting, outgoing, wire>>
    BY <1>2 DEF TryResendingMessagesToNetwork, SetNetworkSentMessageAcceptor,
       ProcessReport, rowVars, clientVars, networkVars
  <2> QED
    BY <2>1, NothingNewTravels
<1> QED
  BY <1>1, <1>2 DEF CenterStep

LEMMA DatabasePostsStoredMessages ==
    ASSUME TypeOK, RowConsistent, OnlyStoredMessagesTravel,
           DatabaseStep, created \subseteq created'
    PROVE  OnlyStoredMessagesTravel'
<1>1. CASE UNCHANGED clientVars /\ UNCHANGED networkVars
  BY <1>1, NothingNewTravels DEF clientVars, networkVars
<1>2. CASE LoseVolatileState
  BY <1>2, LosingStateStopsTravel
<1>3. CASE SendAllWaitingMessages
  <2>1. Resendable \in SUBSET Msgs /\ Resendable \subseteq created
    BY DEF TypeOK, RowConsistent, Resendable, Unsent
  <2>2. created' = created
    BY <1>3 DEF SendAllWaitingMessages, SetIsQueued
  <2>3. pcq' \in Seq(created)
    <3>1. CASE UNCHANGED pcq
      BY <3>1 DEF OnlyStoredMessagesTravel
    <3>2. ASSUME NEW batch \in VisitOrders(Resendable), pcq' = pcq \o batch
          PROVE  pcq' \in Seq(created)
      <4>1. batch \in Seq(created)
        BY <2>1, VisitOrdersAreSeqs, SeqMonotonic
      <4> QED
        BY <3>2, <4>1, SeqConcat DEF OnlyStoredMessagesTravel
    <3> QED
      BY <1>3, <3>1, <3>2 DEF SendAllWaitingMessages
  <2>4. UNCHANGED <<uploads, waiting, outgoing, wire>>
    BY <1>3 DEF SendAllWaitingMessages, networkVars
  <2> QED
    BY <2>2, <2>3, <2>4 DEF OnlyStoredMessagesTravel, StoredPackets
<1> QED
  BY <1>1, <1>2, <1>3 DEF DatabaseStep, StoreSent, StoreResult, StoreReceipt,
     SendAllWaitingMessagesThrows

LEMMA HandledMessagesAreStored ==
    ASSUME TypeOK, OnlyStoredMessagesTravel, NEW m \in Msgs, m \in created,
           HandleOutgoingMessage(m)
    PROVE  /\ outgoing' \in Seq(StoredPackets)
           /\ \A n \in Msgs : waiting'[n] > 0 => waiting[n] > 0 \/ n = m
<1>1. PICK copies \in CopyOrders(m) : outgoing' = outgoing \o copies
  BY DEF HandleOutgoingMessage
<1>2. copies \in Seq([msg: {m}, to: Contacts, live: BOOLEAN])
  BY CopyOrdersAreSeqs DEF TypeOK
<1>3. [msg: {m}, to: Contacts, live: BOOLEAN] \subseteq StoredPackets
  BY DEF StoredPackets
<1>4. copies \in Seq(StoredPackets)
  BY <1>2, <1>3, SeqMonotonic
<1>5. outgoing' \in Seq(StoredPackets)
  BY <1>1, <1>4, SeqConcat DEF OnlyStoredMessagesTravel
<1>6. \A n \in Msgs : waiting'[n] > 0 => waiting[n] > 0 \/ n = m
  BY DEF TypeOK, HandleOutgoingMessage
<1> QED
  BY <1>5, <1>6

LEMMA ClientCarriesStoredMessages ==
    ASSUME TypeOK, OnlyStoredMessagesTravel,
           \/ ClientStep
           \/ \E m \in Msgs : UploadEnds(m) \/ AcknowledgmentTimeout(m)
    PROVE  OnlyStoredMessagesTravel'
<1> USE DEF rowVars, networkVars
<1>1. CASE SendPostedMessage
  <2> DEFINE m == Head(pcq)
  <2>1. /\ m \in created /\ pcq' \in Seq(created)
        /\ UNCHANGED <<created, wire>>
    BY <1>1, SeqTail DEF SendPostedMessage, OnlyStoredMessagesTravel
  <2>2. m \in Msgs
    BY <2>1 DEF TypeOK
  <2> HIDE DEF m
  <2>3. /\ outgoing' \in Seq(StoredPackets)
        /\ \A n \in Msgs : uploads'[n] > 0 \/ waiting'[n] > 0
               => uploads[n] > 0 \/ waiting[n] > 0 \/ n = m
    <3>1. CASE UNCHANGED <<uploads, waiting, outgoing>>
      BY <3>1 DEF OnlyStoredMessagesTravel
    <3>2. CASE /\ uploads' = [uploads EXCEPT ![m] = @ + 1]
               /\ UNCHANGED <<waiting, outgoing>>
      BY <3>2 DEF TypeOK, OnlyStoredMessagesTravel
    <3>3. CASE HandleOutgoingMessage(m) /\ UNCHANGED uploads
      BY <2>1, <2>2, <3>3, HandledMessagesAreStored
    <3> QED
      BY <1>1, <3>1, <3>2, <3>3 DEF SendPostedMessage, m
  <2> QED
    BY <2>1, <2>3 DEF OnlyStoredMessagesTravel, StoredPackets
<1>2. CASE OutgoingMessagesTimerOnTimer
  <2>1. /\ wire' \in Seq(StoredPackets) /\ outgoing' \in Seq(StoredPackets)
        /\ UNCHANGED <<created, pcq, uploads, waiting>>
    BY <1>2, SeqConcat, EmptySeq
       DEF OutgoingMessagesTimerOnTimer, OnlyStoredMessagesTravel
  <2> QED
    BY <2>1 DEF OnlyStoredMessagesTravel, StoredPackets
<1>3. CASE HandleIncomingAcknowledgment
  <2>1. UNCHANGED <<created, pcq, uploads, outgoing, wire>>
    BY <1>3 DEF HandleIncomingAcknowledgment
  <2>2. Head(acks) \in Msgs
    BY <1>3, SeqTail DEF TypeOK, HandleIncomingAcknowledgment
  <2>3. \A m \in Msgs : waiting'[m] > 0 => waiting[m] > 0
    BY <1>3, <2>2 DEF TypeOK, HandleIncomingAcknowledgment
  <2> QED
    BY <2>1, <2>3 DEF OnlyStoredMessagesTravel, StoredPackets
<1>4. ASSUME NEW m \in Msgs, CallbackTaskSucceeded(m)
      PROVE  OnlyStoredMessagesTravel'
  <2>1. m \in created /\ UNCHANGED <<created, pcq, wire>>
    BY <1>4 DEF CallbackTaskSucceeded, OnlyStoredMessagesTravel
  <2>2. \A n \in Msgs : uploads'[n] > 0 => uploads[n] > 0
    BY <1>4 DEF TypeOK, CallbackTaskSucceeded
  <2>3. /\ outgoing' \in Seq(StoredPackets)
        /\ \A n \in Msgs : waiting'[n] > 0 => waiting[n] > 0 \/ n = m
    BY <1>4, <2>1, HandledMessagesAreStored DEF CallbackTaskSucceeded
  <2> QED
    BY <2>1, <2>2, <2>3 DEF OnlyStoredMessagesTravel, StoredPackets
<1>5. ASSUME NEW m \in Msgs, CallbackTaskFailed(m) \/ AcknowledgmentTimeout(m)
      PROVE  OnlyStoredMessagesTravel'
  <2>1. UNCHANGED <<created, pcq, outgoing, wire>>
    BY <1>5 DEF CallbackTaskFailed, AcknowledgmentTimeout
  <2>2. \A n \in Msgs : /\ uploads'[n] > 0 => uploads[n] > 0
                        /\ waiting'[n] > 0 => waiting[n] > 0
    BY <1>5 DEF TypeOK, CallbackTaskFailed, AcknowledgmentTimeout
  <2> QED
    BY <2>1, <2>2 DEF OnlyStoredMessagesTravel, StoredPackets
<1> QED
  BY <1>1, <1>2, <1>3, <1>4, <1>5 DEF ClientStep, UploadEnds

LEMMA NetworkCarriesStoredMessages ==
    ASSUME TypeOK, OnlyStoredMessagesTravel,
           ServerTakesPacket \/ ConnectToFinished \/ SocketDisconnected
    PROVE  OnlyStoredMessagesTravel'
<1> USE DEF rowVars, clientVars
<1>1. CASE ServerTakesPacket
  <2>1. /\ wire' \in Seq(StoredPackets)
        /\ UNCHANGED <<created, pcq, uploads, waiting, outgoing>>
    BY <1>1, SeqTail DEF ServerTakesPacket, OnlyStoredMessagesTravel
  <2> QED
    BY <2>1 DEF OnlyStoredMessagesTravel, StoredPackets
<1>2. CASE ConnectToFinished
  BY <1>2, NothingNewTravels DEF ConnectToFinished
<1>3. CASE SocketDisconnected
  <2>1. /\ Len(outgoing) \in Nat /\ DOMAIN outgoing = 1..Len(outgoing)
        /\ outgoing \in [1..Len(outgoing) -> StoredPackets]
    BY LenProperties DEF OnlyStoredMessagesTravel
  <2>2. outgoing' \in [1..Len(outgoing) -> StoredPackets]
    BY <1>3, <2>1 DEF SocketDisconnected, StoredPackets
  <2>3. outgoing' \in Seq(StoredPackets) /\ wire' \in Seq(StoredPackets)
    BY <1>3, <2>1, <2>2, SeqOfFunction, EmptySeq DEF SocketDisconnected
  <2>4. UNCHANGED <<created, pcq, uploads, waiting>>
    BY <1>3 DEF SocketDisconnected
  <2> QED
    BY <2>3, <2>4 DEF OnlyStoredMessagesTravel, StoredPackets
<1> QED
  BY <1>1, <1>2, <1>3

LEMMA OutsideStepsSendNothing ==
    ASSUME OnlyStoredMessagesTravel, created \subseteq created',
           \/ UserStep \/ PeerStep \/ Crash
           \/ \E old \in SUBSET queued : OnQueueTimeoutTimerFire(old)
    PROVE  OnlyStoredMessagesTravel'
<1>1. CASE UNCHANGED <<clientVars, wire>>
  BY <1>1, NothingNewTravels DEF clientVars
<1>2. CASE Crash
  BY <1>2, LosingStateStopsTravel DEF Crash
<1>3. CASE SetupProtocolClient
  <2>1. pcq' \in Seq(created) /\ outgoing' \in Seq(StoredPackets)
    BY <1>3, EmptySeq DEF SetupProtocolClient
  <2>2. \A m \in Msgs : uploads'[m] = 0 /\ waiting'[m] = 0
    BY <1>3 DEF SetupProtocolClient
  <2>3. UNCHANGED <<created, wire>>
    BY <1>3 DEF SetupProtocolClient, rowVars, networkVars
  <2> QED
    BY <2>1, <2>2, <2>3 DEF OnlyStoredMessagesTravel, StoredPackets
<1> QED
  BY <1>1, <1>2, <1>3 DEF UserStep, PeerStep, SendMessage, DeleteMessage,
     Restart, ReceiveReceipt, OnQueueTimeoutTimerFire, networkVars

LEMMA StepKeepsTravel ==
    TypeOK /\ RowConsistent /\ OnlyStoredMessagesTravel /\ [Next]_vars
        => OnlyStoredMessagesTravel'
<1> SUFFICES ASSUME TypeOK, RowConsistent, OnlyStoredMessagesTravel, [Next]_vars
             PROVE  OnlyStoredMessagesTravel'
  OBVIOUS
<1>1. created \subseteq created'
  BY CreatedGrows
<1>2. CASE UNCHANGED vars
  BY <1>1, <1>2, NothingNewTravels DEF vars, clientVars, networkVars
<1>3. CASE Next
  BY <1>1, <1>3, CenterPostsStoredMessages, DatabasePostsStoredMessages,
     ClientCarriesStoredMessages, NetworkCarriesStoredMessages,
     OutsideStepsSendNothing DEF Next
<1> QED
  BY <1>2, <1>3

LEMMA InitSendsNothing == Init => OnlyStoredMessagesTravel
<1> SUFFICES ASSUME Init
             PROVE  OnlyStoredMessagesTravel
  OBVIOUS
<1>1. /\ pcq \in Seq(created)
      /\ outgoing \in Seq(StoredPackets) /\ wire \in Seq(StoredPackets)
  BY EmptySeq DEF Init
<1>2. \A m \in Msgs : uploads[m] = 0 /\ waiting[m] = 0
  BY DEF Init
<1> QED
  BY <1>1, <1>2 DEF OnlyStoredMessagesTravel

(* Nothing is uploaded, encrypted, written or waited for on behalf of a    *)
(* message whose row has not been stored, whatever the threads do          *)
(* meanwhile.                                                              *)
THEOREM NothingUnstoredTravels == Spec => []OnlyStoredMessagesTravel
  BY InitSendsNothing, StepKeepsTravel, RowsAreConsistent, TypeCorrect, PTL
     DEF Spec

-----------------------------------------------------------------------------
(***************************************************************************)
(* A row marked as sent was accepted by the server, for every value of the *)
(* constants.  An entry of the acceptor's table counts answers and does    *)
(* not know whose they are, so the proof counts along the pipeline from    *)
(* our queue through the server to the answers: an entry never comes to    *)
(* its end before the server has taken every recipient's copy.             *)
(***************************************************************************)

(* The packets between us and the server, the next one to be taken first.  *)
UnderWay == wire \o outgoing

CopiesOf(m) == {p \in Packet : p.msg = m /\ p.live}
DeadPackets == {p \in Packet : ~p.live}
AddressedPackets == {p \in Packet : p.to \in Recipients[p.msg]}

(* The answers to copies of m that are still to be counted, and the copies *)
(* of m among the first c packets.                                         *)
Answers(m) == Cardinality(Places(acks, {m}, Len(acks)))
Ahead(m, c) == Places(UnderWay, CopiesOf(m), c)

(* Once the first c packets are taken, every recipient's copy is, and the  *)
(* table entry of m does not come to its end before.                       *)
Suffices(m, c) ==
    /\ Recipients[m] \subseteq accepted[m] \cup {UnderWay[i].to : i \in Ahead(m, c)}
    /\ Answers(m) + Cardinality(Ahead(m, c)) <= Cardinality(Recipients[m])
    /\ waiting[m] = 0 \/ Answers(m) + Cardinality(Ahead(m, c)) <= waiting[m]

(* Either all copies are taken, or nothing will be counted before m is     *)
(* sent again, or the entry lasts until the last of them is taken.         *)
Counted(m) ==
    \/ Recipients[m] \subseteq accepted[m]
    \/ Answers(m) = 0 /\ Ahead(m, Len(UnderWay)) = {}
    \/ \E c \in 0..Len(UnderWay) : Suffices(m, c)

PacketsAreAddressed ==
    /\ wire \in Seq(AddressedPackets)
    /\ outgoing \in Seq(AddressedPackets)
    /\ \A m \in Msgs : accepted[m] \subseteq Recipients[m]

NoSessionNoCopies ==
    ~connected => wire = <<>> /\ acks = <<>> /\ outgoing \in Seq(DeadPackets)

AnswersAreCounted == \A m \in Msgs : Counted(m)

CountInv == PacketsAreAddressed /\ NoSessionNoCopies /\ AnswersAreCounted

LEMMA UnderWayIsSeq ==
    ASSUME TypeOK
    PROVE  /\ UnderWay \in Seq(Packet) /\ acks \in Seq(Msgs)
           /\ Len(UnderWay) \in Nat /\ Len(acks) \in Nat
<1>1. UnderWay \in Seq(Packet) /\ acks \in Seq(Msgs)
  BY SeqConcat DEF TypeOK, UnderWay
<1> QED
  BY <1>1, LenProperties

LEMMA RecipientsAreFinite ==
    ASSUME NEW m \in Msgs
    PROVE  /\ Recipients[m] \in SUBSET Contacts /\ IsFiniteSet(Recipients[m])
           /\ Cardinality(Recipients[m]) \in Nat
           /\ Cardinality(Recipients[m]) = 0 => Recipients[m] = {}
<1>1. Recipients[m] \in SUBSET Contacts
  BY OutboxAssumption
<1>2. IsFiniteSet(Recipients[m])
  BY <1>1, OutboxAssumption, FS_Subset
<1> QED
  BY <1>1, <1>2, FS_CardinalityType, FS_EmptySet

LEMMA CountsAreNumbers ==
    ASSUME TypeOK, NEW m, NEW c \in 0..Len(UnderWay)
    PROVE  /\ Answers(m) \in Nat
           /\ IsFiniteSet(Ahead(m, c)) /\ Cardinality(Ahead(m, c)) \in Nat
           /\ Cardinality(Ahead(m, c)) = 0 => Ahead(m, c) = {}
<1>1. c \in Nat /\ Len(acks) \in Nat
  BY UnderWayIsSeq
<1> QED
  BY <1>1, PlacesAreFinite DEF Answers, Ahead

(* Nothing is counted any more once the session has ended. *)
LEMMA NothingLeftToCount ==
    ASSUME NEW m, acks' = <<>>, UnderWay' \in Seq(DeadPackets)
    PROVE  Counted(m)'
<1>1. Len(acks') = 0 /\ 1..Len(acks') = {}
  BY EmptySeq
<1>2. Answers(m)' = 0
  BY <1>1, FS_EmptySet DEF Answers, Places
<1>3. \A i \in 1..Len(UnderWay') : UnderWay'[i] \in DeadPackets
  BY ElementOfSeq
<1>4. Ahead(m, Len(UnderWay))' = {}
  BY <1>3 DEF Ahead, Places, CopiesOf, DeadPackets
<1> QED
  BY <1>2, <1>4 DEF Counted

(* An entry that stays or is removed. *)
LEMMA SameCount ==
    ASSUME NEW m, Counted(m), UNCHANGED <<acks, accepted, UnderWay>>,
           waiting'[m] = waiting[m] \/ waiting'[m] = 0
    PROVE  Counted(m)'
<1>1. /\ Answers(m)' = Answers(m)
      /\ \A c : Ahead(m, c)' = Ahead(m, c)
  BY DEF Answers, Ahead
<1>2. \A c : Suffices(m, c) => Suffices(m, c)'
  BY <1>1 DEF Suffices
<1> QED
  BY <1>1, <1>2 DEF Counted

(* A new round of copies starts a new count behind what is under way. *)
LEMMA NewCopiesAreCounted ==
    ASSUME TypeOK, CountInv, NEW m \in Msgs, HandleOutgoingMessage(m),
           UNCHANGED <<acks, wire, accepted, connected>>, NEW n \in Msgs
    PROVE  Counted(n)'
<1> DEFINE R == Recipients[m]
<1>0. PICK len \in Nat : len = Len(UnderWay)
  BY UnderWayIsSeq
<1>1. PICK copies \in CopyOrders(m) : outgoing' = outgoing \o copies
  BY DEF HandleOutgoingMessage
<1>2. /\ Cardinality(R) \in Nat /\ R \in SUBSET Contacts
      /\ copies \in [1..Cardinality(R) -> [msg: {m}, to: R, live: {connected}]]
      /\ \A r \in R : \E i \in DOMAIN copies : copies[i].to = r
  BY <1>1, RecipientsAreFinite DEF CopyOrders
<1>3. /\ copies \in Seq([msg: {m}, to: R, live: {connected}])
      /\ copies \in Seq(Packet) /\ Len(copies) = Cardinality(R)
      /\ DOMAIN copies = 1..Cardinality(R)
  <2>1. /\ copies \in Seq([msg: {m}, to: R, live: {connected}])
        /\ Len(copies) = Cardinality(R)
    BY <1>2, LenOfFunction
  <2>2. [msg: {m}, to: R, live: {connected}] \subseteq Packet
    BY <1>2 DEF Packet, TypeOK
  <2> QED
    BY <1>2, <2>1, <2>2, SeqMonotonic
<1>4. UnderWay' = UnderWay \o copies
  <2>1. wire \in Seq(Packet) /\ outgoing \in Seq(Packet)
    BY DEF TypeOK
  <2>2. (wire \o outgoing) \o copies = wire \o (outgoing \o copies)
    <3>1. copies \in Seq(Packet)
      BY <1>3
    <3> QED
      BY <2>1, <3>1, ConcatAssociative
  <2>3. UnderWay' = wire \o (outgoing \o copies)
    BY <1>1 DEF UnderWay
  <2> QED
    BY <2>2, <2>3 DEF UnderWay
<1>5. /\ UnderWay \in Seq(Packet) /\ len \in Nat
      /\ Len(UnderWay') = len + Cardinality(R)
      /\ \A i \in 1..len : UnderWay'[i] = UnderWay[i]
      /\ \A i \in 1..Cardinality(R) : UnderWay'[len + i] = copies[i]
  <2>1. UnderWay \in Seq(Packet) /\ copies \in Seq(Packet)
    BY <1>3, UnderWayIsSeq
  <2>2. /\ Len(UnderWay \o copies) = Len(UnderWay) + Len(copies)
        /\ \A i \in 1 .. Len(UnderWay) + Len(copies) : (UnderWay \o copies)[i] =
               IF i <= Len(UnderWay) THEN UnderWay[i] ELSE copies[i - Len(UnderWay)]
    BY <2>1, ConcatProperties
  <2> QED
    BY <1>0, <1>2, <1>3, <1>4, <2>1, <2>2
<1>6. \A c \in 0..len : /\ Ahead(n, c)' = Ahead(n, c)
                        /\ \A i \in Ahead(n, c) : UnderWay'[i] = UnderWay[i]
  <2> SUFFICES ASSUME NEW c \in 0..len
               PROVE  /\ Ahead(n, c)' = Ahead(n, c)
                      /\ \A i \in Ahead(n, c) : UnderWay'[i] = UnderWay[i]
    OBVIOUS
  <2>1. /\ Places(UnderWay \o copies, CopiesOf(n), c) = Places(UnderWay, CopiesOf(n), c)
        /\ \A i \in Places(UnderWay, CopiesOf(n), c) : (UnderWay \o copies)[i] = UnderWay[i]
    <3>1. copies \in Seq(Packet) /\ UnderWay \in Seq(Packet) /\ c \in 0..Len(UnderWay)
      BY <1>0, <1>3, <1>5
    <3> QED
      BY <3>1, PlacesOfConcat
  <2> QED
    BY <1>4, <2>1 DEF Ahead
<1>7. Answers(n)' = Answers(n)
  BY DEF Answers
<1>8. waiting' = IF R = {} THEN waiting ELSE [waiting EXCEPT ![m] = Cardinality(R)]
  BY DEF HandleOutgoingMessage
<1>9. CASE ~connected
  <2>1. [msg: {m}, to: R, live: {connected}] \subseteq DeadPackets
    BY <1>2, <1>9 DEF Packet, DeadPackets, TypeOK
  <2>2. copies \in Seq(DeadPackets) /\ outgoing \in Seq(DeadPackets) /\ wire = <<>>
    BY <1>3, <1>9, <2>1, SeqMonotonic DEF CountInv, NoSessionNoCopies
  <2>3. UnderWay' \in Seq(DeadPackets)
    BY <1>4, <2>2, SeqConcat, ConcatEmptySeq DEF UnderWay
  <2>4. acks' = <<>>
    BY <1>9 DEF CountInv, NoSessionNoCopies
  <2> QED
    BY <2>3, <2>4, NothingLeftToCount
<1>10. CASE connected /\ ~(Recipients[n] \subseteq accepted[n])
  <2>1. ASSUME NEW c \in 0..len, Suffices(n, c)
        PROVE  Suffices(n, c)'
    <3>1. waiting'[n] = waiting[n] \/ waiting'[n] = Cardinality(Recipients[n])
      BY <1>8 DEF TypeOK
    <3>2. {UnderWay'[i].to : i \in Ahead(n, c)} = {UnderWay[i].to : i \in Ahead(n, c)}
      BY <1>6
    <3>3. Ahead(n, c)' = Ahead(n, c)
      BY <1>6
    <3> QED
      BY <1>7, <2>1, <3>1, <3>2, <3>3 DEF Suffices
  <2>2. CASE \E c \in 0..len : Suffices(n, c)
    BY <1>0, <1>2, <1>5, <2>1, <2>2 DEF Counted
  <2>3. CASE Answers(n) = 0 /\ Ahead(n, len) = {} /\ n # m
    <3>1. \A i \in 1..Len(UnderWay') : UnderWay'[i] \notin CopiesOf(n)
      <4> SUFFICES ASSUME NEW i \in 1..Len(UnderWay')
                   PROVE  UnderWay'[i] \notin CopiesOf(n)
        OBVIOUS
      <4>1. CASE i <= len
        BY <1>0, <1>5, <2>3, <4>1 DEF Ahead, Places
      <4>2. CASE i > len
        <5>1. i - len \in 1..Cardinality(R) /\ i = len + (i - len)
          BY <1>0, <1>2, <1>5, <4>2
        <5>2. UnderWay'[i] = copies[i - len]
          BY <1>5, <5>1
        <5>3. copies[i - len].msg = m
          BY <1>2, <5>1
        <5> QED
          BY <2>3, <5>2, <5>3 DEF CopiesOf
      <4> QED
        BY <1>5, <4>1, <4>2
    <3>2. Ahead(n, Len(UnderWay))' = {}
      BY <3>1 DEF Ahead, Places, CopiesOf
    <3> QED
      BY <1>7, <2>3, <3>2 DEF Counted
  <2>4. CASE Answers(n) = 0 /\ Ahead(n, len) = {} /\ n = m
    <3>0. PICK top \in Nat : top = len + Cardinality(R)
      BY <1>2
    <3>1. R # {} /\ waiting'[m] = Cardinality(R)
      BY <1>8, <1>10, <2>4 DEF TypeOK
    <3>2. Ahead(m, top)' = (len + 1)..top
      <4>1. \A i \in 1..len : UnderWay'[i] \notin CopiesOf(m)
        BY <1>5, <2>4 DEF Ahead, Places
      <4>2. \A i \in (len + 1)..top : UnderWay'[i] \in CopiesOf(m)
        <5> SUFFICES ASSUME NEW i \in (len + 1)..top
                     PROVE  UnderWay'[i] \in CopiesOf(m)
          OBVIOUS
        <5>1. i - len \in 1..Cardinality(R) /\ i = len + (i - len)
          BY <3>0, <1>0, <1>2, <1>5
        <5>2. UnderWay'[i] = copies[i - len] /\ copies[i - len] \in Packet
          BY <1>3, <1>5, <5>1, ElementOfSeq
        <5>3. copies[i - len].msg = m /\ copies[i - len].live
          BY <1>2, <1>10, <5>1
        <5> QED
          BY <5>2, <5>3 DEF CopiesOf
      <4>3. 1..top = (1..len) \cup ((len + 1)..top)
        BY <3>0, <1>0, <1>2, <1>5
      <4> QED
        BY <4>1, <4>2, <4>3 DEF Ahead, Places, CopiesOf
    <3>3. Cardinality(Ahead(m, top)') = Cardinality(R)
      <4>1. Cardinality((len + 1)..top) = Cardinality(R)
        BY <3>0, <1>2, FS_Interval
      <4> QED
        BY <3>2, <4>1
    <3>4. R \subseteq {UnderWay'[i].to : i \in (len + 1)..top}
      <4> SUFFICES ASSUME NEW r \in R
                   PROVE  \E i \in (len + 1)..top : UnderWay'[i].to = r
        OBVIOUS
      <4>1. PICK j \in 1..Cardinality(R) : copies[j].to = r
        BY <1>2, <1>3
      <4>2. UnderWay'[len + j] = copies[j]
        BY <1>5
      <4>3. len + j \in (len + 1)..top
        <5> HIDE DEF R
        <5>1. len \in Nat /\ Cardinality(R) \in Nat
          BY <1>0, <1>2
        <5> QED
          BY <3>0, <5>1
      <4> QED
        BY <4>1, <4>2, <4>3
    <3>5. Suffices(m, top)'
      <4>1. Answers(m)' = 0 /\ Cardinality(R) \in Nat
        BY <1>2, <1>7, <2>4
      <4>2. Recipients[m] \subseteq accepted'[m] \cup {UnderWay'[i].to : i \in Ahead(m, top)'}
        BY <3>2, <3>4
      <4>3. /\ Answers(m)' + Cardinality(Ahead(m, top)') <= Cardinality(Recipients[m])
            /\ Answers(m)' + Cardinality(Ahead(m, top)') <= waiting'[m]
        <5> HIDE DEF R
        <5>1. Answers(m)' + Cardinality(Ahead(m, top)') = Cardinality(R)
          BY <3>3, <4>1
        <5>2. R = Recipients[m]
          BY DEF R
        <5> QED
          BY <3>1, <4>1, <5>1, <5>2
      <4> QED
        BY <4>2, <4>3 DEF Suffices
    <3>6. top \in 0..Len(UnderWay')
      BY <3>0, <1>0, <1>2, <1>5
    <3> QED
      BY <2>4, <3>5, <3>6 DEF Counted
  <2> QED
    BY <1>0, <1>10, <2>2, <2>3, <2>4 DEF CountInv, AnswersAreCounted, Counted
<1>11. CASE Recipients[n] \subseteq accepted[n]
  BY <1>11 DEF Counted
<1> QED
  BY <1>9, <1>10, <1>11 DEF TypeOK

(* The server takes the first packet under way: a copy that counts becomes *)
(* an answer that counts.                                                  *)
LEMMA TakenCopiesAreCounted ==
    ASSUME TypeOK, CountInv, ServerTakesPacket, NEW n \in Msgs
    PROVE  Counted(n)'
<1> DEFINE p == Head(wire)
<1>1. /\ wire \in Seq(AddressedPackets) /\ wire # <<>> /\ wire \in Seq(Packet)
      /\ p \in Packet /\ p.to \in Recipients[p.msg] /\ p.msg \in Msgs
  <2>1. /\ wire \in Seq(AddressedPackets) /\ wire # <<>> /\ wire \in Seq(Packet)
    BY DEF CountInv, PacketsAreAddressed, ServerTakesPacket, TypeOK
  <2>2. p \in AddressedPackets
    BY <2>1, SeqTail
  <2> QED
    BY <2>1, <2>2 DEF AddressedPackets, Packet
<1>2. /\ UnderWay \in Seq(Packet) /\ UnderWay # <<>> /\ Head(UnderWay) = p
      /\ UnderWay[1] = p /\ UnderWay' = Tail(UnderWay)
  <2>1. /\ wire' = Tail(wire) /\ outgoing' = outgoing /\ outgoing \in Seq(Packet)
    BY DEF ServerTakesPacket, clientVars, TypeOK
  <2>2. /\ Head(wire \o outgoing) = Head(wire) /\ wire \o outgoing # <<>>
        /\ Tail(wire \o outgoing) = Tail(wire) \o outgoing
    BY <1>1, <2>1, HeadTailOfConcat
  <2>3. /\ UnderWay \in Seq(Packet) /\ UnderWay # <<>> /\ Head(UnderWay) = p
        /\ UnderWay' = Tail(UnderWay)
    BY <2>1, <2>2, UnderWayIsSeq DEF UnderWay
  <2> HIDE DEF p
  <2> QED
    BY <2>3, HeadTailProperties
<1> HIDE DEF p
<1>3. PICK len \in Nat : len = Len(UnderWay) /\ len # 0 /\ Len(UnderWay') = len - 1
  BY <1>2, UnderWayIsSeq, HeadTailProperties, EmptySeq
<1>4. /\ p.live => /\ accepted' = [accepted EXCEPT ![p.msg] = @ \cup {p.to}]
                   /\ acks' = Append(acks, p.msg)
      /\ ~p.live => UNCHANGED <<accepted, acks>>
      /\ waiting' = waiting
  BY DEF ServerTakesPacket, p, clientVars
<1>5. p \in CopiesOf(n) <=> p.live /\ p.msg = n
  BY <1>1 DEF CopiesOf
<1>6. /\ Answers(n) \in Nat
      /\ Answers(n)' = Answers(n) + (IF p \in CopiesOf(n) THEN 1 ELSE 0)
  <2>1. Answers(n) \in Nat
    BY UnderWayIsSeq, PlacesAreFinite DEF Answers
  <2>2. CASE p.live
    <3>1. acks \in Seq(Msgs) /\ acks' = Append(acks, p.msg)
      BY <1>4, <2>2 DEF TypeOK
    <3>2. Answers(n)' = Answers(n) + (IF p.msg \in {n} THEN 1 ELSE 0)
      BY <1>1, <3>1, PlacesOfAppend DEF Answers
    <3> QED
      BY <1>5, <2>1, <2>2, <3>2
  <2>3. CASE ~p.live
    BY <1>4, <1>5, <2>1, <2>3 DEF Answers
  <2> QED
    BY <2>1, <2>2, <2>3
<1>7. /\ accepted[n] \subseteq accepted'[n]
      /\ p \in CopiesOf(n) => p.to \in accepted'[n]
  BY <1>1, <1>4, <1>5 DEF TypeOK
<1>8. ASSUME NEW c \in 1..len
      PROVE  /\ Ahead(n, c - 1)' = {i \in Nat : i # 0 /\ i + 1 \in Ahead(n, c)}
             /\ Cardinality(Ahead(n, c)) =
                  Cardinality(Ahead(n, c - 1)') + (IF p \in CopiesOf(n) THEN 1 ELSE 0)
  <2>1. c \in 1..Len(UnderWay)
    BY <1>3
  <2>2. CopiesOf(n)' = CopiesOf(n)
    BY DEF CopiesOf
  <2> QED
    BY <1>2, <2>1, <2>2, PlacesOfTail DEF Ahead
<1>9. CASE Recipients[n] \subseteq accepted[n]
  BY <1>7, <1>9 DEF Counted
<1>10. CASE Answers(n) = 0 /\ Ahead(n, Len(UnderWay)) = {}
  <2>1. p \notin CopiesOf(n)
    BY <1>2, <1>3, <1>10 DEF Ahead, Places
  <2>2. len \in 1..len
    BY <1>3
  <2>3. Ahead(n, len - 1)' = {}
    BY <1>3, <1>8, <1>10, <2>2
  <2>4. Ahead(n, Len(UnderWay))' = {}
    BY <1>3, <2>3
  <2> QED
    BY <1>6, <1>10, <2>1, <2>4 DEF Counted
<1>11. ASSUME NEW c \in 0..len, Suffices(n, c), ~(Recipients[n] \subseteq accepted[n])
       PROVE  Counted(n)'
  <2>1. c \in 1..len
    <3>1. ASSUME c = 0
          PROVE  FALSE
      <4>1. Ahead(n, 0) = {}
        BY DEF Ahead, Places
      <4> QED
        BY <1>11, <3>1, <4>1 DEF Suffices
    <3> QED
      BY <1>3, <3>1
  <2>2. PICK d \in Nat : d = c - 1 /\ d \in 0..Len(UnderWay')
    BY <1>3, <2>1
  <2>3. c \in 0..Len(UnderWay) /\ IsFiniteSet(Ahead(n, c)) /\ Cardinality(Ahead(n, c)) \in Nat
    BY <1>3, CountsAreNumbers
  <2>4. IsFiniteSet(Ahead(n, d)') /\ Cardinality(Ahead(n, d)') \in Nat
    BY PlacesAreFinite DEF Ahead
  <2>5. /\ Ahead(n, d)' = {i \in Nat : i # 0 /\ i + 1 \in Ahead(n, c)}
        /\ Cardinality(Ahead(n, c)) =
               Cardinality(Ahead(n, d)') + (IF p \in CopiesOf(n) THEN 1 ELSE 0)
    BY <1>8, <2>1, <2>2
  <2>6. Answers(n)' + Cardinality(Ahead(n, d)') = Answers(n) + Cardinality(Ahead(n, c))
    BY <1>6, <2>3, <2>4, <2>5
  <2>7. Recipients[n] \subseteq accepted'[n] \cup {UnderWay'[i].to : i \in Ahead(n, d)'}
    <3> SUFFICES ASSUME NEW r \in Recipients[n], r \notin accepted'[n]
                 PROVE  \E i \in Ahead(n, d)' : UnderWay'[i].to = r
      OBVIOUS
    <3>1. PICK i \in Ahead(n, c) : UnderWay[i].to = r
      BY <1>7, <1>11 DEF Suffices
    <3>2. i \in 1..c /\ UnderWay[i] \in CopiesOf(n)
      BY <3>1 DEF Ahead, Places
    <3>3. i # 1
      BY <1>2, <1>7, <3>1, <3>2
    <3>4. PICK j \in Nat : j = i - 1 /\ j # 0
      BY <2>1, <3>2, <3>3
    <3>5. j + 1 = i /\ j \in 1..(len - 1) /\ j \in 1..Len(Tail(UnderWay))
      BY <1>2, <1>3, <2>1, <3>2, <3>3, <3>4
    <3>6. UnderWay'[j] = UnderWay[i] /\ j \in Ahead(n, d)'
      BY <1>2, <2>5, <3>1, <3>4, <3>5, HeadTailProperties
    <3> QED
      BY <3>1, <3>6
  <2>8. Suffices(n, d)'
    BY <1>4, <1>11, <2>6, <2>7 DEF Suffices
  <2> QED
    BY <2>2, <2>8 DEF Counted
<1> QED
  BY <1>3, <1>9, <1>10, <1>11 DEF CountInv, AnswersAreCounted, Counted

(* An answer is counted; the last one tells that all copies are taken.     *)
LEMMA HandledAnswersAreCounted ==
    ASSUME TypeOK, CountInv, HandleIncomingAcknowledgment, NEW n \in Msgs
    PROVE  /\ Counted(n)'
           /\ n = Head(acks) /\ waiting[n] = 1 => Recipients[n] \subseteq accepted[n]
<1>1. /\ acks \in Seq(Msgs) /\ acks # <<>> /\ acks' = Tail(acks) /\ Head(acks) \in Msgs
      /\ UNCHANGED <<accepted, UnderWay>>
      /\ waiting' = IF waiting[Head(acks)] > 0 THEN [waiting EXCEPT ![Head(acks)] = @ - 1]
                    ELSE waiting
  BY SeqTail DEF HandleIncomingAcknowledgment, TypeOK, UnderWay
<1>2. Len(acks) \in Nat /\ Len(acks) \in 1..Len(acks) /\ Len(acks') = Len(acks) - 1
  BY <1>1, HeadTailProperties, LenProperties, EmptySeq
<1>3. Answers(n) = Answers(n)' + (IF Head(acks) = n THEN 1 ELSE 0)
  <2>1. Head(acks) \in {n} <=> Head(acks) = n
    OBVIOUS
  <2> QED
    BY <1>1, <1>2, <2>1, PlacesOfTail DEF Answers
<1>4. Answers(n) \in Nat /\ Answers(n)' \in Nat
  BY <1>2, PlacesAreFinite DEF Answers
<1>5. \A c : Ahead(n, c)' = Ahead(n, c)
  BY <1>1 DEF Ahead, CopiesOf
<1>6. CASE Recipients[n] \subseteq accepted[n]
  BY <1>1, <1>6 DEF Counted
<1>7. CASE Answers(n) = 0 /\ Ahead(n, Len(UnderWay)) = {}
  <2>1. Head(acks) # n /\ Answers(n)' = 0
    BY <1>3, <1>4, <1>7
  <2> QED
    BY <1>1, <1>5, <1>7, <2>1 DEF Counted
<1>8. ASSUME NEW c \in 0..Len(UnderWay), Suffices(n, c)
      PROVE  /\ Counted(n)'
             /\ n = Head(acks) /\ waiting[n] = 1 => Recipients[n] \subseteq accepted[n]
  <2>1. Cardinality(Ahead(n, c)) \in Nat /\ (Cardinality(Ahead(n, c)) = 0 => Ahead(n, c) = {})
    BY CountsAreNumbers
  <2>2. waiting[n] \in Nat /\ waiting[n] # 0 => waiting'[n] \in {waiting[n], waiting[n] - 1}
    BY <1>1 DEF TypeOK
  <2>3. /\ Answers(n)' + Cardinality(Ahead(n, c)) <= Cardinality(Recipients[n])
        /\ waiting'[n] = 0 \/ Answers(n)' + Cardinality(Ahead(n, c)) <= waiting'[n]
    <3>1. CASE Head(acks) = n
      <4>1. /\ Answers(n) = Answers(n)' + 1 /\ waiting[n] \in Nat
            /\ waiting[n] > 0 => waiting'[n] = waiting[n] - 1
            /\ ~(waiting[n] > 0) => waiting'[n] = waiting[n]
        BY <1>1, <1>3, <3>1 DEF TypeOK
      <4>2. Cardinality(Recipients[n]) \in Nat
        BY RecipientsAreFinite
      <4> QED
        BY <1>4, <1>8, <2>1, <4>1, <4>2 DEF Suffices
    <3>2. CASE Head(acks) # n
      <4>1. waiting'[n] = waiting[n] /\ Answers(n)' = Answers(n)
        BY <1>1, <1>3, <1>4, <3>2 DEF TypeOK
      <4> QED
        BY <1>8, <4>1 DEF Suffices
    <3> QED
      BY <3>1, <3>2
  <2>4. Suffices(n, c)'
    BY <1>1, <1>5, <1>8, <2>3 DEF Suffices
  <2>5. ASSUME n = Head(acks), waiting[n] = 1
        PROVE  Recipients[n] \subseteq accepted[n]
    <3>1. Cardinality(Ahead(n, c)) = 0
      BY <1>3, <1>4, <1>8, <2>1, <2>5 DEF Suffices
    <3> QED
      BY <1>8, <2>1, <3>1 DEF Suffices
  <2> QED
    BY <1>1, <2>4, <2>5 DEF Counted
<1> QED
  <2>1. CASE \E c \in 0..Len(UnderWay) : Suffices(n, c)
    BY <1>8, <2>1
  <2>2. CASE Answers(n) = 0 /\ Ahead(n, Len(UnderWay)) = {}
    <3>1. Head(acks) # n
      BY <1>3, <1>4, <2>2
    <3> QED
      BY <1>7, <2>2, <3>1
  <2> QED
    BY <1>6, <2>1, <2>2 DEF CountInv, AnswersAreCounted, Counted

-----------------------------------------------------------------------------
(* What a step does to the packets and answers under way.                  *)

QuietStep ==
    /\ UNCHANGED <<acks, accepted>>
    /\ UNCHANGED <<wire, outgoing>> \/ OutgoingMessagesTimerOnTimer
    /\ connected' = connected \/ connected'
    /\ \A m \in Msgs : waiting'[m] = waiting[m] \/ waiting'[m] = 0

EnqueuingStep ==
    \E m \in Msgs : /\ HandleOutgoingMessage(m)
                    /\ UNCHANGED <<acks, wire, accepted, connected>>

LEMMA StepsUnderWay ==
    ASSUME TypeOK, [Next]_vars
    PROVE  \/ QuietStep
           \/ EnqueuingStep
           \/ LoseVolatileState
           \/ SocketDisconnected
           \/ SetupProtocolClient
           \/ ServerTakesPacket
           \/ HandleIncomingAcknowledgment
<1> USE DEF rowVars, centerVars, clientVars, networkVars
<1>1. CASE UNCHANGED vars
  BY <1>1 DEF vars, QuietStep
<1>2. CASE CenterStep
  BY <1>2 DEF CenterStep, ProcessSentMessage, TryResendingMessagesToNetwork,
     SetNetworkSentMessageAcceptor, ProcessReport, QuietStep
<1>3. CASE DatabaseStep
  BY <1>3 DEF DatabaseStep, StoreSent, StoreResult, StoreReceipt, QuietStep,
     SendAllWaitingMessages, SendAllWaitingMessagesThrows
<1>4. CASE SendPostedMessage
  <2>1. Head(pcq) \in Msgs
    BY <1>4, SeqTail DEF SendPostedMessage, TypeOK
  <2> QED
    BY <1>4, <2>1 DEF SendPostedMessage, QuietStep, EnqueuingStep
<1>5. CASE OutgoingMessagesTimerOnTimer
  BY <1>5 DEF OutgoingMessagesTimerOnTimer, QuietStep
<1>6. ASSUME NEW m \in Msgs, UploadEnds(m)
      PROVE  QuietStep \/ EnqueuingStep
  BY <1>6 DEF UploadEnds, CallbackTaskSucceeded, CallbackTaskFailed,
     QuietStep, EnqueuingStep
<1>7. ASSUME NEW m \in Msgs, AcknowledgmentTimeout(m)
      PROVE  QuietStep
  BY <1>7 DEF AcknowledgmentTimeout, QuietStep, TypeOK
<1>8. ASSUME NEW old, OnQueueTimeoutTimerFire(old)
      PROVE  QuietStep
  BY <1>8 DEF OnQueueTimeoutTimerFire, QuietStep
<1>9. CASE ConnectToFinished
  BY <1>9 DEF ConnectToFinished, QuietStep
<1>10. CASE UserStep \/ PeerStep
  BY <1>10 DEF UserStep, SendMessage, DeleteMessage, Restart, PeerStep,
     ReceiveReceipt, QuietStep
<1>11. CASE Crash
  BY <1>11 DEF Crash
<1> QED
  BY <1>1, <1>2, <1>3, <1>4, <1>5, <1>6, <1>7, <1>8, <1>9, <1>10, <1>11
     DEF Next, ClientStep

LEMMA QuietStepKeepsUnderWay ==
    ASSUME TypeOK, QuietStep
    PROVE  UNCHANGED UnderWay
<1>1. CASE UNCHANGED <<wire, outgoing>>
  BY <1>1 DEF UnderWay
<1>2. CASE OutgoingMessagesTimerOnTimer
  <2>1. /\ wire \o outgoing \in Seq(Packet)
        /\ wire' = wire \o outgoing /\ outgoing' = <<>>
    BY <1>2, SeqConcat DEF OutgoingMessagesTimerOnTimer, TypeOK
  <2> QED
    BY <2>1, ConcatEmptySeq DEF UnderWay
<1> QED
  BY <1>1, <1>2 DEF QuietStep

LEMMA LostPackets ==
    ASSUME TypeOK, SocketDisconnected, NEW S \in SUBSET Packet,
           \A i \in 1..Len(outgoing) : [outgoing[i] EXCEPT !.live = FALSE] \in S
    PROVE  outgoing' \in Seq(S)
<1>1. Len(outgoing) \in Nat /\ DOMAIN outgoing = 1..Len(outgoing)
  BY LenProperties DEF TypeOK
<1>2. outgoing' \in [1..Len(outgoing) -> S]
  BY <1>1 DEF SocketDisconnected
<1> QED
  BY <1>1, <1>2, SeqOfFunction

LEMMA LostPacketsAreDead ==
    ASSUME TypeOK, SocketDisconnected
    PROVE  outgoing' \in Seq(DeadPackets)
<1>1. \A i \in 1..Len(outgoing) : outgoing[i] \in Packet
  BY ElementOfSeq DEF TypeOK
<1>2. \A i \in 1..Len(outgoing) : [outgoing[i] EXCEPT !.live = FALSE] \in DeadPackets
  BY <1>1 DEF Packet, DeadPackets
<1> QED
  BY <1>2, LostPackets DEF DeadPackets

LEMMA LostPacketsAreAddressed ==
    ASSUME TypeOK, SocketDisconnected, outgoing \in Seq(AddressedPackets)
    PROVE  outgoing' \in Seq(AddressedPackets)
<1>1. \A i \in 1..Len(outgoing) : outgoing[i] \in AddressedPackets
  BY ElementOfSeq
<1>2. \A i \in 1..Len(outgoing) : [outgoing[i] EXCEPT !.live = FALSE] \in AddressedPackets
  BY <1>1 DEF Packet, AddressedPackets
<1> QED
  BY <1>2, LostPackets DEF AddressedPackets

LEMMA StepKeepsCount ==
    ASSUME TypeOK, CountInv, [Next]_vars, NEW n \in Msgs
    PROVE  Counted(n)'
<1>1. CASE QuietStep
  BY <1>1, QuietStepKeepsUnderWay, SameCount
     DEF QuietStep, CountInv, AnswersAreCounted
<1>2. CASE EnqueuingStep
  BY <1>2, NewCopiesAreCounted DEF EnqueuingStep
<1>3. ASSUME acks' = <<>>, wire' = <<>>, outgoing' \in Seq(DeadPackets)
      PROVE  Counted(n)'
  BY <1>3, ConcatEmptySeq, NothingLeftToCount DEF UnderWay
<1>4. CASE LoseVolatileState
  BY <1>3, <1>4, EmptySeq DEF LoseVolatileState
<1>5. CASE SocketDisconnected
  <2>1. outgoing' \in Seq(DeadPackets)
    BY <1>5, LostPacketsAreDead
  <2> QED
    BY <1>3, <1>5, <2>1 DEF SocketDisconnected
<1>6. CASE SetupProtocolClient
  <2>1. outgoing' \in Seq(DeadPackets)
    BY <1>6, EmptySeq DEF SetupProtocolClient
  <2>2. acks' = <<>> /\ wire' = <<>>
    BY <1>6 DEF SetupProtocolClient, CountInv, NoSessionNoCopies, networkVars
  <2> QED
    BY <1>3, <2>1, <2>2
<1> QED
  BY <1>1, <1>2, <1>4, <1>5, <1>6, StepsUnderWay, TakenCopiesAreCounted,
     HandledAnswersAreCounted

LEMMA StepKeepsSession ==
    ASSUME TypeOK, CountInv, [Next]_vars
    PROVE  NoSessionNoCopies'
<1> USE DEF NoSessionNoCopies
<1>1. CASE QuietStep
  BY <1>1 DEF QuietStep, CountInv, OutgoingMessagesTimerOnTimer, DeadPackets
<1>2. CASE EnqueuingStep
  <2>1. PICK m \in Msgs : /\ HandleOutgoingMessage(m)
                          /\ UNCHANGED <<acks, wire, accepted, connected>>
    BY <1>2 DEF EnqueuingStep
  <2>2. PICK copies \in CopyOrders(m) : outgoing' = outgoing \o copies
    BY <2>1 DEF HandleOutgoingMessage
  <2>3. ASSUME ~connected
        PROVE  outgoing' \in Seq(DeadPackets)
    <3>1. /\ Cardinality(Recipients[m]) \in Nat /\ Recipients[m] \in SUBSET Contacts
          /\ copies \in [1..Cardinality(Recipients[m]) ->
                             [msg: {m}, to: Recipients[m], live: {connected}]]
      BY <2>2, RecipientsAreFinite DEF CopyOrders
    <3>2. [msg: {m}, to: Recipients[m], live: {connected}] \subseteq DeadPackets
      BY <2>3, <3>1 DEF Packet, DeadPackets, TypeOK
    <3>3. copies \in Seq(DeadPackets)
      BY <3>1, <3>2, SeqOfFunction, SeqMonotonic
    <3> QED
      BY <2>2, <2>3, <3>3, SeqConcat DEF CountInv
  <2> QED
    BY <2>1, <2>3 DEF CountInv, DeadPackets
<1>3. CASE LoseVolatileState
  BY <1>3, EmptySeq DEF LoseVolatileState
<1>4. CASE SocketDisconnected
  BY <1>4, LostPacketsAreDead DEF SocketDisconnected, DeadPackets
<1>5. CASE SetupProtocolClient
  BY <1>5, EmptySeq DEF SetupProtocolClient, CountInv, networkVars
<1>6. CASE ServerTakesPacket
  BY <1>6 DEF ServerTakesPacket, CountInv
<1>7. CASE HandleIncomingAcknowledgment
  BY <1>7 DEF HandleIncomingAcknowledgment, CountInv
<1> QED
  BY <1>1, <1>2, <1>3, <1>4, <1>5, <1>6, <1>7, StepsUnderWay

LEMMA StepKeepsAddresses ==
    ASSUME TypeOK, CountInv, [Next]_vars
    PROVE  PacketsAreAddressed'
<1>0. /\ wire \in Seq(AddressedPackets) /\ outgoing \in Seq(AddressedPackets)
      /\ \A m \in Msgs : accepted[m] \subseteq Recipients[m]
  BY DEF CountInv, PacketsAreAddressed
<1> SUFFICES /\ wire' \in Seq(AddressedPackets) /\ outgoing' \in Seq(AddressedPackets)
             /\ \A m \in Msgs : accepted'[m] \subseteq Recipients[m]
  BY DEF PacketsAreAddressed, AddressedPackets
<1>1. CASE QuietStep
  BY <1>0, <1>1, SeqConcat, EmptySeq DEF QuietStep, OutgoingMessagesTimerOnTimer
<1>2. CASE EnqueuingStep
  <2>1. PICK m \in Msgs : /\ HandleOutgoingMessage(m)
                          /\ UNCHANGED <<acks, wire, accepted, connected>>
    BY <1>2 DEF EnqueuingStep
  <2>2. PICK copies \in CopyOrders(m) : outgoing' = outgoing \o copies
    BY <2>1 DEF HandleOutgoingMessage
  <2>3. /\ Cardinality(Recipients[m]) \in Nat /\ Recipients[m] \in SUBSET Contacts
        /\ copies \in [1..Cardinality(Recipients[m]) ->
                           [msg: {m}, to: Recipients[m], live: {connected}]]
    BY <2>2, RecipientsAreFinite DEF CopyOrders
  <2>4. [msg: {m}, to: Recipients[m], live: {connected}] \subseteq AddressedPackets
    BY <2>3 DEF Packet, AddressedPackets, TypeOK
  <2>5. copies \in Seq(AddressedPackets)
    BY <2>3, <2>4, SeqOfFunction, SeqMonotonic
  <2> QED
    BY <1>0, <2>1, <2>2, <2>5, SeqConcat
<1>3. CASE LoseVolatileState
  BY <1>0, <1>3, EmptySeq DEF LoseVolatileState
<1>4. CASE SocketDisconnected
  <2>1. outgoing' \in Seq(AddressedPackets)
    BY <1>0, <1>4, LostPacketsAreAddressed
  <2> QED
    BY <1>0, <1>4, <2>1, EmptySeq DEF SocketDisconnected
<1>5. CASE SetupProtocolClient
  BY <1>0, <1>5, EmptySeq DEF SetupProtocolClient, networkVars
<1>6. CASE ServerTakesPacket
  <2>1. /\ Head(wire) \in AddressedPackets /\ wire' \in Seq(AddressedPackets)
        /\ outgoing' = outgoing
    BY <1>0, <1>6, SeqTail DEF ServerTakesPacket, clientVars
  <2>2. /\ Head(wire).msg \in Msgs
        /\ Head(wire).to \in Recipients[Head(wire).msg]
    BY <2>1 DEF AddressedPackets, Packet
  <2>3. \/ accepted' = accepted
        \/ accepted' = [accepted EXCEPT ![Head(wire).msg] = @ \cup {Head(wire).to}]
    BY <1>6 DEF ServerTakesPacket
  <2>4. ASSUME NEW m \in Msgs
        PROVE  accepted'[m] \subseteq Recipients[m]
    <3>1. PICK p \in AddressedPackets : p = Head(wire)
      BY <2>1
    <3>2. accepted \in [Msgs -> SUBSET Contacts]
      BY DEF TypeOK
    <3>3. \/ accepted'[m] = accepted[m]
          \/ p.msg = m /\ accepted'[m] = accepted[m] \cup {p.to}
      BY <2>2, <2>3, <3>1, <3>2
    <3> QED
      BY <1>0, <2>2, <3>1, <3>3
  <2> QED
    BY <1>0, <2>1, <2>4
<1>7. CASE HandleIncomingAcknowledgment
  BY <1>0, <1>7 DEF HandleIncomingAcknowledgment
<1> QED
  BY <1>1, <1>2, <1>3, <1>4, <1>5, <1>6, <1>7, StepsUnderWay

LEMMA StepKeepsCountInv == TypeOK /\ CountInv /\ [Next]_vars => CountInv'
  BY StepKeepsAddresses, StepKeepsSession, StepKeepsCount
     DEF CountInv, AnswersAreCounted

LEMMA InitCountsNothing == Init => CountInv
<1> SUFFICES ASSUME Init
             PROVE  CountInv
  OBVIOUS
<1>1. /\ wire = <<>> /\ outgoing = <<>> /\ acks = <<>>
      /\ accepted = [m \in Msgs |-> {}]
  BY DEF Init
<1>2. UnderWay = <<>> /\ Len(UnderWay) = 0 /\ Len(acks) = 0
  BY <1>1 DEF UnderWay
<1>3. ASSUME NEW m \in Msgs
      PROVE  Counted(m)
  <2>1. Places(acks, {m}, Len(acks)) = {} /\ Ahead(m, Len(UnderWay)) = {}
    BY <1>2 DEF Places, Ahead
  <2> QED
    BY <2>1, FS_EmptySet DEF Counted, Answers
<1> QED
  BY <1>1, <1>3, EmptySeq DEF CountInv, PacketsAreAddressed, NoSessionNoCopies,
     AnswersAreCounted

-----------------------------------------------------------------------------
(* What "sent" says.                                                       *)

Complete == {m \in Msgs : accepted[m] = Recipients[m]}

TrueReports == {r \in Report : r.op = "SENT" => r.msg \in Complete}
TrueCalls == {c \in Call : c.op = "SENT" => c.msg \in Complete}

SuccessIsComplete ==
    /\ sent \subseteq Complete
    /\ reports \in Seq(TrueReports)
    /\ dbq \in Seq(TrueCalls)

LEMMA CompleteGrows ==
    ASSUME TypeOK, CountInv, CountInv', [Next]_vars
    PROVE  Complete \subseteq Complete'
<1>1. \A m \in Msgs : accepted[m] \subseteq accepted'[m]
  <2>1. CASE ServerTakesPacket
    <3>1. PICK p \in Packet : p = Head(wire)
      BY <2>1, SeqTail DEF ServerTakesPacket, TypeOK
    <3>2. p.msg \in Msgs
      BY DEF Packet
    <3>3. \/ accepted' = accepted
          \/ accepted' = [accepted EXCEPT ![p.msg] = @ \cup {p.to}]
      BY <2>1, <3>1 DEF ServerTakesPacket
    <3> QED
      BY <3>2, <3>3 DEF TypeOK
  <2>2. UNCHANGED accepted \/ ServerTakesPacket
    BY StepsUnderWay DEF QuietStep, EnqueuingStep, LoseVolatileState,
       SocketDisconnected, SetupProtocolClient, networkVars,
       HandleIncomingAcknowledgment
  <2> QED
    BY <2>1, <2>2
<1>2. \A m \in Msgs : accepted'[m] \subseteq Recipients[m]
  BY DEF CountInv, PacketsAreAddressed
<1> QED
  BY <1>1, <1>2 DEF Complete

(* A step that reports nothing as sent. *)
LEMMA OldNewsStayTrue ==
    ASSUME SuccessIsComplete, Complete \subseteq Complete'
    PROVE  /\ sent \subseteq Complete'
           /\ reports \in Seq(TrueReports')
           /\ dbq \in Seq(TrueCalls')
<1>1. TrueReports \subseteq TrueReports' /\ TrueCalls \subseteq TrueCalls'
  BY DEF TrueReports, TrueCalls
<1> QED
  BY <1>1, SeqMonotonic DEF SuccessIsComplete

LEMMA PostedReportIsTrue ==
    ASSUME reports \in Seq(TrueReports'), NEW m \in Msgs,
           NEW op \in Results \cup Receipts, op = "SENT" => m \in Complete',
           PostReport(m, op)
    PROVE  reports' \in Seq(TrueReports')
<1>1. [op |-> op, msg |-> m] \in TrueReports'
  BY DEF TrueReports, Report
<1> QED
  BY <1>1, SeqAppend DEF PostReport

(* Reports: the last answer that is waited for is the only good news. *)
LEMMA StepKeepsReportsTrue ==
    ASSUME TypeOK, CountInv, SuccessIsComplete, [Next]_vars,
           Complete \subseteq Complete'
    PROVE  reports' \in Seq(TrueReports')
<1> USE DEF rowVars, centerVars, networkVars
<1>0. reports \in Seq(TrueReports')
  BY OldNewsStayTrue
<1>1. ASSUME LoseVolatileState
      PROVE  reports' \in Seq(TrueReports')
  BY <1>1, EmptySeq DEF LoseVolatileState
<1>2. CASE UNCHANGED vars
  BY <1>0, <1>2 DEF vars
<1>3. CASE CenterStep
  BY <1>0, <1>3, SeqTail DEF CenterStep, ProcessSentMessage, ProcessReport,
     TryResendingMessagesToNetwork, SetNetworkSentMessageAcceptor
<1>4. CASE DatabaseStep
  BY <1>0, <1>1, <1>4 DEF DatabaseStep, StoreSent, StoreResult, StoreReceipt,
     SendAllWaitingMessages, SendAllWaitingMessagesThrows
<1>5. CASE SendPostedMessage \/ OutgoingMessagesTimerOnTimer
  BY <1>0, <1>5 DEF SendPostedMessage, OutgoingMessagesTimerOnTimer
<1>6. CASE HandleIncomingAcknowledgment
  <2>1. Head(acks) \in Msgs
    BY <1>6, SeqTail DEF HandleIncomingAcknowledgment, TypeOK
  <2>2. ASSUME waiting[Head(acks)] = 1
        PROVE  Head(acks) \in Complete
    BY <1>6, <2>1, <2>2, HandledAnswersAreCounted
       DEF Complete, CountInv, PacketsAreAddressed
  <2>3. CASE waiting[Head(acks)] = 1
    <3>1. Head(acks) \in Complete' /\ PostReport(Head(acks), "SENT")
      BY <1>6, <2>2, <2>3 DEF HandleIncomingAcknowledgment
    <3> QED
      BY <1>0, <2>1, <3>1, PostedReportIsTrue DEF Results
  <2>4. CASE waiting[Head(acks)] # 1
    BY <1>0, <1>6, <2>4 DEF HandleIncomingAcknowledgment
  <2> QED
    BY <2>3, <2>4
<1>7. ASSUME NEW m \in Msgs, UploadEnds(m) \/ AcknowledgmentTimeout(m)
      PROVE  reports' \in Seq(TrueReports')
  <2>1. PostReport(m, "SENDFAILED") \/ UNCHANGED reports
    BY <1>7 DEF UploadEnds, CallbackTaskSucceeded, CallbackTaskFailed,
       AcknowledgmentTimeout
  <2> QED
    BY <1>0, <2>1, PostedReportIsTrue DEF Results
<1>8. CASE \E old \in SUBSET queued : OnQueueTimeoutTimerFire(old)
  BY <1>0, <1>8 DEF OnQueueTimeoutTimerFire
<1>9. CASE ServerTakesPacket \/ ConnectToFinished \/ SocketDisconnected
  BY <1>0, <1>9 DEF ServerTakesPacket, ConnectToFinished, SocketDisconnected
<1>10. CASE UserStep
  BY <1>0, <1>10 DEF UserStep, SendMessage, DeleteMessage, SetupProtocolClient,
     Restart
<1>11. ASSUME NEW m \in Msgs, NEW receipt \in Receipts, ReceiveReceipt(m, receipt)
       PROVE  reports' \in Seq(TrueReports')
  <2>1. PostReport(m, receipt) /\ receipt # "SENT"
    BY <1>11 DEF ReceiveReceipt, Receipts
  <2> QED
    BY <1>0, <2>1, PostedReportIsTrue
<1>12. CASE Crash
  BY <1>1, <1>12 DEF Crash
<1> QED
  BY <1>2, <1>3, <1>4, <1>5, <1>6, <1>7, <1>8, <1>9, <1>10, <1>11, <1>12
     DEF Next, ClientStep, PeerStep

(* Calls: the message center passes the reports on as they are. *)
LEMMA StepKeepsCallsTrue ==
    ASSUME TypeOK, SuccessIsComplete, [Next]_vars, Complete \subseteq Complete'
    PROVE  dbq' \in Seq(TrueCalls')
<1> USE DEF rowVars, centerVars, networkVars, clientVars
<1>0. dbq \in Seq(TrueCalls')
  BY OldNewsStayTrue
<1>1. ASSUME LoseVolatileState
      PROVE  dbq' \in Seq(TrueCalls')
  BY <1>1, EmptySeq DEF LoseVolatileState
<1>2. CASE UNCHANGED dbq
  BY <1>0, <1>2
<1>3. CASE dbq # <<>> /\ dbq' = Tail(dbq)
  BY <1>0, <1>3, SeqTail
<1>4. ASSUME NEW c \in Call, c.op # "SENT", dbq' = Append(dbq, c)
      PROVE  dbq' \in Seq(TrueCalls')
  BY <1>0, <1>4, SeqAppend DEF TrueCalls
<1>5. CASE ProcessReport
  <2>1. PICK r \in Report : r = Head(reports) /\ (r.op = "SENT" => r.msg \in Complete)
    BY <1>5, SeqTail DEF ProcessReport, SuccessIsComplete, TrueReports
  <2>2. [op |-> r.op, msg |-> r.msg, live |-> TRUE] \in TrueCalls'
    BY <2>1 DEF Report, Call, TrueCalls
  <2>3. dbq' = Append(dbq, [op |-> r.op, msg |-> r.msg, live |-> TRUE])
    BY <1>5, <2>1 DEF ProcessReport
  <2> QED
    BY <1>0, <2>2, <2>3, SeqAppend
<1>6. CASE ProcessSentMessage
  BY <1>2, <1>6 DEF ProcessSentMessage
<1>7. CASE TryResendingMessagesToNetwork \/ SetNetworkSentMessageAcceptor
  <2>1. DrainCall \in Call /\ DrainCall.op # "SENT"
    BY DEF DrainCall, Call
  <2> QED
    BY <1>2, <1>4, <1>7, <2>1 DEF TryResendingMessagesToNetwork,
       SetNetworkSentMessageAcceptor
<1>8. CASE DatabaseStep
  BY <1>1, <1>3, <1>8 DEF DatabaseStep, StoreSent, StoreResult, StoreReceipt,
     HandleCall, SendAllWaitingMessages, SendAllWaitingMessagesThrows
<1>9. ASSUME NEW m \in Msgs, SendMessage(m)
      PROVE  dbq' \in Seq(TrueCalls')
  <2>1. [op |-> "store", msg |-> m, live |-> IsConnected] \in Call
    BY DEF Call, IsConnected, TypeOK
  <2> QED
    BY <1>4, <1>9, <2>1 DEF SendMessage
<1>10. CASE SetupProtocolClient
  <2>1. Len(dbq) \in Nat /\ DOMAIN dbq = 1..Len(dbq)
    BY <1>0, LenProperties
  <2>2. \A i \in 1..Len(dbq) : dbq[i] \in TrueCalls'
    BY <1>0, ElementOfSeq
  <2>3. \A i \in 1..Len(dbq) : dbq'[i] \in TrueCalls'
    BY <1>10, <2>1, <2>2 DEF SetupProtocolClient, TrueCalls, Call
  <2>4. dbq' \in [1..Len(dbq) -> TrueCalls']
    BY <1>10, <2>1, <2>3 DEF SetupProtocolClient
  <2> QED
    BY <2>1, <2>4, SeqOfFunction
<1>11. UNCHANGED dbq \/ CenterStep \/ DatabaseStep \/ SetupProtocolClient \/ Crash
          \/ \E m \in Msgs : SendMessage(m)
  <2>1. CASE UNCHANGED vars
    BY <2>1 DEF vars
  <2>2. CASE ClientStep
    BY <2>2 DEF ClientStep, SendPostedMessage, OutgoingMessagesTimerOnTimer,
       HandleIncomingAcknowledgment
  <2>3. CASE \E m \in Msgs : UploadEnds(m) \/ AcknowledgmentTimeout(m)
    BY <2>3 DEF UploadEnds, CallbackTaskSucceeded, CallbackTaskFailed,
       AcknowledgmentTimeout
  <2>4. CASE \E old \in SUBSET queued : OnQueueTimeoutTimerFire(old)
    BY <2>4 DEF OnQueueTimeoutTimerFire
  <2>5. CASE ServerTakesPacket \/ ConnectToFinished \/ SocketDisconnected \/ PeerStep
    BY <2>5 DEF ServerTakesPacket, ConnectToFinished, SocketDisconnected,
       PeerStep, ReceiveReceipt
  <2>6. CASE UserStep
    BY <2>6 DEF UserStep, DeleteMessage, Restart
  <2> QED
    BY <2>1, <2>2, <2>3, <2>4, <2>5, <2>6 DEF Next
<1> QED
  BY <1>1, <1>2, <1>5, <1>6, <1>7, <1>8, <1>9, <1>10, <1>11 DEF CenterStep, Crash

(* Rows: a report of success is what marks a row as sent; a receipt only   *)
(* moves one that is marked already.                                       *)
LEMMA StepKeepsRowsTrue ==
    ASSUME TypeOK, RowConsistent, SuccessIsComplete, [Next]_vars,
           Complete \subseteq Complete'
    PROVE  sent' \subseteq Complete'
<1>0. sent \subseteq Complete'
  BY OldNewsStayTrue
<1>1. CASE UNCHANGED rowVars
  BY <1>0, <1>1 DEF rowVars
<1>2. CASE StoreSent
  BY <1>0, <1>2 DEF StoreSent
<1>3. ASSUME NEW op \in Results \cup Receipts, StoreResult(op) \/ StoreReceipt(op)
      PROVE  sent' \subseteq Complete'
  <2> DEFINE m == Head(dbq).msg
  <2>1. CASE m \in present /\ SetMessageState(m, op)
    <3>1. sent' \subseteq sent \cup (IF op = "SENDFAILED" THEN {} ELSE {m})
      BY <2>1 DEF SetMessageState, rowVars
    <3>2. CASE op = "SENT"
      <4>1. PICK c \in TrueCalls : c = Head(dbq) /\ c.op = op
        BY <1>3, SeqTail DEF StoreResult, StoreReceipt, HandleCall, SuccessIsComplete
      <4>2. m \in Complete'
        BY <3>2, <4>1 DEF TrueCalls
      <4> QED
        BY <1>0, <3>1, <4>2
    <3>3. CASE op \in Receipts
      <4>1. CASE CanSwitchTo(state[m], op)
        <5>1. state[m] \in SentStates
          BY <3>3, <4>1 DEF CanSwitchTo, Receipts, SentStates
        <5>2. m \in sent
          BY <2>1, <5>1 DEF RowConsistent
        <5> QED
          BY <1>0, <3>1, <5>2
      <4>2. CASE ~CanSwitchTo(state[m], op)
        BY <1>0, <2>1, <4>2 DEF SetMessageState, rowVars
      <4> QED
        BY <4>1, <4>2
    <3> QED
      BY <1>0, <3>1, <3>2, <3>3 DEF Results
  <2> QED
    BY <1>1, <1>3, <2>1, ReportKeepsOrSetsState
<1>4. CASE SendAllWaitingMessages \/ SendAllWaitingMessagesThrows
  BY <1>0, <1>4, ResendLoopQueuesUnsentRows DEF SetIsQueued
<1>5. ASSUME NEW m, DeleteMessage(m)
      PROVE  sent' \subseteq Complete'
  BY <1>0, <1>5 DEF DeleteMessage
<1>6. ASSUME NEW old, OnQueueTimeoutTimerFire(old)
      PROVE  sent' \subseteq Complete'
  BY <1>0, <1>6, QueueTimerResetsUnsentRows DEF SetIsQueued
<1> QED
  BY <1>1, <1>2, <1>3, <1>4, <1>5, <1>6, RowsAreTheDatabases DEF DatabaseStep

LEMMA InitIsComplete == Init => SuccessIsComplete
  BY EmptySeq DEF Init, SuccessIsComplete

(* A message is shown as sent only when the server has a copy for every    *)
(* recipient: answers are counted without being told apart, but those of   *)
(* one round of copies come in the order of the copies, and a lost         *)
(* session takes its unread answers with it.                               *)
THEOREM SentMeansAccepted == Spec => []SentOnlyIfAccepted
<1>1. TypeOK /\ RowConsistent /\ CountInv /\ CountInv' /\ SuccessIsComplete /\ [Next]_vars
          => SuccessIsComplete'
  <2> SUFFICES ASSUME TypeOK, RowConsistent, CountInv, CountInv',
                      SuccessIsComplete, [Next]_vars
               PROVE  SuccessIsComplete'
    OBVIOUS
  <2>1. Complete \subseteq Complete'
    BY CompleteGrows
  <2> QED
    BY <2>1, StepKeepsRowsTrue, StepKeepsReportsTrue, StepKeepsCallsTrue
       DEF SuccessIsComplete
<1>2. SuccessIsComplete => SentOnlyIfAccepted
  BY DEF SuccessIsComplete, SentOnlyIfAccepted, Complete
<1> QED
  BY <1>1, <1>2, InitCountsNothing, StepKeepsCountInv, InitIsComplete,
     TypeCorrect, RowsAreConsistent, PTL DEF Spec

-----------------------------------------------------------------------------
(* The server forgets nothing. *)
LEMMA TakenGrows ==
    ASSUME TypeOK, [Next]_vars
    PROVE  Taken \subseteq Taken'
<1>1. CASE ServerTakesPacket
  <2>1. Head(wire) \in Packet
    BY <1>1, SeqTail DEF TypeOK, ServerTakesPacket
  <2>2. Head(wire).msg \in Msgs
    BY <2>1 DEF Packet
  <2>3. CASE accepted' = [accepted EXCEPT ![Head(wire).msg] =
                             @ \cup {Head(wire).to}]
    BY <2>2, <2>3 DEF TypeOK, Taken
  <2>4. CASE UNCHANGED accepted
    BY <2>4 DEF Taken
  <2> QED
    BY <1>1, <2>3, <2>4 DEF ServerTakesPacket
<1>2. CASE UNCHANGED accepted
  BY <1>2 DEF Taken
<1>3. CASE UNCHANGED vars
  BY <1>3 DEF Taken, vars, networkVars
<1>4. CASE CenterStep
  BY <1>2, <1>4 DEF CenterStep, ProcessSentMessage, ProcessReport,
     TryResendingMessagesToNetwork, SetNetworkSentMessageAcceptor, networkVars
<1>5. CASE DatabaseStep
  BY <1>2, <1>5 DEF DatabaseStep, StoreSent, StoreResult, StoreReceipt,
     SendAllWaitingMessages, SendAllWaitingMessagesThrows, LoseVolatileState,
     networkVars
<1>6. CASE ClientStep
  BY <1>2, <1>6 DEF ClientStep, SendPostedMessage, networkVars,
     OutgoingMessagesTimerOnTimer, HandleIncomingAcknowledgment
<1>7. CASE \E m \in Msgs : UploadEnds(m) \/ AcknowledgmentTimeout(m)
  BY <1>2, <1>7 DEF UploadEnds, CallbackTaskSucceeded, CallbackTaskFailed,
     AcknowledgmentTimeout, networkVars
<1>8. CASE \E old \in SUBSET queued : OnQueueTimeoutTimerFire(old)
  BY <1>2, <1>8 DEF OnQueueTimeoutTimerFire, networkVars
<1>9. CASE ConnectToFinished \/ SocketDisconnected \/ Crash
  BY <1>2, <1>9 DEF ConnectToFinished, SocketDisconnected, Crash,
     LoseVolatileState
<1>10. CASE UserStep \/ PeerStep
  BY <1>2, <1>10 DEF UserStep, PeerStep, SendMessage, DeleteMessage,
     SetupProtocolClient, Restart, ReceiveReceipt, networkVars
<1> QED
  BY <1>1, <1>3, <1>4, <1>5, <1>6, <1>7, <1>8, <1>9, <1>10 DEF Next

JustifiedReports == {r \in Report : Justified(r.op, r.msg)}

LEMMA JustificationStands ==
    ASSUME created \subseteq created', Taken \subseteq Taken'
    PROVE  JustifiedReports \subseteq JustifiedReports'
  BY DEF JustifiedReports, Justified

(* A step that brings no news from the server. *)
LEMMA NoNews ==
    ASSUME AnswersAreJustified, created \subseteq created', Taken' = Taken,
           sent' \subseteq Taken, UNCHANGED <<acks, reports>>
    PROVE  AnswersAreJustified'
<1>1. reports' \in Seq(JustifiedReports')
  BY JustificationStands, SeqMonotonic DEF AnswersAreJustified, JustifiedReports
<1>2. acks' \in Seq(Taken')
  BY DEF AnswersAreJustified
<1> QED
  BY <1>1, <1>2 DEF AnswersAreJustified, JustifiedReports

LEMMA LosingStateLosesReports ==
    ASSUME AnswersAreJustified, LoseVolatileState, created \subseteq created',
           sent' \subseteq Taken
    PROVE  AnswersAreJustified' /\ CallsAreJustified'
<1>1. /\ reports' \in Seq(JustifiedReports') /\ acks' \in Seq(Taken')
      /\ dbq' \in Seq(JustifiedCalls') /\ Len(dbq') = 0
  BY EmptySeq DEF LoseVolatileState
<1>2. Taken' = Taken
  BY DEF LoseVolatileState, Taken
<1>3. 1..Len(dbq') = {}
  BY <1>1
<1> QED
  BY <1>1, <1>2, <1>3 DEF AnswersAreJustified, CallsAreJustified,
     JustifiedReports

LEMMA PostReportIsJustified ==
    ASSUME AnswersAreJustified, NEW m \in Msgs, NEW op \in Results \cup Receipts,
           Justified(op, m), PostReport(m, op)
    PROVE  reports' \in Seq(JustifiedReports)
<1>1. [op |-> op, msg |-> m] \in JustifiedReports
  BY DEF JustifiedReports, Report
<1> QED
  BY <1>1, SeqAppend DEF AnswersAreJustified, PostReport, JustifiedReports

-----------------------------------------------------------------------------
(* Answers and reports.                                                    *)

LEMMA ClientReportsWhatItLearnt ==
    ASSUME TypeOK, OnlyStoredMessagesTravel, AnswersAreJustified,
           \/ ClientStep
           \/ \E m \in Msgs : UploadEnds(m) \/ AcknowledgmentTimeout(m)
           \/ PeerStep
    PROVE  AnswersAreJustified'
<1> USE DEF rowVars, networkVars
<1>1. UNCHANGED <<created, sent, accepted>>
  BY DEF ClientStep, SendPostedMessage, OutgoingMessagesTimerOnTimer,
     HandleIncomingAcknowledgment, UploadEnds, CallbackTaskSucceeded,
     CallbackTaskFailed, AcknowledgmentTimeout, PeerStep, ReceiveReceipt
<1>2. Taken' = Taken /\ JustifiedReports' = JustifiedReports
  BY <1>1 DEF Taken, JustifiedReports, Justified
<1>3. CASE UNCHANGED <<reports, acks>>
  BY <1>1, <1>2, <1>3, NoNews DEF AnswersAreJustified
<1>4. CASE HandleIncomingAcknowledgment
  <2>1. Head(acks) \in Taken /\ acks' \in Seq(Taken)
    BY <1>4, SeqTail DEF HandleIncomingAcknowledgment, AnswersAreJustified
  <2>2. Head(acks) \in Msgs /\ Justified("SENT", Head(acks))
    BY <2>1 DEF Taken, Justified, AnswersAreJustified
  <2>3. reports' \in Seq(JustifiedReports)
    <3>1. CASE UNCHANGED reports
      BY <3>1 DEF AnswersAreJustified, JustifiedReports
    <3>2. CASE PostReport(Head(acks), "SENT")
      BY <2>2, <3>2, PostReportIsJustified DEF Results
    <3> QED
      BY <1>4, <3>1, <3>2 DEF HandleIncomingAcknowledgment
  <2> QED
    BY <1>1, <1>2, <2>1, <2>3 DEF AnswersAreJustified, JustifiedReports
<1>5. ASSUME NEW m \in Msgs, NEW op \in Results \cup Receipts,
             Justified(op, m), PostReport(m, op), UNCHANGED acks
      PROVE  AnswersAreJustified'
  <2>1. reports' \in Seq(JustifiedReports)
    BY <1>5, PostReportIsJustified
  <2> QED
    BY <1>1, <1>2, <1>5, <2>1 DEF AnswersAreJustified, JustifiedReports
<1>6. ASSUME NEW m \in Msgs, CallbackTaskFailed(m) \/ AcknowledgmentTimeout(m)
      PROVE  AnswersAreJustified'
  <2>1. Justified("SENDFAILED", m)
    BY <1>6 DEF CallbackTaskFailed, AcknowledgmentTimeout, Justified,
       OnlyStoredMessagesTravel
  <2>2. PostReport(m, "SENDFAILED") \/ UNCHANGED reports
    BY <1>6 DEF CallbackTaskFailed, AcknowledgmentTimeout
  <2>3. UNCHANGED acks
    BY <1>6 DEF CallbackTaskFailed, AcknowledgmentTimeout
  <2> QED
    BY <1>3, <1>5, <2>1, <2>2, <2>3 DEF Results
<1>7. ASSUME NEW m \in Msgs, NEW receipt \in Receipts, ReceiveReceipt(m, receipt)
      PROVE  AnswersAreJustified'
  <2>1. Justified(receipt, m)
    BY <1>7 DEF ReceiveReceipt, Justified, Taken, AnswersAreJustified
  <2> QED
    BY <1>5, <1>7, <2>1 DEF ReceiveReceipt
<1>8. CASE SendPostedMessage \/ OutgoingMessagesTimerOnTimer
  BY <1>3, <1>8 DEF SendPostedMessage, OutgoingMessagesTimerOnTimer, centerVars
<1>9. ASSUME NEW m \in Msgs, CallbackTaskSucceeded(m)
      PROVE  AnswersAreJustified'
  BY <1>3, <1>9 DEF CallbackTaskSucceeded, centerVars
<1> QED
  BY <1>4, <1>6, <1>7, <1>8, <1>9 DEF ClientStep, UploadEnds, PeerStep

LEMMA ServerAnswersWhatItTakes ==
    ASSUME TypeOK, OnlyStoredMessagesTravel, AnswersAreJustified,
           ServerTakesPacket
    PROVE  AnswersAreJustified'
<1> DEFINE p == Head(wire)
<1>1. p \in StoredPackets
  BY SeqTail DEF ServerTakesPacket, OnlyStoredMessagesTravel
<1>2. p.msg \in created /\ p.msg \in Msgs /\ p.to \in Contacts
  BY <1>1 DEF StoredPackets, TypeOK
<1>3. UNCHANGED <<created, sent, reports>>
  BY DEF ServerTakesPacket, rowVars, centerVars
<1> HIDE DEF p
<1>4. CASE UNCHANGED <<accepted, acks>>
  BY <1>3, <1>4, NoNews DEF AnswersAreJustified, Taken
<1>5. CASE /\ accepted' = [accepted EXCEPT ![p.msg] = @ \cup {p.to}]
           /\ acks' = Append(acks, p.msg)
  <2>1. Taken' = Taken \cup {p.msg}
    BY <1>2, <1>5 DEF TypeOK, Taken
  <2>2. acks \in Seq(Taken') /\ p.msg \in Taken'
    BY <2>1, SeqMonotonic DEF AnswersAreJustified
  <2>3. acks' \in Seq(Taken')
    BY <1>5, <2>2, SeqAppend
  <2>4. reports' \in Seq(JustifiedReports')
    BY <1>3, <2>1, JustificationStands, SeqMonotonic
       DEF AnswersAreJustified, JustifiedReports
  <2> QED
    BY <1>2, <1>3, <2>1, <2>3, <2>4 DEF AnswersAreJustified, JustifiedReports
<1> QED
  BY <1>4, <1>5 DEF ServerTakesPacket, p

(* A row becomes "sent" by a report only, and the report is justified. *)
LEMMA DatabaseBelievesJustifiedReports ==
    ASSUME TypeOK, ReportsAreJustified, DatabaseStep,
           created \subseteq created', Taken \subseteq Taken'
    PROVE  AnswersAreJustified'
<1> USE DEF ReportsAreJustified
<1>1. /\ UNCHANGED <<acks, reports, accepted>>
      \/ LoseVolatileState
  BY DEF DatabaseStep, StoreSent, StoreResult, StoreReceipt, centerVars,
     networkVars, SendAllWaitingMessages, SendAllWaitingMessagesThrows
<1>2. sent' \subseteq Taken
  <2>1. CASE StoreSent
    BY <2>1 DEF StoreSent, AnswersAreJustified
  <2>2. ASSUME NEW op \in Results \cup Receipts,
               StoreResult(op) \/ StoreReceipt(op)
        PROVE  sent' \subseteq Taken
    <3>1. dbq \in Seq(JustifiedCalls) /\ dbq # <<>> /\ Head(dbq).op = op
      BY <2>2 DEF CallsAreJustified, StoreResult, StoreReceipt, HandleCall
    <3>2. Justified(op, Head(dbq).msg)
      BY <3>1, SeqTail DEF JustifiedCalls
    <3>3. sent' \subseteq sent \cup (IF op = "SENDFAILED" THEN {}
                                     ELSE {Head(dbq).msg})
      BY <2>2, ReportKeepsOrSetsState DEF SetMessageState, rowVars
    <3> QED
      BY <3>2, <3>3 DEF AnswersAreJustified, Justified
  <2>3. CASE SendAllWaitingMessages \/ SendAllWaitingMessagesThrows
    BY <2>3, ResendLoopQueuesUnsentRows DEF SetIsQueued, AnswersAreJustified
  <2> QED
    BY <2>1, <2>2, <2>3 DEF DatabaseStep
<1>3. CASE UNCHANGED <<acks, reports, accepted>>
  BY <1>2, <1>3, NoNews DEF Taken
<1>4. CASE LoseVolatileState
  BY <1>2, <1>4, LosingStateLosesReports
<1> QED
  BY <1>1, <1>3, <1>4

LEMMA OtherStepsBringNoNews ==
    ASSUME TypeOK, AnswersAreJustified, created \subseteq created',
           \/ UNCHANGED vars
           \/ CenterStep
           \/ \E old \in SUBSET queued : OnQueueTimeoutTimerFire(old)
           \/ ConnectToFinished \/ SocketDisconnected \/ UserStep \/ Crash
    PROVE  AnswersAreJustified'
<1> USE DEF rowVars, centerVars, networkVars
<1>1. CASE UNCHANGED vars
  BY <1>1, NoNews DEF AnswersAreJustified, vars, Taken
<1>2. CASE /\ UNCHANGED <<acks, reports, accepted>>
           /\ sent' \subseteq sent
  BY <1>2, NoNews DEF AnswersAreJustified, Taken
<1>3. CASE ProcessReport
  <2>1. reports' \in Seq(JustifiedReports)
    BY <1>3, SeqTail DEF ProcessReport, AnswersAreJustified, JustifiedReports
  <2>2. UNCHANGED <<created, sent, acks, accepted>>
    BY <1>3 DEF ProcessReport
  <2>3. Taken' = Taken /\ JustifiedReports' = JustifiedReports
    BY <2>2 DEF Taken, JustifiedReports, Justified
  <2> QED
    BY <2>1, <2>2, <2>3 DEF AnswersAreJustified, JustifiedReports
<1>4. CASE \/ ProcessSentMessage \/ TryResendingMessagesToNetwork
           \/ SetNetworkSentMessageAcceptor
  BY <1>2, <1>4 DEF ProcessSentMessage, TryResendingMessagesToNetwork,
     SetNetworkSentMessageAcceptor
<1>5. ASSUME NEW old, OnQueueTimeoutTimerFire(old)
      PROVE  AnswersAreJustified'
  <2>1. sent' \subseteq sent
    BY <1>5, QueueTimerResetsUnsentRows DEF SetIsQueued
  <2> QED
    BY <1>2, <1>5, <2>1 DEF OnQueueTimeoutTimerFire
<1>6. CASE ConnectToFinished
  BY <1>2, <1>6 DEF ConnectToFinished
<1>7. CASE SocketDisconnected
  <2>1. acks' \in Seq(Taken)
    BY <1>7, EmptySeq DEF SocketDisconnected
  <2>2. UNCHANGED <<created, sent, reports, accepted>>
    BY <1>7 DEF SocketDisconnected
  <2>3. Taken' = Taken /\ JustifiedReports' = JustifiedReports
    BY <2>2 DEF Taken, JustifiedReports, Justified
  <2> QED
    BY <2>1, <2>2, <2>3 DEF AnswersAreJustified, JustifiedReports
<1>8. CASE UserStep
  BY <1>2, <1>8 DEF UserStep, SendMessage, DeleteMessage, SetupProtocolClient,
     Restart
<1>9. CASE Crash
  BY <1>9, LosingStateLosesReports DEF Crash, AnswersAreJustified
<1> QED
  BY <1>1, <1>3, <1>4, <1>5, <1>6, <1>7, <1>8, <1>9 DEF CenterStep

LEMMA StepKeepsAnswersJustified ==
    ASSUME TypeOK, OnlyStoredMessagesTravel, ReportsAreJustified, [Next]_vars
    PROVE  AnswersAreJustified'
<1>1. created \subseteq created' /\ Taken \subseteq Taken'
  BY CreatedGrows, TakenGrows
<1> QED
  BY <1>1, ClientReportsWhatItLearnt, ServerAnswersWhatItTakes,
     DatabaseBelievesJustifiedReports, OtherStepsBringNoNews
     DEF Next, ReportsAreJustified

-----------------------------------------------------------------------------
(* The calls that wait for the database.                                   *)

(* A step that makes no call and stores nothing. *)
LEMMA NoNewCall ==
    ASSUME CallsAreJustified, Taken \subseteq Taken',
           UNCHANGED <<dbq, pending, created>>
    PROVE  CallsAreJustified'
<1>1. JustifiedCalls \subseteq JustifiedCalls'
  BY DEF JustifiedCalls, Justified
<1> QED
  BY <1>1, SeqMonotonic DEF CallsAreJustified

(* A call that is not a store call joins the queue. *)
LEMMA PostedCall ==
    ASSUME CallsAreJustified, NEW c \in JustifiedCalls, c.op # "store",
           dbq' = Append(dbq, c), UNCHANGED <<pending, created, accepted>>
    PROVE  CallsAreJustified'
<1>1. JustifiedCalls' = JustifiedCalls
  BY DEF JustifiedCalls, Justified, Taken
<1>2. /\ dbq' \in Seq(JustifiedCalls) /\ Len(dbq) \in Nat
      /\ Len(dbq') = Len(dbq) + 1
      /\ \A i \in 1..Len(dbq) : dbq'[i] = dbq[i]
      /\ dbq'[Len(dbq) + 1] = c
  BY AppendProperties, LenProperties DEF CallsAreJustified
<1>3. \A i \in 1..Len(dbq') : dbq'[i].op = "store"
          => i \in 1..Len(dbq) /\ dbq[i].op = "store"
  BY <1>2
<1> QED
  BY <1>1, <1>2, <1>3 DEF CallsAreJustified

(* The head of the queue is done, and it stored nothing. *)
LEMMA HandledCall ==
    ASSUME CallsAreJustified, dbq # <<>>, dbq' = Tail(dbq),
           UNCHANGED <<pending, created, accepted>>
    PROVE  CallsAreJustified'
<1>1. JustifiedCalls' = JustifiedCalls
  BY DEF JustifiedCalls, Justified, Taken
<1>2. /\ dbq' \in Seq(JustifiedCalls) /\ Len(dbq) \in Nat
      /\ Len(dbq') = Len(dbq) - 1
      /\ \A i \in 1..Len(dbq') : dbq'[i] = dbq[i + 1]
  BY HeadTailProperties, LenProperties DEF CallsAreJustified
<1>3. \A i \in 1..Len(dbq') : i + 1 \in 1..Len(dbq)
  BY <1>2
<1>4. \A i, j \in 1..Len(dbq') :
          dbq'[i].op = "store" /\ dbq'[j].op = "store" => i = j
  <2> SUFFICES ASSUME NEW i \in 1..Len(dbq'), NEW j \in 1..Len(dbq'),
                      dbq'[i].op = "store", dbq'[j].op = "store"
               PROVE  i = j
    OBVIOUS
  <2>1. i + 1 = j + 1
    BY <1>2, <1>3 DEF CallsAreJustified
  <2> QED
    BY <1>2, <2>1
<1> QED
  BY <1>1, <1>2, <1>4 DEF CallsAreJustified

(* While the message center waits for no store call there is none. *)
LEMMA NoStoreCall ==
    ASSUME CallsAreJustified, pending \in created \/ pending \notin Msgs
    PROVE  \A i \in 1..Len(dbq) : dbq[i] \in Call /\ dbq[i].op # "store"
<1> SUFFICES ASSUME NEW i \in 1..Len(dbq)
             PROVE  dbq[i] \in Call /\ dbq[i].op # "store"
  OBVIOUS
<1>1. dbq[i] \in JustifiedCalls
  BY ElementOfSeq DEF CallsAreJustified
<1>2. dbq[i].op = "store" => dbq[i].msg \in Msgs
  BY <1>1 DEF JustifiedCalls, Call
<1> QED
  BY <1>1, <1>2 DEF JustifiedCalls

LEMMA CenterMakesJustifiedCalls ==
    ASSUME AnswersAreJustified, CallsAreJustified, CenterStep
    PROVE  CallsAreJustified'
<1> USE DEF rowVars, networkVars
<1>1. CASE ProcessSentMessage
  <2>1. \A i \in 1..Len(dbq) : dbq[i] \in Call /\ dbq[i].op # "store"
    BY <1>1, NoStoreCall DEF ProcessSentMessage
  <2>2. UNCHANGED <<created, accepted, dbq>>
    BY <1>1 DEF ProcessSentMessage
  <2>3. \A i \in 1..Len(dbq) : dbq[i] \in JustifiedCalls'
    <3> SUFFICES ASSUME NEW i \in 1..Len(dbq)
                 PROVE  dbq[i] \in JustifiedCalls'
      OBVIOUS
    <3>1. dbq[i] \in JustifiedCalls
      BY ElementOfSeq DEF CallsAreJustified
    <3> QED
      BY <2>1, <2>2, <3>1 DEF JustifiedCalls, Justified, Taken
  <2>4. dbq \in Seq(JustifiedCalls')
    BY <2>3, SeqOfElements DEF CallsAreJustified
  <2> QED
    BY <2>2, <2>4 DEF CallsAreJustified
<1>2. CASE TryResendingMessagesToNetwork \/ SetNetworkSentMessageAcceptor
  <2>1. DrainCall \in JustifiedCalls /\ DrainCall.op # "store"
    BY DEF DrainCall, JustifiedCalls, Call, Results, Receipts
  <2>2. UNCHANGED <<pending, created, accepted>>
    BY <1>2 DEF TryResendingMessagesToNetwork, SetNetworkSentMessageAcceptor
  <2>3. dbq' = Append(dbq, DrainCall) \/ UNCHANGED dbq
    BY <1>2 DEF TryResendingMessagesToNetwork, SetNetworkSentMessageAcceptor
  <2>4. Taken' = Taken
    BY <2>2 DEF Taken
  <2> QED
    BY <2>1, <2>2, <2>3, <2>4, PostedCall, NoNewCall
<1>3. CASE ProcessReport
  <2> DEFINE r == Head(reports)
             c == [op |-> r.op, msg |-> r.msg, live |-> TRUE]
  <2>1. r \in Report /\ Justified(r.op, r.msg)
    BY <1>3, SeqTail DEF ProcessReport, AnswersAreJustified
  <2>2. c \in JustifiedCalls /\ c.op # "store"
    BY <2>1 DEF JustifiedCalls, Report, Call, Results, Receipts
  <2>3. dbq' = Append(dbq, c) /\ UNCHANGED <<pending, created, accepted>>
    BY <1>3 DEF ProcessReport
  <2> QED
    BY <2>2, <2>3, PostedCall
<1> QED
  BY <1>1, <1>2, <1>3 DEF CenterStep

LEMMA SendMessageMakesOneStoreCall ==
    ASSUME CallsAreJustified, NEW m \in Msgs, SendMessage(m),
           IsConnected \in BOOLEAN
    PROVE  CallsAreJustified'
<1> DEFINE c == [op |-> "store", msg |-> m, live |-> IsConnected]
<1>1. \A i \in 1..Len(dbq) : dbq[i] \in Call /\ dbq[i].op # "store"
  BY NoStoreCall, OutboxAssumption DEF SendMessage
<1>2. UNCHANGED <<created, accepted>>
  BY DEF SendMessage, rowVars, networkVars
<1>3. c \in JustifiedCalls'
  BY <1>2 DEF SendMessage, JustifiedCalls, Call, Results, Receipts
<1>4. \A i \in 1..Len(dbq) : dbq[i] \in JustifiedCalls'
  <2> SUFFICES ASSUME NEW i \in 1..Len(dbq)
               PROVE  dbq[i] \in JustifiedCalls'
    OBVIOUS
  <2>1. dbq[i] \in JustifiedCalls
    BY ElementOfSeq DEF CallsAreJustified
  <2> QED
    BY <1>1, <1>2, <2>1 DEF JustifiedCalls, Justified, Taken
<1>5. dbq \in Seq(JustifiedCalls') /\ Len(dbq) \in Nat
  BY <1>4, SeqOfElements, LenProperties DEF CallsAreJustified
<1>6. dbq' = Append(dbq, c)
  BY DEF SendMessage
<1> HIDE DEF c
<1>7. /\ dbq' \in Seq(JustifiedCalls') /\ Len(dbq') = Len(dbq) + 1
      /\ \A i \in 1..Len(dbq) : dbq'[i] = dbq[i]
  BY <1>3, <1>5, <1>6, AppendProperties
<1>8. \A i \in 1..Len(dbq') : dbq'[i].op = "store" => i = Len(dbq) + 1
  BY <1>1, <1>5, <1>7
<1> QED
  BY <1>7, <1>8 DEF CallsAreJustified

LEMMA DatabaseWorksOffJustifiedCalls ==
    ASSUME TypeOK, CallsAreJustified, DatabaseStep,
           LoseVolatileState => CallsAreJustified'
    PROVE  CallsAreJustified'
<1> USE DEF rowVars, centerVars, networkVars
<1>1. CASE StoreSent
  <2> DEFINE m == Head(dbq).msg
  <2>1. /\ created' = created \cup {m} /\ dbq' = Tail(dbq)
        /\ UNCHANGED <<pending, accepted>>
        /\ dbq # <<>> /\ Head(dbq).op = "store"
    BY <1>1 DEF StoreSent, HandleCall
  <2>2. /\ dbq' \in Seq(JustifiedCalls) /\ Len(dbq) \in Nat \ {0}
        /\ Len(dbq') = Len(dbq) - 1
        /\ \A i \in 1..Len(dbq') : dbq'[i] = dbq[i + 1]
    BY <2>1, HeadTailProperties, EmptySeq DEF CallsAreJustified
  <2>3. dbq[1].op = "store"
    BY <2>1, <2>2
  <2>4. \A i \in 1..Len(dbq') : dbq'[i].op # "store"
    <3> SUFFICES ASSUME NEW i \in 1..Len(dbq'), dbq'[i].op = "store"
                 PROVE  FALSE
      OBVIOUS
    <3>1. i + 1 \in 1..Len(dbq) /\ 1 \in 1..Len(dbq) /\ i + 1 # 1
      BY <2>2
    <3>2. dbq[i + 1].op = "store"
      BY <2>2
    <3> QED
      BY <2>3, <3>1, <3>2 DEF CallsAreJustified
  <2>5. \A i \in 1..Len(dbq') : dbq'[i] \in JustifiedCalls'
    <3> SUFFICES ASSUME NEW i \in 1..Len(dbq')
                 PROVE  dbq'[i] \in JustifiedCalls'
      OBVIOUS
    <3>1. dbq'[i] \in JustifiedCalls
      BY <2>2, ElementOfSeq
    <3> QED
      BY <2>1, <2>4, <3>1 DEF JustifiedCalls, Justified, Taken
  <2>6. dbq' \in Seq(JustifiedCalls')
    BY <2>2, <2>5, SeqOfElements
  <2> QED
    BY <2>4, <2>6 DEF CallsAreJustified
<1>2. CASE /\ dbq # <<>> /\ dbq' = Tail(dbq)
           /\ UNCHANGED <<pending, created, accepted>>
  BY <1>2, HandledCall
<1>3. ASSUME NEW op \in Results \cup Receipts, StoreResult(op) \/ StoreReceipt(op)
      PROVE  CallsAreJustified'
  <2>1. CASE LoseVolatileState
    BY <2>1
  <2>2. UNCHANGED created
    BY <1>3, ReportKeepsOrSetsState DEF SetMessageState
  <2>3. CASE UNCHANGED <<centerVars, networkVars>>
    BY <1>2, <1>3, <2>1, <2>2, <2>3 DEF StoreResult, StoreReceipt, HandleCall
  <2> QED
    BY <1>3, <2>1, <2>3 DEF StoreResult, StoreReceipt
<1>4. CASE SendAllWaitingMessages
  BY <1>2, <1>4 DEF SendAllWaitingMessages, HandleCall, SetIsQueued
<1>5. CASE SendAllWaitingMessagesThrows
  BY <1>5 DEF SendAllWaitingMessagesThrows
<1> QED
  BY <1>1, <1>3, <1>4, <1>5 DEF DatabaseStep

LEMMA SetupKeepsCallsJustified ==
    ASSUME CallsAreJustified, SetupProtocolClient
    PROVE  CallsAreJustified'
<1>1. UNCHANGED <<pending, created, accepted>>
  BY DEF SetupProtocolClient, rowVars, networkVars
<1>2. JustifiedCalls' = JustifiedCalls
  BY <1>1 DEF JustifiedCalls, Justified, Taken
<1>3. /\ Len(dbq) \in Nat /\ DOMAIN dbq = 1..Len(dbq)
      /\ dbq \in [1..Len(dbq) -> JustifiedCalls]
  BY LenProperties DEF CallsAreJustified
<1>4. \A c \in JustifiedCalls : c.op = "drain"
          => /\ [c EXCEPT !.live = FALSE] \in JustifiedCalls
             /\ [c EXCEPT !.live = FALSE].op = "drain"
  BY DEF JustifiedCalls, Call, Results, Receipts
<1>5. dbq' \in [1..Len(dbq) -> JustifiedCalls]
  BY <1>3, <1>4 DEF SetupProtocolClient
<1>6. dbq' \in Seq(JustifiedCalls) /\ Len(dbq') = Len(dbq)
  BY <1>3, <1>5, SeqOfFunction, LenProperties
<1>7. \A i \in 1..Len(dbq) : dbq'[i].op = dbq[i].op
  BY <1>3, <1>4 DEF SetupProtocolClient
<1> QED
  BY <1>2, <1>6, <1>7 DEF CallsAreJustified

LEMMA StepKeepsCallsJustified ==
    ASSUME TypeOK, ReportsAreJustified, [Next]_vars, AnswersAreJustified'
    PROVE  CallsAreJustified'
<1>1. Taken \subseteq Taken' /\ created \subseteq created'
  BY TakenGrows, CreatedGrows
<1>2. CASE LoseVolatileState
  <2>1. Len(dbq') = 0 /\ dbq' \in Seq(JustifiedCalls')
    BY <1>2, EmptySeq DEF LoseVolatileState
  <2>2. 1..Len(dbq') = {}
    BY <2>1
  <2> QED
    BY <2>1, <2>2 DEF CallsAreJustified
<1>3. CASE UNCHANGED <<dbq, pending, created>>
  BY <1>1, <1>3, NoNewCall DEF ReportsAreJustified
<1>4. CASE CenterStep
  BY <1>4, CenterMakesJustifiedCalls DEF ReportsAreJustified
<1>5. CASE DatabaseStep
  BY <1>2, <1>5, DatabaseWorksOffJustifiedCalls DEF ReportsAreJustified
<1>6. ASSUME NEW m \in Msgs, SendMessage(m)
      PROVE  CallsAreJustified'
  <2>1. IsConnected \in BOOLEAN
    BY DEF TypeOK, IsConnected
  <2> QED
    BY <1>6, <2>1, SendMessageMakesOneStoreCall DEF ReportsAreJustified
<1>7. CASE SetupProtocolClient
  BY <1>7, SetupKeepsCallsJustified DEF ReportsAreJustified
<1>8. CASE Crash
  BY <1>2, <1>8 DEF Crash
<1>9. CASE UNCHANGED vars
  BY <1>3, <1>9 DEF vars, centerVars, rowVars
<1>10. CASE \/ ClientStep \/ PeerStep
            \/ \E m \in Msgs : UploadEnds(m) \/ AcknowledgmentTimeout(m)
  BY <1>3, <1>10 DEF ClientStep, SendPostedMessage, ReceiveReceipt, PeerStep,
     OutgoingMessagesTimerOnTimer, HandleIncomingAcknowledgment, UploadEnds,
     CallbackTaskSucceeded, CallbackTaskFailed, AcknowledgmentTimeout, rowVars,
     centerVars, NonReportVars
<1>11. CASE \/ ServerTakesPacket \/ ConnectToFinished \/ SocketDisconnected
            \/ Restart
  BY <1>3, <1>11 DEF ServerTakesPacket, ConnectToFinished, SocketDisconnected,
     Restart, rowVars, centerVars
<1>12. ASSUME NEW old, OnQueueTimeoutTimerFire(old)
       PROVE  CallsAreJustified'
  BY <1>3, <1>12, QueueTimerResetsUnsentRows DEF SetIsQueued,
     OnQueueTimeoutTimerFire
<1>13. ASSUME NEW m \in Msgs, DeleteMessage(m)
       PROVE  CallsAreJustified'
  BY <1>3, <1>13 DEF DeleteMessage, centerVars
<1> QED
  BY <1>4, <1>5, <1>6, <1>7, <1>8, <1>9, <1>10, <1>11, <1>12, <1>13
     DEF Next, UserStep

-----------------------------------------------------------------------------

LEMMA InitIsJustified == Init => ReportsAreJustified
<1> SUFFICES ASSUME Init
             PROVE  ReportsAreJustified
  OBVIOUS
<1>1. Taken = {} /\ sent = {}
  BY DEF Init, Taken
<1>2. /\ acks \in Seq(Taken) /\ dbq \in Seq(JustifiedCalls) /\ Len(dbq) = 0
      /\ reports \in Seq({r \in Report : Justified(r.op, r.msg)})
  BY EmptySeq DEF Init
<1>3. 1..Len(dbq) = {}
  BY <1>2
<1> QED
  BY <1>1, <1>2, <1>3 DEF ReportsAreJustified, AnswersAreJustified,
     CallsAreJustified

(* Whatever says that a message was sent (an answer on its way, a report,  *)
(* a call that waits for the database, a row) refers to a message the      *)
(* server took; and no row is ever stored twice.                           *)
THEOREM ReportsAlwaysJustified == Spec => []ReportsAreJustified
<1>1. /\ TypeOK /\ OnlyStoredMessagesTravel /\ ReportsAreJustified
      /\ [Next]_vars
      => ReportsAreJustified'
  BY StepKeepsAnswersJustified, StepKeepsCallsJustified DEF ReportsAreJustified
<1> QED
  BY <1>1, InitIsJustified, NothingUnstoredTravels, TypeCorrect, PTL DEF Spec

-----------------------------------------------------------------------------
(* "Sent" is final.                                                        *)

LEMMA ReportsNeverTakeBack ==
    ASSUME TypeOK, RowConsistent, NEW m \in present,
           NEW new \in Results \cup Receipts, SetMessageState(m, new),
           NEW n \in sent, n \in present'
    PROVE  n \in sent' /\ StageOf[state'[n]] >= StageOf[state[n]]
<1>1. state[n] \in SentStates /\ n \in Msgs /\ n \in present
  BY DEF RowConsistent, TypeOK
<1>2. StageOf[state[n]] \in Nat
  BY <1>1 DEF SentStates, Receipts, StageOf
<1>3. CASE UNCHANGED rowVars
  BY <1>2, <1>3 DEF rowVars
<1>4. CASE /\ CanSwitchTo(state[m], new)
           /\ state' = [state EXCEPT ![m] = new]
           /\ sent' = IF new = "SENDFAILED" THEN sent ELSE sent \cup {m}
  <2>1. CASE n # m
    BY <1>1, <1>2, <1>4, <2>1 DEF TypeOK
  <2>2. CASE n = m
    <3>1. state'[n] = new
      BY <1>1, <1>4, <2>2 DEF TypeOK
    <3>2. StageOf[new] >= StageOf[state[n]]
      BY <1>1, <1>4, <2>2 DEF CanSwitchTo, SentStates, Receipts, Results, StageOf
    <3> QED
      BY <1>4, <3>1, <3>2
  <2> QED
    BY <2>1, <2>2
<1> QED
  BY <1>3, <1>4 DEF SetMessageState

(* The action of SentIsFinal. *)
KeepsSent == \A m \in sent \cap present' :
                /\ m \in sent'
                /\ StageOf[state'[m]] >= StageOf[state[m]]

LEMMA StepKeepsSent ==
    TypeOK /\ RowConsistent /\ CallsAreJustified /\ [Next]_vars => KeepsSent
<1> SUFFICES ASSUME TypeOK, RowConsistent, CallsAreJustified, [Next]_vars,
                    NEW m \in sent, m \in present'
             PROVE  m \in sent' /\ StageOf[state'[m]] >= StageOf[state[m]]
  BY DEF KeepsSent
<1>1. m \in present /\ m \in Msgs /\ state[m] \in SentStates
  BY DEF RowConsistent, TypeOK
<1>2. StageOf[state[m]] \in Nat
  BY <1>1 DEF SentStates, Receipts, StageOf
<1>3. CASE StoreSent
  <2>1. dbq \in Seq(JustifiedCalls) /\ dbq # <<>> /\ Head(dbq).op = "store"
    BY <1>3 DEF CallsAreJustified, StoreSent, HandleCall
  <2>2. Head(dbq).msg \notin created
    BY <2>1, SeqTail DEF JustifiedCalls
  <2>3. m # Head(dbq).msg
    BY <1>1, <2>2 DEF RowConsistent
  <2> QED
    BY <1>1, <1>2, <1>3, <2>3 DEF StoreSent, TypeOK
<1>4. ASSUME NEW op \in Results \cup Receipts, StoreResult(op) \/ StoreReceipt(op)
      PROVE  m \in sent' /\ StageOf[state'[m]] >= StageOf[state[m]]
  BY <1>2, <1>4, ReportKeepsOrSetsState, ReportsNeverTakeBack DEF rowVars
<1>5. CASE SendAllWaitingMessages \/ SendAllWaitingMessagesThrows
  BY <1>2, <1>5, ResendLoopQueuesUnsentRows DEF SetIsQueued
<1>6. ASSUME NEW old, OnQueueTimeoutTimerFire(old)
      PROVE  m \in sent' /\ StageOf[state'[m]] >= StageOf[state[m]]
  BY <1>2, <1>6, QueueTimerResetsUnsentRows DEF SetIsQueued
<1>7. ASSUME NEW n \in Msgs, DeleteMessage(n)
      PROVE  m \in sent' /\ StageOf[state'[m]] >= StageOf[state[m]]
  BY <1>2, <1>7 DEF DeleteMessage
<1>8. CASE UNCHANGED rowVars
  BY <1>2, <1>8 DEF rowVars
<1> QED
  BY <1>3, <1>4, <1>5, <1>6, <1>7, <1>8, RowsAreTheDatabases DEF DatabaseStep

(* A row that is shown as sent is never taken back to an earlier stage,    *)
(* neither by a late failure report nor by the queue timer, a resend loop  *)
(* or a store call.                                                        *)
THEOREM SentStays == Spec => SentIsFinal
<1>1. TypeOK /\ RowConsistent /\ ReportsAreJustified /\ [Next]_vars
        => [KeepsSent]_vars
  BY StepKeepsSent DEF ReportsAreJustified
<1>2. Spec => [][KeepsSent]_vars
  BY <1>1, TypeCorrect, RowsAreConsistent, ReportsAlwaysJustified, PTL DEF Spec
<1> QED
  BY <1>2 DEF SentIsFinal, KeepsSent

-----------------------------------------------------------------------------
(* How the stage of a message reads off the row sets. *)
LEMMA StatusOfRow ==
    ASSUME RowConsistent, NEW m \in Msgs
    PROVE  /\ Status(m) = "absent" <=> m \notin created
           /\ Status(m) = "deleted" <=> m \in created \ present
           /\ Status(m) = "sent" <=> m \in sent
           /\ Status(m) = "queued" <=> m \in queued \ sent
           /\ Status(m) = "stored" <=> m \in present \ queued
<1>1. sent \subseteq queued /\ queued \subseteq present /\ present \subseteq created
  BY DEF RowConsistent
<1>2. CASE m \notin created
  BY <1>1, <1>2 DEF Status
<1>3. CASE m \in created \ present
  BY <1>1, <1>3 DEF Status
<1>4. CASE m \in sent
  BY <1>1, <1>4 DEF Status
<1>5. CASE m \in queued \ sent
  BY <1>1, <1>5 DEF Status
<1>6. CASE m \in present \ queued
  BY <1>1, <1>6 DEF Status
<1> QED
  BY <1>2, <1>3, <1>4, <1>5, <1>6

LEMMA StatusOfNextRow ==
    ASSUME RowConsistent', NEW m \in Msgs
    PROVE  /\ Status(m)' = "absent" <=> m \notin created'
           /\ Status(m)' = "deleted" <=> m \in created' \ present'
           /\ Status(m)' = "sent" <=> m \in sent'
           /\ Status(m)' = "queued" <=> m \in queued' \ sent'
           /\ Status(m)' = "stored" <=> m \in present' \ queued'
<1>1. /\ sent' \subseteq queued' /\ queued' \subseteq present'
      /\ present' \subseteq created'
  BY DEF RowConsistent
<1>2. CASE m \notin created'
  BY <1>1, <1>2 DEF Status
<1>3. CASE m \in created' \ present'
  BY <1>1, <1>3 DEF Status
<1>4. CASE m \in sent'
  BY <1>1, <1>4 DEF Status
<1>5. CASE m \in queued' \ sent'
  BY <1>1, <1>5 DEF Status
<1>6. CASE m \in present' \ queued'
  BY <1>1, <1>6 DEF Status
<1> QED
  BY <1>2, <1>3, <1>4, <1>5, <1>6

(* A message whose place in the row sets did not change keeps its stage. *)
LEMMA SameRowSameStatus ==
    ASSUME RowConsistent, RowConsistent', NEW m \in Msgs,
           m \in created' <=> m \in created, m \in present' <=> m \in present,
           m \in queued' <=> m \in queued, m \in sent' <=> m \in sent
    PROVE  Status(m)' = Status(m)
  BY DEF Status

(* A step of the abstract specification, from what it does to each stage. *)
LEMMA MoveFromStages ==
    ASSUME NEW S \in SUBSET Msgs, NEW from, NEW to,
           \A m \in S : Status(m) = from /\ Status(m)' = to,
           \A m \in Msgs \ S : Status(m)' = Status(m),
           Taken' = Taken
    PROVE  D!Move(S, from, to)
  BY DEF D!Move

LEMMA Stutter ==
    ASSUME \A m \in Msgs : Status(m)' = Status(m), Taken' = Taken
    PROVE  UNCHANGED D!vars
  BY DEF D!vars

LEMMA SameRowsStutter ==
    ASSUME UNCHANGED rowVars, UNCHANGED accepted
    PROVE  UNCHANGED D!vars
<1>1. \A m \in Msgs : Status(m)' = Status(m)
  BY DEF Status, rowVars
<1>2. Taken' = Taken
  BY DEF Taken
<1> QED
  BY <1>1, <1>2, Stutter

-----------------------------------------------------------------------------
(* One lemma per way in which a row changes.                               *)

LEMMA StoreSentIsStore ==
    ASSUME TypeOK, RowConsistent, RowConsistent', CallsAreJustified, StoreSent
    PROVE  D!Next
<1>1. PICK m \in Msgs : m = Head(dbq).msg
  BY HeadCall DEF StoreSent
<1>2. m \notin created
  BY <1>1, SeqTail DEF StoreSent, HandleCall, CallsAreJustified, JustifiedCalls
<1>3. /\ created' = created \cup {m} /\ present' = present \cup {m}
      /\ sent' = sent \ {m}
      /\ queued' = queued \cup {m} \/ queued' = queued \ {m}
      /\ UNCHANGED accepted
  BY <1>1 DEF StoreSent, networkVars
<1>4. Status(m) = "absent" /\ Status(m)' \in {"stored", "queued"}
  BY <1>1, <1>2, <1>3, StatusOfRow, StatusOfNextRow
<1>5. \A n \in Msgs \ {m} : Status(n)' = Status(n)
  BY <1>3, SameRowSameStatus
<1>6. Taken' = Taken
  BY <1>3 DEF Taken
<1>7. \E to \in {"stored", "queued"} : D!Move({m}, "absent", to)
  <2>1. {m} \in SUBSET Msgs
    BY <1>1
  <2>2. \A n \in {m} : Status(n) = "absent" /\ Status(n)' = Status(m)'
    BY <1>4
  <2>3. D!Move({m}, "absent", Status(m)')
    BY <1>5, <1>6, <2>1, <2>2, MoveFromStages
  <2> QED
    BY <1>4, <2>3
<1> QED
  BY <1>1, <1>7 DEF D!Next, D!Store

LEMMA ReportIsConfirmOrRequeue ==
    ASSUME RowConsistent, RowConsistent', TypeOK, UNCHANGED accepted,
           NEW m \in present, NEW op \in Results \cup Receipts,
           Justified(op, m), SetMessageState(m, op)
    PROVE  D!Next \/ UNCHANGED D!vars
<1>1. m \in Msgs /\ Taken' = Taken
  BY DEF TypeOK, Taken
<1>2. CASE UNCHANGED rowVars
  BY <1>2, SameRowsStutter
<1>3. CASE /\ CanSwitchTo(state[m], op)
           /\ queued' = IF op = "SENDFAILED" THEN queued \ {m}
                        ELSE queued \cup {m}
           /\ sent' = IF op = "SENDFAILED" THEN sent ELSE sent \cup {m}
           /\ UNCHANGED <<created, present>>
  <2>1. \A n \in Msgs \ {m} : Status(n)' = Status(n)
    BY <1>3, SameRowSameStatus
  <2>2. CASE op = "SENDFAILED"
    <3>1. m \notin sent
      BY <1>3, <2>2 DEF CanSwitchTo, RowConsistent, SentStates, Receipts
    <3>2. Status(m)' = "stored"
      BY <1>1, <1>3, <2>2, StatusOfNextRow
    <3>3. CASE m \in queued
      <4>1. Status(m) = "queued"
        BY <1>1, <3>1, <3>3, StatusOfRow
      <4>2. D!Move({m}, "queued", "stored")
        BY <1>1, <2>1, <3>2, <4>1, MoveFromStages
      <4> QED
        BY <1>1, <4>2 DEF D!Next, D!Requeue
    <3>4. CASE m \notin queued
      <4>1. Status(m) = "stored"
        BY <1>1, <3>4, StatusOfRow
      <4> QED
        BY <1>1, <2>1, <3>2, <4>1, Stutter
    <3> QED
      BY <3>3, <3>4
  <2>3. CASE op # "SENDFAILED"
    <3>1. m \in Taken
      BY <2>3 DEF Justified
    <3>2. Status(m)' = "sent"
      BY <1>1, <1>3, <2>3, StatusOfNextRow
    <3>3. CASE m \in sent
      <4>1. Status(m) = "sent"
        BY <1>1, <3>3, StatusOfRow
      <4> QED
        BY <1>1, <2>1, <3>2, <4>1, Stutter
    <3>4. CASE m \notin sent
      <4>1. Status(m) \in {"stored", "queued"}
        BY <1>1, <3>4, StatusOfRow
      <4>2. D!Move({m}, Status(m), "sent")
        BY <1>1, <2>1, <3>2, MoveFromStages
      <4>3. D!Confirm(m)
        BY <3>1, <4>1, <4>2 DEF D!Confirm
      <4> QED
        BY <1>1, <4>3 DEF D!Next
    <3> QED
      BY <3>3, <3>4
  <2> QED
    BY <2>2, <2>3
<1> QED
  BY <1>2, <1>3 DEF SetMessageState

LEMMA ResendLoopIsEnqueue ==
    ASSUME TypeOK, RowConsistent, RowConsistent', UNCHANGED accepted,
           NEW S \in SUBSET Unsent, SetIsQueued(S, TRUE)
    PROVE  D!Next
<1>1. S \in SUBSET Msgs /\ Taken' = Taken
  BY DEF TypeOK, Unsent, Taken
<1>2. queued' = queued \cup S /\ UNCHANGED <<created, present, sent>>
  BY DEF SetIsQueued
<1>3. \A m \in S : m \in present \ queued /\ m \notin sent
  BY DEF Unsent
<1>4. \A m \in S : Status(m) = "stored" /\ Status(m)' = "queued"
  BY <1>1, <1>2, <1>3, StatusOfRow, StatusOfNextRow
<1>5. \A m \in Msgs \ S : Status(m)' = Status(m)
  BY <1>2, SameRowSameStatus
<1> QED
  BY <1>1, <1>4, <1>5, MoveFromStages DEF D!Next, D!Enqueue

LEMMA QueueTimerIsRequeue ==
    ASSUME TypeOK, RowConsistent, RowConsistent', UNCHANGED accepted,
           NEW S \in SUBSET {m \in present : m \in queued /\ m \notin sent},
           SetIsQueued(S, FALSE)
    PROVE  D!Next
<1>1. S \in SUBSET Msgs /\ Taken' = Taken
  BY DEF TypeOK, Taken
<1>2. /\ queued' = queued \ S /\ sent' = sent \ S
      /\ UNCHANGED <<created, present>>
  BY DEF SetIsQueued
<1>3. \A m \in S : Status(m) = "queued" /\ Status(m)' = "stored"
  BY <1>1, <1>2, StatusOfRow, StatusOfNextRow
<1>4. \A m \in Msgs \ S : Status(m)' = Status(m)
  BY <1>2, SameRowSameStatus
<1> QED
  BY <1>1, <1>3, <1>4, MoveFromStages DEF D!Next, D!Requeue

LEMMA DeleteMessageIsDelete ==
    ASSUME RowConsistent, RowConsistent', NEW m \in Msgs, DeleteMessage(m)
    PROVE  D!Next
<1>1. /\ m \in present /\ present' = present \ {m}
      /\ queued' = queued \ {m} /\ sent' = sent \ {m}
      /\ UNCHANGED created /\ Taken' = Taken
  BY DEF DeleteMessage, networkVars, Taken
<1>2. Status(m) \in {"stored", "queued", "sent"} /\ Status(m)' = "deleted"
  BY <1>1, StatusOfRow, StatusOfNextRow DEF RowConsistent
<1>3. \A n \in Msgs \ {m} : Status(n)' = Status(n)
  BY <1>1, SameRowSameStatus
<1>4. D!Move({m}, Status(m), "deleted")
  BY <1>1, <1>2, <1>3, MoveFromStages
<1> QED
  BY <1>2, <1>4 DEF D!Next, D!Delete

LEMMA ServerTakesPacketIsTake ==
    ASSUME TypeOK, ServerTakesPacket
    PROVE  D!Next \/ UNCHANGED D!vars
<1> DEFINE p == Head(wire)
<1>1. p \in Packet
  BY SeqTail DEF TypeOK, ServerTakesPacket
<1>2. p.msg \in Msgs
  BY <1>1 DEF Packet
<1>3. UNCHANGED rowVars
  BY DEF ServerTakesPacket
<1>4. CASE UNCHANGED accepted
  BY <1>3, <1>4, SameRowsStutter
<1>5. CASE accepted' = [accepted EXCEPT ![p.msg] = @ \cup {p.to}]
  <2> HIDE DEF p
  <2>1. Taken' = Taken \cup {p.msg}
    BY <1>2, <1>5 DEF TypeOK, Taken
  <2>2. \A m \in Msgs : Status(m)' = Status(m)
    BY <1>3 DEF Status, rowVars
  <2>3. D!Take(p.msg)
    BY <2>1, <2>2 DEF D!Take
  <2> QED
    BY <1>2, <2>3 DEF D!Next
<1> QED
  BY <1>4, <1>5 DEF ServerTakesPacket

-----------------------------------------------------------------------------
(* The refinement.                                                         *)

LEMMA DatabaseStepIsAbstractStep ==
    ASSUME TypeOK, RowConsistent, RowConsistent', ReportsAreJustified,
           DatabaseStep
    PROVE  D!Next \/ UNCHANGED D!vars
<1>1. CASE StoreSent
  BY <1>1, StoreSentIsStore DEF ReportsAreJustified
<1>2. UNCHANGED accepted
  BY DEF DatabaseStep, StoreSent, StoreResult, StoreReceipt, networkVars,
     SendAllWaitingMessages, SendAllWaitingMessagesThrows, LoseVolatileState
<1>3. ASSUME NEW op \in Results \cup Receipts, StoreResult(op) \/ StoreReceipt(op)
      PROVE  D!Next \/ UNCHANGED D!vars
  <2>1. CASE UNCHANGED rowVars
    BY <1>2, <2>1, SameRowsStutter
  <2>2. CASE /\ Head(dbq).msg \in present
             /\ SetMessageState(Head(dbq).msg, op)
    <3>1. PICK m \in present : m = Head(dbq).msg
      BY <2>2
    <3>2. dbq \in Seq(JustifiedCalls) /\ dbq # <<>> /\ Head(dbq).op = op
      BY <1>3 DEF ReportsAreJustified, CallsAreJustified, StoreResult,
         StoreReceipt, HandleCall
    <3>3. Justified(op, m)
      BY <3>1, <3>2, SeqTail DEF JustifiedCalls
    <3>4. SetMessageState(m, op)
      BY <2>2, <3>1
    <3> QED
      BY <1>2, <3>3, <3>4, ReportIsConfirmOrRequeue
  <2> QED
    BY <1>3, <2>1, <2>2, ReportKeepsOrSetsState
<1>4. CASE SendAllWaitingMessages \/ SendAllWaitingMessagesThrows
  BY <1>2, <1>4, ResendLoopQueuesUnsentRows, ResendLoopIsEnqueue
<1> QED
  BY <1>1, <1>3, <1>4 DEF DatabaseStep

(* Steps that no row notices leave the abstract state alone, except for    *)
(* the server's.                                                           *)
LEMMA OtherStepIsAbstractStep ==
    ASSUME TypeOK, [Next]_vars, UNCHANGED rowVars
    PROVE  D!Next \/ UNCHANGED D!vars
<1>1. CASE ServerTakesPacket
  BY <1>1, ServerTakesPacketIsTake
<1>2. CASE UNCHANGED accepted
  BY <1>2, SameRowsStutter
<1>3. CASE UNCHANGED vars
  BY <1>2, <1>3 DEF vars, networkVars
<1>4. CASE CenterStep \/ DatabaseStep
  BY <1>2, <1>4 DEF CenterStep, ProcessSentMessage, ProcessReport,
     TryResendingMessagesToNetwork, SetNetworkSentMessageAcceptor,
     DatabaseStep, StoreSent, StoreResult, StoreReceipt, networkVars,
     SendAllWaitingMessages, SendAllWaitingMessagesThrows, LoseVolatileState
<1>5. CASE \/ ClientStep \/ PeerStep
           \/ \E m \in Msgs : UploadEnds(m) \/ AcknowledgmentTimeout(m)
  BY <1>2, <1>5 DEF ClientStep, SendPostedMessage, ReceiveReceipt, PeerStep,
     OutgoingMessagesTimerOnTimer, HandleIncomingAcknowledgment, UploadEnds,
     CallbackTaskSucceeded, CallbackTaskFailed, AcknowledgmentTimeout,
     networkVars
<1>6. CASE \/ ConnectToFinished \/ SocketDisconnected \/ UserStep \/ Crash
           \/ \E old \in SUBSET queued : OnQueueTimeoutTimerFire(old)
  BY <1>2, <1>6 DEF ConnectToFinished, SocketDisconnected, UserStep, Crash,
     SendMessage, DeleteMessage, SetupProtocolClient, Restart,
     LoseVolatileState, OnQueueTimeoutTimerFire, networkVars
<1> QED
  BY <1>1, <1>3, <1>4, <1>5, <1>6 DEF Next

LEMMA StepIsAbstractStep ==
    /\ TypeOK /\ RowConsistent /\ RowConsistent' /\ ReportsAreJustified
    /\ [Next]_vars
    => [D!Next]_(D!vars)
<1> SUFFICES ASSUME TypeOK, RowConsistent, RowConsistent', ReportsAreJustified,
                    [Next]_vars
             PROVE  D!Next \/ UNCHANGED D!vars
  OBVIOUS
<1>1. CASE DatabaseStep
  BY <1>1, DatabaseStepIsAbstractStep
<1>2. ASSUME NEW m \in Msgs, DeleteMessage(m)
      PROVE  D!Next
  BY <1>2, DeleteMessageIsDelete
<1>3. ASSUME NEW old, OnQueueTimeoutTimerFire(old)
      PROVE  D!Next
  <2>1. UNCHANGED accepted
    BY <1>3 DEF OnQueueTimeoutTimerFire, networkVars
  <2> QED
    BY <1>3, <2>1, QueueTimerResetsUnsentRows, QueueTimerIsRequeue
<1>4. CASE UNCHANGED rowVars
  BY <1>4, OtherStepIsAbstractStep
<1> QED
  BY <1>1, <1>2, <1>3, <1>4, RowsAreTheDatabases

LEMMA InitIsAbstractInit == Init => D!Init
<1> SUFFICES ASSUME Init
             PROVE  D!Init
  OBVIOUS
<1>1. RowConsistent
  BY InitHasConsistentRows
<1>2. /\ created = Restored /\ present = Restored /\ queued \subseteq Restored
      /\ sent = {} /\ Taken = {}
  BY DEF Init, Taken
<1>3. \A m \in Msgs : Status(m) \in {"absent", "stored", "queued"}
  BY <1>2 DEF Status
<1> QED
  BY <1>2, <1>3 DEF D!Init

(* The outbox keeps the promise of Delivery: a message only moves between  *)
(* stored, queued, sent and deleted as the documentation of isQueued and   *)
(* isSent says, and becomes sent only if the server took it.               *)
THEOREM RefinesDelivery == Spec => ImplementsDelivery
<1>1. /\ TypeOK /\ RowConsistent /\ RowConsistent' /\ ReportsAreJustified
      /\ [Next]_vars
      => [D!Next]_(D!vars)
  BY StepIsAbstractStep
<1> QED
  BY <1>1, InitIsAbstractInit, TypeCorrect, RowsAreConsistent,
     ReportsAlwaysJustified, PTL DEF Spec, ImplementsDelivery, D!Spec

-----------------------------------------------------------------------------
(***************************************************************************)
(* Nothing is sent twice without a cause.  As long as no timer and no      *)
(* failure takes a message off the queue, it is in one place at most:      *)
(* promised by the message center, posted to the client, in an upload, or  *)
(* in its one round of copies; and a row that waits is in none of them.    *)
(***************************************************************************)

Promised(m) == pending = m /\ willQueue
Posted(m)   == \E i \in 1..Len(pcq) : pcq[i] = m
InRound(m)  == accepted[m] # {} \/ \E i \in 1..Len(UnderWay) : UnderWay[i] \in CopiesOf(m)

PostedOnce == \A i, j \in 1..Len(pcq) : pcq[i] = pcq[j] => i = j

(* Each recipient's copy is under way once, and not when it was taken. *)
OneRound(m) ==
    /\ \A i, j \in 1..Len(UnderWay) :
          UnderWay[i] \in CopiesOf(m) /\ UnderWay[j] \in CopiesOf(m)
              /\ UnderWay[i].to = UnderWay[j].to => i = j
    /\ \A i \in 1..Len(UnderWay) :
          UnderWay[i] \in CopiesOf(m) => UnderWay[i].to \notin accepted[m]

InOnePlace(m) ==
    /\ uploads[m] <= 1
    /\ m \in Unsent => ~Promised(m) /\ ~Posted(m) /\ uploads[m] = 0 /\ ~InRound(m)
    /\ Promised(m) => ~Posted(m) /\ uploads[m] = 0 /\ ~InRound(m)
    /\ Posted(m) => uploads[m] = 0 /\ ~InRound(m)
    /\ uploads[m] > 0 => ~InRound(m)

GoodReports == {r \in Report : r.op # "SENDFAILED"}

(* What is promised was stored as queued. *)
GoodCalls == {c \in Call : c.op # "SENDFAILED" /\ (c.op = "store" /\ willQueue => c.live)}

NothingFailed == reports \in Seq(GoodReports) /\ dbq \in Seq(GoodCalls)

OnceInv == PostedOnce /\ NothingFailed /\ \A m \in Msgs : OneRound(m) /\ InOnePlace(m)

NoCause == budget.timer = MaxTimers /\ budget.timeout = MaxTimeouts

(* An order that reaches every element of a set has each of them once. *)
LEMMA OrdersAreInjective ==
    ASSUME NEW S, IsFiniteSet(S), NEW f \in [1..Cardinality(S) -> S],
           \A x \in S : \E i \in 1..Cardinality(S) : f[i] = x
    PROVE  \A i, j \in 1..Cardinality(S) : f[i] = f[j] => i = j
<1>1. Cardinality(S) \in Nat
  BY FS_CardinalityType
<1>2. IsFiniteSet(1..Cardinality(S)) /\ Cardinality(1..Cardinality(S)) = Cardinality(S)
  BY <1>1, FS_Interval
<1>3. f \in Surjection(1..Cardinality(S), S)
  BY DEF Surjection
<1>4. f \in Injection(1..Cardinality(S), S)
  BY <1>2, <1>3, FS_SurjSameCardinalityImpliesInj
<1> QED
  BY <1>4 DEF Injection, IsInjective

LEMMA VisitsAreDistinct ==
    ASSUME NEW S \in SUBSET Msgs, NEW batch \in VisitOrders(S)
    PROVE  /\ batch \in Seq(Msgs) /\ \A i, j \in 1..Len(batch) : batch[i] = batch[j] => i = j
           /\ \A i \in 1..Len(batch) : batch[i] \in S
<1>1. IsFiniteSet(S) /\ Cardinality(S) \in Nat
  BY OutboxAssumption, FS_Subset, FS_CardinalityType
<1>2. batch \in [1..Cardinality(S) -> S] /\ \A m \in S : \E i \in DOMAIN batch : batch[i] = m
  BY DEF VisitOrders
<1>3. batch \in Seq(S) /\ Len(batch) = Cardinality(S) /\ DOMAIN batch = 1..Cardinality(S)
  BY <1>1, <1>2, LenOfFunction
<1>4. \A i, j \in 1..Cardinality(S) : batch[i] = batch[j] => i = j
  BY <1>1, <1>2, <1>3, OrdersAreInjective
<1>5. batch \in Seq(Msgs)
  BY <1>3, SeqMonotonic
<1> QED
  BY <1>2, <1>3, <1>4, <1>5

LEMMA CopiesAreDistinct ==
    ASSUME TypeOK, NEW m \in Msgs, NEW copies \in CopyOrders(m)
    PROVE  /\ copies \in Seq(Packet) /\ Len(copies) \in Nat
           /\ \A i \in 1..Len(copies) : copies[i].msg = m /\ copies[i] \in Packet
           /\ \A i, j \in 1..Len(copies) : copies[i].to = copies[j].to => i = j
<1> DEFINE R == Recipients[m]
           n == Cardinality(R)
           f == [i \in 1..n |-> copies[i].to]
<1>1. IsFiniteSet(R) /\ n \in Nat /\ R \in SUBSET Contacts
  BY RecipientsAreFinite
<1>2. /\ copies \in [1..n -> [msg: {m}, to: R, live: {connected}]]
      /\ \A r \in R : \E i \in DOMAIN copies : copies[i].to = r
  BY DEF CopyOrders
<1>3. [msg: {m}, to: R, live: {connected}] \subseteq Packet
  BY <1>1 DEF Packet, TypeOK
<1>4. copies \in [1..n -> Packet]
  BY <1>2, <1>3
<1>5. copies \in Seq(Packet) /\ Len(copies) = n /\ DOMAIN copies = 1..n
  BY <1>1, <1>4, LenOfFunction
<1>6. \A i \in 1..n : copies[i].msg = m /\ copies[i] \in Packet /\ copies[i].to \in R
  BY <1>2, <1>4
<1>7. f \in [1..n -> R] /\ \A r \in R : \E i \in 1..n : f[i] = r
  BY <1>2, <1>5, <1>6
<1>8. \A i, j \in 1..n : f[i] = f[j] => i = j
  <2> HIDE DEF f, R
  <2> QED
    BY <1>1, <1>7, OrdersAreInjective
<1>9. \A i, j \in 1..n : copies[i].to = copies[j].to => i = j
  BY <1>8
<1> QED
  BY <1>1, <1>5, <1>6, <1>9

(* What the packets under way mean for a message when they ...             *)
(* ... stay as they are,                                                   *)
LEMMA RoundStays ==
    ASSUME NEW m, OneRound(m), UNCHANGED <<UnderWay, accepted>>
    PROVE  OneRound(m)' /\ (InRound(m)' => InRound(m))
  BY DEF OneRound, InRound, CopiesOf

(* ... are lost,                                                           *)
LEMMA RoundIsLost ==
    ASSUME NEW m, UnderWay' \in Seq(DeadPackets), accepted' = accepted
    PROVE  OneRound(m)' /\ (InRound(m)' => InRound(m))
<1>1. \A i \in 1..Len(UnderWay') : UnderWay'[i] \notin CopiesOf(m)
  BY ElementOfSeq DEF CopiesOf, DeadPackets
<1> QED
  BY <1>1 DEF OneRound, InRound, CopiesOf

(* ... move on by one,                                                     *)
LEMMA RoundMovesOn ==
    ASSUME TypeOK, ServerTakesPacket, NEW m \in Msgs, OneRound(m)
    PROVE  OneRound(m)' /\ (InRound(m)' => InRound(m))
<1> DEFINE p == Head(wire)
<1>1. /\ wire \in Seq(Packet) /\ wire # <<>> /\ outgoing \in Seq(Packet) /\ p \in Packet
  BY SeqTail DEF ServerTakesPacket, TypeOK
<1>2. /\ UnderWay \in Seq(Packet) /\ UnderWay # <<>> /\ Head(UnderWay) = p
      /\ UnderWay[1] = p /\ UnderWay' = Tail(UnderWay)
  <2>1. /\ wire' = Tail(wire) /\ outgoing' = outgoing
    BY DEF ServerTakesPacket, clientVars
  <2>2. /\ Head(wire \o outgoing) = Head(wire) /\ wire \o outgoing # <<>>
        /\ Tail(wire \o outgoing) = Tail(wire) \o outgoing
    BY <1>1, HeadTailOfConcat
  <2>3. /\ UnderWay \in Seq(Packet) /\ UnderWay # <<>> /\ Head(UnderWay) = p
        /\ UnderWay' = Tail(UnderWay)
    BY <2>1, <2>2, UnderWayIsSeq DEF UnderWay
  <2> HIDE DEF p
  <2> QED
    BY <2>3, HeadTailProperties
<1> HIDE DEF p
<1>3. PICK len \in Nat : len = Len(UnderWay) /\ len # 0 /\ Len(UnderWay') = len - 1
  BY <1>2, UnderWayIsSeq, HeadTailProperties, EmptySeq
<1>4. \A i \in 1..len - 1 : i + 1 \in 1..len /\ UnderWay'[i] = UnderWay[i + 1]
  BY <1>2, <1>3, TailElements, HeadTailProperties
<1>5. \/ p.live /\ accepted' = [accepted EXCEPT ![p.msg] = @ \cup {p.to}]
      \/ ~p.live /\ accepted' = accepted
  BY DEF ServerTakesPacket, p
<1>6. p \in CopiesOf(m) <=> p.live /\ p.msg = m
  BY <1>1 DEF CopiesOf
<1>7. accepted'[m] = IF p \in CopiesOf(m) THEN accepted[m] \cup {p.to} ELSE accepted[m]
  BY <1>5, <1>6 DEF TypeOK
<1>8. ASSUME NEW i \in 1..len - 1, NEW j \in 1..len - 1, UnderWay'[i] \in CopiesOf(m),
             UnderWay'[j] \in CopiesOf(m), UnderWay'[i].to = UnderWay'[j].to
      PROVE  i = j
  <2>1. i + 1 = j + 1
    BY <1>3, <1>4, <1>8 DEF OneRound
  <2> QED
    BY <2>1
<1>9. ASSUME NEW i \in 1..len - 1, UnderWay'[i] \in CopiesOf(m)
      PROVE  UnderWay'[i].to \notin accepted'[m]
  <2>1. UnderWay[i + 1] \in CopiesOf(m) /\ i + 1 \in 1..len /\ UnderWay'[i] = UnderWay[i + 1]
    BY <1>4, <1>9
  <2>2. UnderWay[i + 1].to \notin accepted[m]
    BY <1>3, <2>1 DEF OneRound
  <2>3. p \in CopiesOf(m) => UnderWay[i + 1].to # p.to
    <3>1. 1 \in 1..len /\ i + 1 # 1
      BY <1>3
    <3> QED
      BY <1>2, <1>3, <2>1, <3>1 DEF OneRound
  <2> QED
    BY <1>7, <2>1, <2>2, <2>3
<1>10. InRound(m)' => InRound(m)
  <2>1. CASE p \in CopiesOf(m)
    <3>1. 1 \in 1..Len(UnderWay)
      BY <1>3
    <3> QED
      BY <1>2, <2>1, <3>1 DEF InRound
  <2>2. CASE p \notin CopiesOf(m)
    <3>1. accepted'[m] = accepted[m]
      BY <1>7, <2>2
    <3>2. ASSUME NEW i \in 1..len - 1, UnderWay'[i] \in CopiesOf(m)
          PROVE  \E j \in 1..Len(UnderWay) : UnderWay[j] \in CopiesOf(m)
      BY <1>3, <1>4, <3>2
    <3> QED
      BY <1>3, <3>1, <3>2 DEF InRound, CopiesOf
  <2> QED
    BY <2>1, <2>2
<1> QED
  BY <1>3, <1>8, <1>9, <1>10 DEF OneRound, CopiesOf

(* ... and get another round behind them.                                  *)
LEMMA RoundBegins ==
    ASSUME TypeOK, NEW m \in Msgs, HandleOutgoingMessage(m), UNCHANGED <<wire, accepted>>,
           ~InRound(m), NEW n \in Msgs, OneRound(n)
    PROVE  OneRound(n)' /\ (InRound(n)' => InRound(n) \/ n = m)
<1>1. PICK copies \in CopyOrders(m) : outgoing' = outgoing \o copies
  BY DEF HandleOutgoingMessage
<1>2. /\ copies \in Seq(Packet) /\ Len(copies) \in Nat
      /\ \A i \in 1..Len(copies) : copies[i].msg = m
      /\ \A i, j \in 1..Len(copies) : copies[i].to = copies[j].to => i = j
  BY CopiesAreDistinct
<1>3. UnderWay \in Seq(Packet) /\ Len(UnderWay) \in Nat
  BY UnderWayIsSeq
<1>4. UnderWay' = UnderWay \o copies
  <2>1. wire \in Seq(Packet) /\ outgoing \in Seq(Packet)
    BY DEF TypeOK
  <2>2. (wire \o outgoing) \o copies = wire \o (outgoing \o copies)
    <3>1. copies \in Seq(Packet)
      BY <1>2
    <3> QED
      BY <2>1, <3>1, ConcatAssociative
  <2>3. UnderWay' = wire \o (outgoing \o copies)
    BY <1>1 DEF UnderWay
  <2> QED
    BY <2>2, <2>3 DEF UnderWay
<1> DEFINE len == Len(UnderWay)
<1>5. /\ Len(UnderWay') = len + Len(copies)
      /\ \A i \in 1..len + Len(copies) :
            UnderWay'[i] = IF i <= len THEN UnderWay[i] ELSE copies[i - len]
  BY <1>2, <1>3, <1>4, ConcatProperties
<1> HIDE DEF len
<1>6. len \in Nat /\ len = Len(UnderWay)
  BY <1>3 DEF len
<1>7. ASSUME NEW i \in 1..len + Len(copies)
      PROVE  \/ i \in 1..len /\ UnderWay'[i] = UnderWay[i]
             \/ i > len /\ i - len \in 1..Len(copies) /\ UnderWay'[i] = copies[i - len]
                /\ UnderWay'[i].msg = m
  BY <1>2, <1>5, <1>6
<1>8. CASE n = m
  <2>1. /\ \A i \in 1..len : UnderWay[i] \notin CopiesOf(m)
        /\ accepted'[m] = {}
    BY <1>6 DEF InRound
  <2>2. ASSUME NEW i \in 1..len + Len(copies), UnderWay'[i] \in CopiesOf(m)
        PROVE  i > len /\ i - len \in 1..Len(copies) /\ UnderWay'[i] = copies[i - len]
    BY <1>7, <2>1, <2>2
  <2>3. ASSUME NEW i \in 1..len + Len(copies), UnderWay'[i] \in CopiesOf(m),
               NEW j \in 1..len + Len(copies), UnderWay'[j] \in CopiesOf(m),
               UnderWay'[i].to = UnderWay'[j].to
        PROVE  i = j
    <3>1. i - len = j - len
      BY <1>2, <2>2, <2>3
    <3> QED
      BY <1>2, <1>6, <3>1
  <2> QED
    BY <1>5, <1>8, <2>1, <2>3 DEF OneRound, CopiesOf
<1>9. CASE n # m
  <2>1. ASSUME NEW i \in 1..len + Len(copies), UnderWay'[i] \in CopiesOf(n)
        PROVE  i \in 1..len /\ UnderWay'[i] = UnderWay[i]
    BY <1>7, <1>9, <2>1 DEF CopiesOf
  <2>2. OneRound(n)'
    <3>1. ASSUME NEW i \in 1..Len(UnderWay'), NEW j \in 1..Len(UnderWay'),
                 UnderWay'[i] \in CopiesOf(n), UnderWay'[j] \in CopiesOf(n),
                 UnderWay'[i].to = UnderWay'[j].to
          PROVE  i = j
      BY <1>5, <1>6, <2>1, <3>1 DEF OneRound
    <3>2. ASSUME NEW i \in 1..Len(UnderWay'), UnderWay'[i] \in CopiesOf(n)
          PROVE  UnderWay'[i].to \notin accepted'[n]
      BY <1>5, <1>6, <2>1, <3>2 DEF OneRound
    <3> QED
      BY <3>1, <3>2 DEF OneRound, CopiesOf
  <2>3. InRound(n)' => InRound(n)
    BY <1>5, <1>6, <2>1 DEF InRound, CopiesOf
  <2> QED
    BY <2>2, <2>3
<1> QED
  BY <1>8, <1>9

-----------------------------------------------------------------------------
(* What the other steps do to the places of a message.                     *)

(* A step that puts no message anywhere, although it may lose some. *)
MovesNothing ==
    /\ \/ QuietStep
       \/ LoseVolatileState
       \/ SocketDisconnected
       \/ SetupProtocolClient
       \/ ServerTakesPacket
       \/ HandleIncomingAcknowledgment
    /\ pcq' = pcq \/ pcq' = <<>>
    /\ (pending' = pending /\ (willQueue' => willQueue)) \/ pending' = NoMsg
    /\ \A n \in Msgs : uploads'[n] = uploads[n] \/ uploads'[n] = 0
    /\ Unsent' \subseteq Unsent

LEMMA RoundsStayOrGo ==
    ASSUME TypeOK, CountInv, NEW n \in Msgs, OneRound(n),
           \/ QuietStep \/ LoseVolatileState \/ SocketDisconnected
           \/ SetupProtocolClient \/ ServerTakesPacket \/ HandleIncomingAcknowledgment
    PROVE  OneRound(n)' /\ (InRound(n)' => InRound(n))
<1>1. CASE QuietStep
  BY <1>1, QuietStepKeepsUnderWay, RoundStays DEF QuietStep
<1>2. ASSUME wire' = <<>>, outgoing' \in Seq(DeadPackets), accepted' = accepted
      PROVE  OneRound(n)' /\ (InRound(n)' => InRound(n))
  <2>1. UnderWay' \in Seq(DeadPackets)
    BY <1>2, ConcatEmptySeq DEF UnderWay
  <2> QED
    BY <1>2, <2>1, RoundIsLost
<1>3. CASE LoseVolatileState
  BY <1>2, <1>3, EmptySeq DEF LoseVolatileState
<1>4. CASE SocketDisconnected
  <2>1. outgoing' \in Seq(DeadPackets)
    BY <1>4, LostPacketsAreDead
  <2> QED
    BY <1>2, <1>4, <2>1 DEF SocketDisconnected
<1>5. CASE SetupProtocolClient
  <2>1. outgoing' \in Seq(DeadPackets)
    BY <1>5, EmptySeq DEF SetupProtocolClient
  <2>2. wire' = <<>> /\ accepted' = accepted
    BY <1>5 DEF SetupProtocolClient, CountInv, NoSessionNoCopies, networkVars
  <2> QED
    BY <1>2, <2>1, <2>2
<1>6. CASE ServerTakesPacket
  BY <1>6, RoundMovesOn
<1>7. CASE HandleIncomingAcknowledgment
  <2>1. UNCHANGED <<UnderWay, accepted>>
    BY <1>7 DEF HandleIncomingAcknowledgment, UnderWay
  <2> QED
    BY <2>1, RoundStays
<1> QED
  BY <1>1, <1>3, <1>4, <1>5, <1>6, <1>7

(* A message that comes to no new place stays in one place. *)
LEMMA NoNewPlace ==
    ASSUME TypeOK, NEW m \in Msgs, InOnePlace(m),
           m \in Unsent' => m \in Unsent, Promised(m)' => Promised(m),
           Posted(m)' => Posted(m), InRound(m)' => InRound(m),
           uploads'[m] = uploads[m] \/ uploads'[m] = 0
    PROVE  InOnePlace(m)'
<1>1. uploads[m] \in Nat
  BY DEF TypeOK
<1> HIDE DEF Unsent, Promised, Posted, InRound
<1> QED
  BY <1>1 DEF InOnePlace

LEMMA MovesNothingKeepsPlaces ==
    ASSUME TypeOK, CountInv, MovesNothing, PostedOnce,
           \A m \in Msgs : OneRound(m) /\ InOnePlace(m)
    PROVE  PostedOnce' /\ \A m \in Msgs : OneRound(m)' /\ InOnePlace(m)'
<1>1. PostedOnce' /\ \A m \in Msgs : Posted(m)' => Posted(m)
  <2>1. CASE pcq' = pcq
    BY <2>1 DEF PostedOnce, Posted
  <2>2. CASE pcq' = <<>>
    <3>1. 1..Len(pcq') = {}
      BY <2>2, EmptySeq
    <3> QED
      BY <3>1 DEF PostedOnce, Posted
  <2> QED
    BY <2>1, <2>2 DEF MovesNothing
<1>2. ASSUME NEW m \in Msgs
      PROVE  OneRound(m)' /\ InOnePlace(m)'
  <2>1. OneRound(m)' /\ (InRound(m)' => InRound(m))
    BY RoundsStayOrGo DEF MovesNothing
  <2>2. Promised(m)' => Promised(m)
    BY OutboxAssumption DEF MovesNothing, Promised
  <2>3. /\ m \in Unsent' => m \in Unsent
        /\ uploads'[m] = uploads[m] \/ uploads'[m] = 0
    BY DEF MovesNothing
  <2> QED
    BY <1>1, <2>1, <2>2, <2>3, NoNewPlace
<1> QED
  BY <1>1, <1>2

(* The rows that wait for a resend. *)
LEMMA NoNewWaitingRow ==
    ASSUME UNCHANGED rowVars
    PROVE  Unsent' = Unsent
  BY DEF rowVars, Unsent

LEMMA ReportsMakeNoRowWait ==
    ASSUME TypeOK, NothingFailed, NEW op \in Results \cup Receipts,
           StoreResult(op) \/ StoreReceipt(op)
    PROVE  Unsent' \subseteq Unsent
<1>1. dbq # <<>> /\ Head(dbq).op = op
  BY DEF StoreResult, StoreReceipt, HandleCall
<1>2. Head(dbq) \in GoodCalls
  BY <1>1, SeqTail DEF NothingFailed
<1>3. op # "SENDFAILED"
  BY <1>1, <1>2 DEF GoodCalls
<1>4. CASE UNCHANGED rowVars
  BY <1>4, NoNewWaitingRow
<1>5. CASE SetMessageState(Head(dbq).msg, op)
  BY <1>3, <1>5 DEF SetMessageState, Unsent, rowVars
<1> QED
  BY <1>4, <1>5, ReportKeepsOrSetsState

LEMMA CenterMovesNothing ==
    ASSUME \/ TryResendingMessagesToNetwork \/ SetNetworkSentMessageAcceptor \/ ProcessReport
    PROVE  MovesNothing
<1>1. /\ UNCHANGED <<rowVars, pending, willQueue, clientVars, networkVars>>
  BY DEF TryResendingMessagesToNetwork, SetNetworkSentMessageAcceptor, ProcessReport
<1>2. Unsent' = Unsent
  BY <1>1, NoNewWaitingRow
<1> QED
  BY <1>1, <1>2 DEF MovesNothing, QuietStep, clientVars, networkVars

LEMMA LosingStateMovesNothing ==
    ASSUME LoseVolatileState, Unsent' \subseteq Unsent
    PROVE  MovesNothing
  BY DEF MovesNothing, LoseVolatileState

LEMMA ReportsMoveNothing ==
    ASSUME TypeOK, NothingFailed, NEW op \in Results \cup Receipts,
           StoreResult(op) \/ StoreReceipt(op)
    PROVE  MovesNothing
<1>1. Unsent' \subseteq Unsent
  BY ReportsMakeNoRowWait
<1>2. CASE LoseVolatileState
  BY <1>1, <1>2, LosingStateMovesNothing
<1>3. CASE UNCHANGED <<centerVars, clientVars, networkVars>>
  BY <1>1, <1>3 DEF MovesNothing, QuietStep, centerVars, clientVars, networkVars
<1> QED
  BY <1>2, <1>3 DEF StoreResult, StoreReceipt

LEMMA RefusedRowMovesNothing ==
    ASSUME SendAllWaitingMessagesThrows
    PROVE  MovesNothing
<1>1. PICK S \in SUBSET Unsent : SetIsQueued(S, TRUE)
  BY ResendLoopQueuesUnsentRows
<1>2. Unsent' \subseteq Unsent
  BY <1>1 DEF SetIsQueued, Unsent
<1> QED
  BY <1>2, LosingStateMovesNothing DEF SendAllWaitingMessagesThrows

LEMMA NetworkMovesNothing ==
    ASSUME \/ OutgoingMessagesTimerOnTimer \/ HandleIncomingAcknowledgment
           \/ ServerTakesPacket \/ ConnectToFinished \/ SocketDisconnected
           \/ SetupProtocolClient
    PROVE  MovesNothing
<1>1. UNCHANGED <<rowVars, pending>>
  BY DEF OutgoingMessagesTimerOnTimer, HandleIncomingAcknowledgment, ServerTakesPacket,
     ConnectToFinished, SocketDisconnected, SetupProtocolClient, centerVars, NonReportVars
<1>2. Unsent' = Unsent
  BY <1>1, NoNewWaitingRow
<1>3. CASE OutgoingMessagesTimerOnTimer
  BY <1>1, <1>2, <1>3 DEF OutgoingMessagesTimerOnTimer, MovesNothing, QuietStep, centerVars
<1>4. CASE HandleIncomingAcknowledgment
  BY <1>1, <1>2, <1>4 DEF HandleIncomingAcknowledgment, MovesNothing, NonReportVars
<1>5. CASE ServerTakesPacket
  BY <1>1, <1>2, <1>5 DEF ServerTakesPacket, MovesNothing, centerVars, clientVars
<1>6. CASE ConnectToFinished
  BY <1>1, <1>2, <1>6 DEF ConnectToFinished, MovesNothing, QuietStep, clientVars
<1>7. CASE SocketDisconnected
  BY <1>1, <1>2, <1>7 DEF SocketDisconnected, MovesNothing, centerVars
<1>8. CASE SetupProtocolClient
  BY <1>1, <1>2, <1>8 DEF SetupProtocolClient, MovesNothing
<1> QED
  BY <1>3, <1>4, <1>5, <1>6, <1>7, <1>8

LEMMA OutsideMovesNothing ==
    ASSUME TypeOK, \/ UNCHANGED vars \/ Crash \/ Restart \/ PeerStep
                   \/ \E m \in Msgs : DeleteMessage(m)
    PROVE  MovesNothing
<1>1. CASE Crash
  <2>1. Unsent' = Unsent
    BY <1>1, NoNewWaitingRow DEF Crash
  <2> QED
    BY <1>1, <2>1, LosingStateMovesNothing DEF Crash
<1>2. ASSUME UNCHANGED <<pending, willQueue, clientVars, networkVars>>, Unsent' \subseteq Unsent
      PROVE  MovesNothing
  BY <1>2 DEF MovesNothing, QuietStep, clientVars, networkVars
<1>3. CASE UNCHANGED vars \/ Restart \/ PeerStep
  <2>1. UNCHANGED <<rowVars, pending, willQueue, clientVars, networkVars>>
    BY <1>3 DEF vars, Restart, PeerStep, ReceiveReceipt, centerVars, NonReportVars
  <2> QED
    BY <1>2, <2>1, NoNewWaitingRow
<1>4. ASSUME NEW m \in Msgs, DeleteMessage(m)
      PROVE  MovesNothing
  <2>1. UNCHANGED <<pending, willQueue, clientVars, networkVars>>
    BY <1>4 DEF DeleteMessage, centerVars
  <2>2. Unsent' \subseteq Unsent
    BY <1>4 DEF DeleteMessage, Unsent
  <2> QED
    BY <1>2, <2>1, <2>2
<1> QED
  BY <1>1, <1>3, <1>4

-----------------------------------------------------------------------------
(* The steps that take a message from one place to the next.               *)

(* A message that was never stored is nowhere. *)
LEMMA NewMessagesAreNowhere ==
    ASSUME TypeOK, RowConsistent, OnlyStoredMessagesTravel, ReportsAreJustified,
           NEW m \in Msgs, m \notin created
    PROVE  m \notin Unsent /\ ~Posted(m) /\ uploads[m] = 0 /\ ~InRound(m)
<1>1. m \notin Unsent
  BY DEF RowConsistent, Unsent
<1>2. ~Posted(m)
  BY ElementOfSeq DEF OnlyStoredMessagesTravel, Posted
<1>3. uploads[m] = 0
  BY DEF OnlyStoredMessagesTravel, TypeOK
<1>4. accepted[m] = {}
  BY DEF ReportsAreJustified, AnswersAreJustified, Taken
<1>5. \A i \in 1..Len(UnderWay) : UnderWay[i] \notin CopiesOf(m)
  <2>1. UnderWay \in Seq(StoredPackets)
    BY SeqConcat DEF OnlyStoredMessagesTravel, UnderWay
  <2>2. \A i \in 1..Len(UnderWay) : UnderWay[i] \in StoredPackets
    BY <2>1, ElementOfSeq
  <2> QED
    BY <2>2 DEF StoredPackets, CopiesOf
<1> QED
  BY <1>1, <1>2, <1>3, <1>4, <1>5 DEF InRound

(* A step that touches neither the client nor the network. *)
LEMMA ClientStandsStill ==
    ASSUME UNCHANGED <<clientVars, networkVars>>
    PROVE  /\ UNCHANGED <<pcq, uploads, UnderWay, accepted>>
           /\ PostedOnce' = PostedOnce
           /\ \A m \in Msgs : /\ Posted(m)' = Posted(m) /\ InRound(m)' = InRound(m)
                              /\ OneRound(m)' = OneRound(m)
  BY DEF clientVars, networkVars, UnderWay, PostedOnce, Posted, InRound, OneRound, CopiesOf

LEMMA SendMessageKeepsPlaces ==
    ASSUME TypeOK, RowConsistent, OnlyStoredMessagesTravel, ReportsAreJustified,
           PostedOnce, \A n \in Msgs : OneRound(n) /\ InOnePlace(n),
           NEW m \in Msgs, SendMessage(m)
    PROVE  PostedOnce' /\ \A n \in Msgs : OneRound(n)' /\ InOnePlace(n)'
<1>1. UNCHANGED <<rowVars, clientVars, networkVars>> /\ pending' = m /\ m \notin created
  BY DEF SendMessage
<1>2. /\ UNCHANGED <<pcq, uploads, UnderWay, accepted>>
      /\ PostedOnce' = PostedOnce
      /\ \A n \in Msgs : /\ Posted(n)' = Posted(n) /\ InRound(n)' = InRound(n)
                         /\ OneRound(n)' = OneRound(n)
  BY <1>1, ClientStandsStill
<1>3. Unsent' = Unsent
  BY <1>1, NoNewWaitingRow
<1>4. ASSUME NEW n \in Msgs
      PROVE  InOnePlace(n)'
  <2>1. CASE n = m
    <3>1. m \notin Unsent /\ ~Posted(m) /\ uploads[m] = 0 /\ ~InRound(m)
      BY <1>1, NewMessagesAreNowhere
    <3>2. m \notin Unsent' /\ ~Posted(m)' /\ uploads'[m] = 0 /\ ~InRound(m)'
      BY <1>2, <1>3, <3>1
    <3> HIDE DEF Unsent, Promised, Posted, InRound
    <3> QED
      BY <2>1, <3>2 DEF InOnePlace
  <2>2. CASE n # m
    <3>1. ~Promised(n)'
      BY <1>1, <2>2 DEF Promised
    <3> QED
      BY <1>2, <1>3, <3>1, NoNewPlace
  <2> QED
    BY <2>1, <2>2
<1> QED
  BY <1>2, <1>4

LEMMA StoreSentKeepsPlaces ==
    ASSUME TypeOK, RowConsistent, OnlyStoredMessagesTravel, ReportsAreJustified,
           NothingFailed, PostedOnce, \A n \in Msgs : OneRound(n) /\ InOnePlace(n), StoreSent
    PROVE  PostedOnce' /\ \A n \in Msgs : OneRound(n)' /\ InOnePlace(n)'
<1> DEFINE c == Head(dbq)
<1>1. dbq # <<>> /\ c.op = "store" /\ c \in GoodCalls /\ c \in JustifiedCalls
  BY SeqTail DEF StoreSent, HandleCall, NothingFailed, ReportsAreJustified, CallsAreJustified
<1>2. c.msg = pending /\ c.msg \notin created /\ c.msg \in Msgs /\ (willQueue => c.live)
  BY <1>1 DEF GoodCalls, JustifiedCalls, Call
<1>3. UNCHANGED <<clientVars, networkVars, pending, willQueue>>
  BY DEF StoreSent, centerVars
<1>4. /\ present' = present \cup {c.msg} /\ sent' = sent \ {c.msg}
      /\ queued' = IF c.live THEN queued \cup {c.msg} ELSE queued \ {c.msg}
  BY DEF StoreSent
<1>5. /\ Unsent' \subseteq Unsent \cup {c.msg}
      /\ c.live => c.msg \notin Unsent'
  <2> HIDE DEF c
  <2> QED
    BY <1>4 DEF Unsent
<1>6. /\ UNCHANGED <<pcq, uploads, UnderWay, accepted>>
      /\ PostedOnce' = PostedOnce
      /\ \A n \in Msgs : /\ Posted(n)' = Posted(n) /\ InRound(n)' = InRound(n)
                         /\ OneRound(n)' = OneRound(n)
  BY <1>3, ClientStandsStill
<1> HIDE DEF c
<1>7. ASSUME NEW n \in Msgs
      PROVE  InOnePlace(n)'
  <2>1. Promised(n)' => Promised(n)
    BY <1>3 DEF Promised
  <2>2. CASE n = c.msg
    <3>1. n \notin Unsent /\ ~Posted(n) /\ uploads[n] = 0 /\ ~InRound(n)
      BY <1>2, <2>2, NewMessagesAreNowhere
    <3>2. n \in Unsent' => ~Promised(n)'
      BY <1>2, <1>3, <1>5, <2>2 DEF Promised
    <3>3. ~Posted(n)' /\ uploads'[n] = 0 /\ ~InRound(n)'
      BY <1>6, <3>1
    <3> HIDE DEF Unsent, Promised, Posted, InRound
    <3> QED
      BY <3>2, <3>3 DEF InOnePlace
  <2>3. CASE n # c.msg
    <3>1. n \in Unsent' => n \in Unsent
      BY <1>5, <2>3
    <3> QED
      BY <1>6, <2>1, <3>1, NoNewPlace
  <2> QED
    BY <2>2, <2>3
<1> QED
  BY <1>6, <1>7

(* A post that joins the queue. *)
LEMMA PostJoins ==
    ASSUME TypeOK, PostedOnce, NEW m \in Msgs, ~Posted(m), pcq' = Append(pcq, m)
    PROVE  PostedOnce' /\ \A n \in Msgs : Posted(n)' => Posted(n) \/ n = m
<1>1. /\ pcq' \in Seq(Msgs) /\ Len(pcq) \in Nat /\ Len(pcq') = Len(pcq) + 1
      /\ \A i \in 1..Len(pcq) : pcq'[i] = pcq[i]
      /\ pcq'[Len(pcq) + 1] = m
  BY AppendProperties, LenProperties DEF TypeOK
<1>2. \A i \in 1..Len(pcq) : pcq[i] # m
  BY DEF Posted
<1>3. ASSUME NEW i \in 1..Len(pcq'), NEW j \in 1..Len(pcq'), pcq'[i] = pcq'[j]
      PROVE  i = j
  <2>1. CASE i \in 1..Len(pcq) /\ j \in 1..Len(pcq)
    BY <1>1, <1>3, <2>1 DEF PostedOnce
  <2>2. CASE i = Len(pcq) + 1 /\ j \in 1..Len(pcq)
    BY <1>1, <1>2, <1>3, <2>2
  <2>3. CASE j = Len(pcq) + 1 /\ i \in 1..Len(pcq)
    BY <1>1, <1>2, <1>3, <2>3
  <2> QED
    BY <1>1, <2>1, <2>2, <2>3
<1>4. ASSUME NEW n \in Msgs, NEW i \in 1..Len(pcq'), pcq'[i] = n
      PROVE  Posted(n) \/ n = m
  BY <1>1, <1>4 DEF Posted
<1> QED
  BY <1>3, <1>4 DEF PostedOnce, Posted

LEMMA ProcessSentMessageKeepsPlaces ==
    ASSUME TypeOK, PostedOnce, \A n \in Msgs : OneRound(n) /\ InOnePlace(n),
           ProcessSentMessage
    PROVE  PostedOnce' /\ \A n \in Msgs : OneRound(n)' /\ InOnePlace(n)'
<1>1. /\ UNCHANGED <<rowVars, uploads, waiting, outgoing, networkVars>> /\ pending' = NoMsg
      /\ pending \in Msgs
  BY DEF ProcessSentMessage, TypeOK
<1>2. UNCHANGED <<UnderWay, accepted>> /\ Unsent' = Unsent
  BY <1>1, NoNewWaitingRow DEF networkVars, UnderWay
<1>3. \A n \in Msgs : OneRound(n)' /\ (InRound(n)' => InRound(n)) /\ ~Promised(n)'
  BY <1>1, <1>2, RoundStays, OutboxAssumption DEF Promised
<1>4. CASE ~willQueue
  <2>1. pcq' = pcq
    BY <1>4 DEF ProcessSentMessage
  <2>2. PostedOnce' /\ \A n \in Msgs : Posted(n)' => Posted(n)
    BY <2>1 DEF PostedOnce, Posted
  <2> QED
    BY <1>1, <1>2, <1>3, <2>2, NoNewPlace
<1>5. CASE willQueue
  <2>1. Promised(pending)
    BY <1>5 DEF Promised
  <2>2. InOnePlace(pending)
    BY <1>1
  <2>3. pending \notin Unsent /\ ~Posted(pending) /\ uploads[pending] = 0 /\ ~InRound(pending)
    <3> HIDE DEF Unsent, Promised, Posted, InRound
    <3> QED
      BY <2>1, <2>2 DEF InOnePlace
  <2>4. PostedOnce' /\ \A n \in Msgs : Posted(n)' => Posted(n) \/ n = pending
    BY <1>1, <1>5, <2>3, PostJoins DEF ProcessSentMessage
  <2>5. ASSUME NEW n \in Msgs
        PROVE  InOnePlace(n)'
    <3>1. CASE n = pending
      <4>1. n \notin Unsent' /\ ~Promised(n)' /\ uploads'[n] = 0 /\ ~InRound(n)'
        BY <1>1, <1>2, <1>3, <2>3, <3>1
      <4> HIDE DEF Unsent, Promised, Posted, InRound
      <4> QED
        BY <4>1 DEF InOnePlace
    <3>2. CASE n # pending
      BY <1>1, <1>2, <1>3, <2>4, <3>2, NoNewPlace
    <3> QED
      BY <3>1, <3>2
  <2> QED
    BY <1>3, <2>4, <2>5
<1> QED
  BY <1>4, <1>5 DEF TypeOK

(* The posts of a resend loop. *)
LEMMA PostsJoin ==
    ASSUME TypeOK, PostedOnce, NEW S \in SUBSET Msgs, NEW batch \in VisitOrders(S),
           \A m \in S : ~Posted(m), pcq' = pcq \o batch
    PROVE  PostedOnce' /\ \A n \in Msgs : Posted(n)' => Posted(n) \/ n \in S
<1>1. /\ batch \in Seq(Msgs) /\ \A i, j \in 1..Len(batch) : batch[i] = batch[j] => i = j
      /\ \A i \in 1..Len(batch) : batch[i] \in S
  BY VisitsAreDistinct
<1> DEFINE len == Len(pcq)
           new == Len(batch)
<1>2. /\ pcq' \in Seq(Msgs) /\ len \in Nat /\ new \in Nat /\ Len(pcq') = len + new
      /\ \A i \in 1..len + new : pcq'[i] = IF i <= len THEN pcq[i] ELSE batch[i - len]
  BY <1>1, ConcatProperties, LenProperties DEF TypeOK
<1>3. \A m \in S : \A i \in 1..len : pcq[i] # m
  BY DEF Posted
<1>4. \A i, j \in 1..new : batch[i] = batch[j] => i = j
  BY <1>1
<1>5. \A i, j \in 1..len : pcq[i] = pcq[j] => i = j
  BY DEF PostedOnce
<1>6. \A i \in 1..new : batch[i] \in S
  BY <1>1
<1>7. PostedOnce' <=> \A i, j \in 1..Len(pcq') : pcq'[i] = pcq'[j] => i = j
  BY DEF PostedOnce
<1>8. \A n : /\ Posted(n)' <=> \E i \in 1..Len(pcq') : pcq'[i] = n
             /\ Posted(n) <=> \E i \in 1..len : pcq[i] = n
  BY DEF Posted
<1> HIDE DEF len, new
<1>9. ASSUME NEW i \in 1..len + new
      PROVE  \/ i \in 1..len /\ pcq'[i] = pcq[i]
             \/ i > len /\ i - len \in 1..new /\ pcq'[i] = batch[i - len] /\ pcq'[i] \in S
  BY <1>2, <1>6
<1>10. ASSUME NEW i \in 1..len + new, NEW j \in 1..len + new, pcq'[i] = pcq'[j]
       PROVE  i = j
  <2>1. CASE i <= len /\ j <= len
    BY <1>2, <1>5, <1>9, <1>10, <2>1
  <2>2. CASE i <= len /\ j > len
    <3>1. pcq'[i] = pcq[i] /\ i \in 1..len /\ pcq'[j] \in S
      BY <1>2, <1>9, <2>2
    <3> QED
      BY <1>3, <1>10, <3>1
  <2>3. CASE i > len /\ j <= len
    <3>1. pcq'[j] = pcq[j] /\ j \in 1..len /\ pcq'[i] \in S
      BY <1>2, <1>9, <2>3
    <3> QED
      BY <1>3, <1>10, <3>1
  <2>4. CASE i > len /\ j > len
    <3>1. i - len = j - len
      BY <1>2, <1>4, <1>9, <1>10, <2>4
    <3> QED
      BY <1>2, <3>1
  <2> QED
    BY <1>2, <2>1, <2>2, <2>3, <2>4
<1>11. ASSUME NEW n \in Msgs, NEW i \in 1..len + new, pcq'[i] = n
       PROVE  Posted(n) \/ n \in S
  BY <1>8, <1>9, <1>11
<1> QED
  BY <1>2, <1>7, <1>8, <1>10, <1>11

LEMMA ResendLoopKeepsPlaces ==
    ASSUME TypeOK, PostedOnce, \A n \in Msgs : OneRound(n) /\ InOnePlace(n),
           SendAllWaitingMessages
    PROVE  PostedOnce' /\ \A n \in Msgs : OneRound(n)' /\ InOnePlace(n)'
<1>1. /\ UNCHANGED <<pending, willQueue, uploads, waiting, outgoing, networkVars>>
      /\ SetIsQueued(Resendable, TRUE)
  BY DEF SendAllWaitingMessages, centerVars
<1>2. Resendable \in SUBSET Unsent /\ Resendable \in SUBSET Msgs
  BY DEF Resendable, Unsent, TypeOK
<1>3. Unsent' \subseteq Unsent \ Resendable
  <2> HIDE DEF Resendable
  <2> QED
    BY <1>1 DEF SetIsQueued, Unsent
<1>4. UNCHANGED <<UnderWay, accepted>>
  BY <1>1 DEF networkVars, UnderWay
<1>5. \A n \in Msgs : OneRound(n)' /\ (InRound(n)' => InRound(n)) /\ Promised(n)' = Promised(n)
  BY <1>1, <1>4, RoundStays DEF Promised
<1>6. \A n \in Resendable : ~Promised(n) /\ ~Posted(n) /\ uploads[n] = 0 /\ ~InRound(n)
  <2> HIDE DEF Resendable, Unsent, Promised, Posted, InRound
  <2> QED
    BY <1>2 DEF InOnePlace
<1>7. PostedOnce' /\ \A n \in Msgs : Posted(n)' => Posted(n) \/ n \in Resendable
  <2>1. CASE pcq' = pcq
    BY <2>1 DEF PostedOnce, Posted
  <2>2. ASSUME NEW batch \in VisitOrders(Resendable), pcq' = pcq \o batch
        PROVE  PostedOnce' /\ \A n \in Msgs : Posted(n)' => Posted(n) \/ n \in Resendable
    BY <1>2, <1>6, <2>2, PostsJoin
  <2> QED
    BY <2>1, <2>2 DEF SendAllWaitingMessages
<1>8. ASSUME NEW n \in Msgs
      PROVE  InOnePlace(n)'
  <2>1. CASE n \in Resendable
    <3>1. n \notin Unsent' /\ ~Promised(n)' /\ uploads'[n] = 0 /\ ~InRound(n)'
      BY <1>1, <1>3, <1>5, <1>6, <2>1
    <3> HIDE DEF Unsent, Promised, Posted, InRound
    <3> QED
      BY <3>1 DEF InOnePlace
  <2>2. CASE n \notin Resendable
    BY <1>1, <1>3, <1>5, <1>7, <2>2, NoNewPlace
  <2> QED
    BY <2>1, <2>2
<1> QED
  BY <1>5, <1>7, <1>8

(* The client takes the next post. *)
LEMMA PostLeaves ==
    ASSUME TypeOK, PostedOnce, pcq # <<>>, pcq' = Tail(pcq)
    PROVE  /\ \E m \in Msgs : m = Head(pcq) /\ Posted(m) /\ ~Posted(m)'
           /\ PostedOnce' /\ \A n \in Msgs : Posted(n)' => Posted(n)
<1>1. PICK m : m = Head(pcq)
  OBVIOUS
<1>2. /\ m \in Msgs /\ m = pcq[1] /\ pcq' \in Seq(Msgs) /\ Len(pcq) \in Nat /\ Len(pcq) # 0
      /\ Len(pcq') = Len(pcq) - 1
  BY <1>1, HeadTailProperties, LenProperties, EmptySeq DEF TypeOK
<1>3. \A i \in 1..Len(pcq') : i + 1 \in 1..Len(pcq) /\ pcq'[i] = pcq[i + 1]
  BY <1>2, HeadTailProperties DEF TypeOK
<1>4. 1 \in 1..Len(pcq) /\ \A i \in 1..Len(pcq') : i + 1 # 1
  BY <1>2
<1>5. Posted(m)
  BY <1>2, <1>4 DEF Posted
<1>6. \A i \in 1..Len(pcq') : pcq'[i] # m
  BY <1>2, <1>3, <1>4 DEF PostedOnce
<1>7. ASSUME NEW i \in 1..Len(pcq'), NEW j \in 1..Len(pcq'), pcq'[i] = pcq'[j]
      PROVE  i = j
  <2>1. i + 1 = j + 1
    BY <1>3, <1>7 DEF PostedOnce
  <2> QED
    BY <1>2, <2>1
<1>8. \A n \in Msgs : Posted(n)' => Posted(n)
  BY <1>3 DEF Posted
<1>9. ~Posted(m)'
  BY <1>6 DEF Posted
<1>10. PostedOnce'
  BY <1>7 DEF PostedOnce
<1> QED
  BY <1>1, <1>2, <1>5, <1>8, <1>9, <1>10

(* A message whose copies are enqueued is in no other place. *)
LEMMA EnqueuingKeepsPlaces ==
    ASSUME TypeOK, \A n \in Msgs : OneRound(n) /\ InOnePlace(n), NEW m \in Msgs,
           HandleOutgoingMessage(m), ~InRound(m), ~Promised(m), ~Posted(m)', m \notin Unsent,
           UNCHANGED <<rowVars, pending, willQueue, networkVars>>,
           \A n \in Msgs : Posted(n)' => Posted(n),
           \A n \in Msgs : n # m => uploads'[n] = uploads[n], uploads'[m] = 0
    PROVE  \A n \in Msgs : OneRound(n)' /\ InOnePlace(n)'
<1>1. Unsent' = Unsent /\ \A n \in Msgs : Promised(n)' = Promised(n)
  BY NoNewWaitingRow DEF Promised
<1>2. UNCHANGED <<wire, accepted>>
  BY DEF networkVars
<1>3. ASSUME NEW n \in Msgs
      PROVE  OneRound(n)' /\ InOnePlace(n)'
  <2>1. OneRound(n)' /\ (InRound(n)' => InRound(n) \/ n = m)
    BY <1>2, RoundBegins
  <2>2. CASE n = m
    <3>1. n \notin Unsent' /\ ~Promised(n)' /\ ~Posted(n)' /\ uploads'[n] = 0
      BY <1>1, <2>2
    <3>2. InOnePlace(n)'
      <4> HIDE DEF Unsent, Promised, Posted, InRound
      <4> QED
        BY <3>1 DEF InOnePlace
    <3> QED
      BY <2>1, <3>2
  <2>3. CASE n # m
    <3>1. InOnePlace(n)'
      BY <1>1, <2>1, <2>3, NoNewPlace
    <3> QED
      BY <2>1, <3>1
  <2> QED
    BY <2>2, <2>3
<1> QED
  BY <1>3

LEMMA SendPostedMessageKeepsPlaces ==
    ASSUME TypeOK, PostedOnce, \A n \in Msgs : OneRound(n) /\ InOnePlace(n),
           SendPostedMessage
    PROVE  PostedOnce' /\ \A n \in Msgs : OneRound(n)' /\ InOnePlace(n)'
<1>1. /\ UNCHANGED <<rowVars, pending, willQueue, networkVars>> /\ pcq # <<>>
      /\ pcq' = Tail(pcq)
  BY DEF SendPostedMessage, centerVars
<1>2. PICK m \in Msgs : m = Head(pcq) /\ Posted(m) /\ ~Posted(m)'
  BY <1>1, PostLeaves
<1>3. PostedOnce' /\ \A n \in Msgs : Posted(n)' => Posted(n)
  BY <1>1, PostLeaves
<1>4. m \notin Unsent /\ ~Promised(m) /\ uploads[m] = 0 /\ ~InRound(m)
  <2> HIDE DEF Unsent, Promised, Posted, InRound
  <2> QED
    BY <1>2 DEF InOnePlace
<1>5. Unsent' = Unsent /\ \A n \in Msgs : Promised(n)' = Promised(n)
  BY <1>1, NoNewWaitingRow DEF Promised
<1>6. CASE UNCHANGED <<uploads, outgoing>>
  <2>1. UNCHANGED <<UnderWay, accepted>>
    BY <1>1, <1>6 DEF networkVars, UnderWay
  <2>2. ASSUME NEW n \in Msgs
        PROVE  OneRound(n)' /\ InOnePlace(n)'
    <3>1. OneRound(n)' /\ (InRound(n)' => InRound(n))
      BY <2>1, RoundStays
    <3> QED
      BY <1>3, <1>5, <1>6, <3>1, NoNewPlace
  <2> QED
    BY <1>3, <2>2
<1>7. CASE uploads' = [uploads EXCEPT ![m] = @ + 1] /\ UNCHANGED outgoing
  <2>1. UNCHANGED <<UnderWay, accepted>>
    BY <1>1, <1>7 DEF networkVars, UnderWay
  <2>2. uploads'[m] = 1 /\ \A n \in Msgs : n # m => uploads'[n] = uploads[n]
    BY <1>4, <1>7 DEF TypeOK
  <2>3. ASSUME NEW n \in Msgs
        PROVE  OneRound(n)' /\ InOnePlace(n)'
    <3>1. OneRound(n)' /\ (InRound(n)' => InRound(n))
      BY <2>1, RoundStays
    <3>2. CASE n = m
      <4>1. /\ n \notin Unsent' /\ ~Promised(n)' /\ ~Posted(n)' /\ ~InRound(n)'
            /\ uploads'[n] = 1
        BY <1>2, <1>4, <1>5, <2>2, <3>1, <3>2
      <4>2. InOnePlace(n)'
        <5> HIDE DEF Unsent, Promised, Posted, InRound
        <5> QED
          BY <4>1 DEF InOnePlace
      <4> QED
        BY <3>1, <4>2
    <3>3. CASE n # m
      BY <1>3, <1>5, <2>2, <3>1, <3>3, NoNewPlace
    <3> QED
      BY <3>2, <3>3
  <2> QED
    BY <1>3, <2>3
<1>8. CASE HandleOutgoingMessage(m) /\ UNCHANGED uploads
  <2>1. \A n \in Msgs : OneRound(n)' /\ InOnePlace(n)'
    BY <1>1, <1>2, <1>3, <1>4, <1>8, EnqueuingKeepsPlaces
  <2> QED
    BY <1>3, <2>1
<1> QED
  BY <1>2, <1>6, <1>7, <1>8 DEF SendPostedMessage

LEMMA UploadEndsKeepsPlaces ==
    ASSUME TypeOK, PostedOnce, \A n \in Msgs : OneRound(n) /\ InOnePlace(n),
           NEW m \in Msgs, CallbackTaskSucceeded(m)
    PROVE  PostedOnce' /\ \A n \in Msgs : OneRound(n)' /\ InOnePlace(n)'
<1>1. /\ UNCHANGED <<rowVars, pending, willQueue, networkVars, pcq>> /\ uploads[m] > 0
      /\ uploads' = [uploads EXCEPT ![m] = @ - 1] /\ HandleOutgoingMessage(m)
  BY DEF CallbackTaskSucceeded, centerVars
<1>2. PostedOnce' /\ \A n \in Msgs : Posted(n)' = Posted(n)
  BY <1>1 DEF PostedOnce, Posted
<1>3. uploads[m] \in Nat
  BY DEF TypeOK
<1>4. m \notin Unsent /\ ~Promised(m) /\ ~Posted(m) /\ ~InRound(m) /\ uploads[m] <= 1
  <2> HIDE DEF Unsent, Promised, Posted, InRound
  <2> QED
    BY <1>1, <1>3 DEF InOnePlace
<1>5. uploads'[m] = 0 /\ \A n \in Msgs : n # m => uploads'[n] = uploads[n]
  BY <1>1, <1>3, <1>4 DEF TypeOK
<1>6. \A n \in Msgs : OneRound(n)' /\ InOnePlace(n)'
  BY <1>1, <1>2, <1>4, <1>5, EnqueuingKeepsPlaces
<1> QED
  BY <1>2, <1>6

-----------------------------------------------------------------------------
(* Without a timeout or a failed upload nothing is reported as failed.     *)

LEMMA GoodCallsStand ==
    ASSUME willQueue' => willQueue
    PROVE  GoodCalls \subseteq GoodCalls'
  BY DEF GoodCalls

LEMMA NothingNewFails ==
    ASSUME NothingFailed, willQueue' => willQueue,
           reports' \in {reports, <<>>} \/ (reports # <<>> /\ reports' = Tail(reports)),
           dbq' \in {dbq, <<>>} \/ (dbq # <<>> /\ dbq' = Tail(dbq))
    PROVE  NothingFailed'
<1>1. reports' \in Seq(GoodReports)
  BY SeqTail, EmptySeq DEF NothingFailed
<1>2. dbq' \in Seq(GoodCalls)
  BY SeqTail, EmptySeq DEF NothingFailed
<1>3. dbq' \in Seq(GoodCalls')
  BY <1>2, GoodCallsStand, SeqMonotonic
<1> QED
  BY <1>1, <1>3 DEF NothingFailed, GoodReports

LEMMA GoodNewsIsPosted ==
    ASSUME NothingFailed, NEW m \in Msgs, NEW op \in {"SENT"} \cup Receipts, PostReport(m, op),
           UNCHANGED <<willQueue, dbq>>
    PROVE  NothingFailed'
<1>1. [op |-> op, msg |-> m] \in GoodReports
  BY DEF GoodReports, Report, Results, Receipts
<1>2. reports' \in Seq(GoodReports)
  BY <1>1, SeqAppend DEF NothingFailed, PostReport
<1> QED
  BY <1>2 DEF NothingFailed, GoodReports, GoodCalls

LEMMA GoodCallIsPosted ==
    ASSUME NothingFailed, NEW c \in GoodCalls, dbq' = Append(dbq, c), UNCHANGED willQueue,
           reports' = reports \/ (reports # <<>> /\ reports' = Tail(reports))
    PROVE  NothingFailed'
<1>1. reports' \in Seq(GoodReports)
  BY SeqTail DEF NothingFailed
<1>2. dbq' \in Seq(GoodCalls)
  BY SeqAppend DEF NothingFailed
<1> QED
  BY <1>1, <1>2 DEF NothingFailed, GoodReports, GoodCalls

LEMMA SendMessageFailsNothing ==
    ASSUME TypeOK, CallsAreJustified, NothingFailed, NEW m \in Msgs, SendMessage(m)
    PROVE  NothingFailed'
<1> DEFINE c == [op |-> "store", msg |-> m, live |-> IsConnected]
<1>1. \A i \in 1..Len(dbq) : dbq[i] \in Call /\ dbq[i].op # "store"
  BY NoStoreCall, OutboxAssumption DEF SendMessage
<1>2. IsConnected \in BOOLEAN
  BY DEF TypeOK, IsConnected
<1>3. willQueue' = IsConnected /\ dbq' = Append(dbq, c) /\ reports' = reports
  BY DEF SendMessage
<1>4. c \in Call
  BY <1>2 DEF Call
<1>5. c \in GoodCalls'
  BY <1>3, <1>4 DEF GoodCalls
<1>6. \A i \in 1..Len(dbq) : dbq[i] \in GoodCalls'
  <2> SUFFICES ASSUME NEW i \in 1..Len(dbq)
               PROVE  dbq[i] \in GoodCalls'
    OBVIOUS
  <2>1. dbq[i] \in GoodCalls
    BY ElementOfSeq DEF NothingFailed
  <2> QED
    BY <1>1, <2>1 DEF GoodCalls
<1> HIDE DEF c
<1>7. dbq \in Seq(GoodCalls')
  BY <1>6, SeqOfElements DEF NothingFailed
<1>8. dbq' \in Seq(GoodCalls')
  BY <1>3, <1>5, <1>7, SeqAppend
<1> QED
  BY <1>3, <1>8 DEF NothingFailed, GoodReports

LEMMA CenterFailsNothing ==
    ASSUME NothingFailed, CenterStep
    PROVE  NothingFailed'
<1>1. CASE ProcessSentMessage
  BY <1>1, NothingNewFails DEF ProcessSentMessage
<1>2. CASE TryResendingMessagesToNetwork \/ SetNetworkSentMessageAcceptor
  <2>1. DrainCall \in GoodCalls
    BY DEF DrainCall, GoodCalls, Call, Results, Receipts
  <2>2. UNCHANGED <<willQueue, reports>> /\ (dbq' = dbq \/ dbq' = Append(dbq, DrainCall))
    BY <1>2 DEF TryResendingMessagesToNetwork, SetNetworkSentMessageAcceptor
  <2> QED
    BY <2>1, <2>2, NothingNewFails, GoodCallIsPosted
<1>3. CASE ProcessReport
  <2> DEFINE r == Head(reports)
             c == [op |-> r.op, msg |-> r.msg, live |-> TRUE]
  <2>1. r \in GoodReports /\ reports # <<>> /\ reports' = Tail(reports) /\ UNCHANGED willQueue
    BY <1>3, SeqTail DEF ProcessReport, NothingFailed
  <2>2. c \in GoodCalls
    BY <2>1 DEF GoodReports, GoodCalls, Report, Call, Results, Receipts
  <2>3. dbq' = Append(dbq, c)
    BY <1>3 DEF ProcessReport
  <2> HIDE DEF c
  <2> QED
    BY <2>1, <2>2, <2>3, GoodCallIsPosted
<1> QED
  BY <1>1, <1>2, <1>3 DEF CenterStep

LEMMA DatabaseFailsNothing ==
    ASSUME NothingFailed, DatabaseStep
    PROVE  NothingFailed'
<1>1. CASE LoseVolatileState
  BY <1>1, NothingNewFails DEF LoseVolatileState
<1>2. CASE dbq # <<>> /\ dbq' = Tail(dbq) /\ UNCHANGED centerVars
  BY <1>2, NothingNewFails DEF centerVars
<1> QED
  BY <1>1, <1>2 DEF DatabaseStep, StoreSent, StoreResult, StoreReceipt, HandleCall,
     SendAllWaitingMessages, SendAllWaitingMessagesThrows

LEMMA SetupFailsNothing ==
    ASSUME NothingFailed, SetupProtocolClient
    PROVE  NothingFailed'
<1>1. /\ Len(dbq) \in Nat /\ DOMAIN dbq = 1..Len(dbq) /\ \A i \in 1..Len(dbq) : dbq[i] \in GoodCalls
  BY LenProperties, ElementOfSeq DEF NothingFailed
<1>2. willQueue' = FALSE /\ reports' = reports
  BY DEF SetupProtocolClient
<1>3. \A c \in GoodCalls : c \in GoodCalls' /\ (c.op = "drain" => [c EXCEPT !.live = FALSE] \in GoodCalls')
  BY <1>2 DEF GoodCalls, Call, Results, Receipts
<1>4. dbq' \in [1..Len(dbq) -> GoodCalls']
  BY <1>1, <1>3 DEF SetupProtocolClient
<1>5. dbq' \in Seq(GoodCalls')
  BY <1>1, <1>4, SeqOfFunction
<1> QED
  BY <1>2, <1>5 DEF NothingFailed, GoodReports

LEMMA PeersFailNothing ==
    ASSUME TypeOK, NothingFailed, HandleIncomingAcknowledgment \/ PeerStep
    PROVE  NothingFailed'
<1>1. CASE HandleIncomingAcknowledgment
  <2>1. Head(acks) \in Msgs
    BY <1>1, SeqTail DEF HandleIncomingAcknowledgment, TypeOK
  <2>2. UNCHANGED <<willQueue, dbq>> /\ (reports' = reports \/ PostReport(Head(acks), "SENT"))
    BY <1>1 DEF HandleIncomingAcknowledgment, NonReportVars
  <2> QED
    BY <2>1, <2>2, NothingNewFails, GoodNewsIsPosted
<1>2. ASSUME NEW m \in Msgs, NEW receipt \in Receipts, ReceiveReceipt(m, receipt)
      PROVE  NothingFailed'
  <2>1. PostReport(m, receipt) /\ UNCHANGED <<willQueue, dbq>>
    BY <1>2 DEF ReceiveReceipt, NonReportVars
  <2> QED
    BY <2>1, GoodNewsIsPosted
<1> QED
  BY <1>1, <1>2 DEF PeerStep

LEMMA OthersFailNothing ==
    ASSUME NothingFailed,
           \/ UNCHANGED vars \/ Crash \/ Restart \/ SocketDisconnected \/ ConnectToFinished
           \/ ServerTakesPacket \/ SendPostedMessage \/ OutgoingMessagesTimerOnTimer
           \/ \E m \in Msgs : DeleteMessage(m) \/ CallbackTaskSucceeded(m)
    PROVE  NothingFailed'
<1>1. CASE Crash
  BY <1>1, NothingNewFails DEF Crash, LoseVolatileState
<1>2. CASE UNCHANGED <<willQueue, reports, dbq>>
  BY <1>2, NothingNewFails
<1>3. UNCHANGED <<willQueue, reports, dbq>> \/ Crash
  BY DEF vars, Restart, SocketDisconnected, ConnectToFinished, ServerTakesPacket,
     SendPostedMessage, OutgoingMessagesTimerOnTimer, DeleteMessage, CallbackTaskSucceeded,
     centerVars
<1> QED
  BY <1>1, <1>2, <1>3

-----------------------------------------------------------------------------
(* The steps that are no cause for a second round. *)
FreeStep ==
    \/ WorkOff
    \/ SocketDisconnected
    \/ Crash
    \/ \E m \in Msgs : DeleteMessage(m)
    \/ PeerStep
    \/ UNCHANGED vars

LEMMA FreeStepKeepsPlaces ==
    ASSUME TypeOK, RowConsistent, OnlyStoredMessagesTravel, ReportsAreJustified, CountInv,
           OnceInv, FreeStep
    PROVE  PostedOnce' /\ \A m \in Msgs : OneRound(m)' /\ InOnePlace(m)'
<1>1. NothingFailed /\ PostedOnce /\ \A m \in Msgs : OneRound(m) /\ InOnePlace(m)
  BY DEF OnceInv
<1>2. CASE MovesNothing
  BY <1>1, <1>2, MovesNothingKeepsPlaces
<1>3. CASE CenterStep
  BY <1>1, <1>2, <1>3, CenterMovesNothing, ProcessSentMessageKeepsPlaces DEF CenterStep
<1>4. CASE DatabaseStep
  <2>1. CASE StoreSent
    BY <1>1, <2>1, StoreSentKeepsPlaces
  <2>2. CASE SendAllWaitingMessages
    BY <1>1, <2>2, ResendLoopKeepsPlaces
  <2>3. ASSUME NEW op \in Results \cup Receipts, StoreResult(op) \/ StoreReceipt(op)
        PROVE  MovesNothing
    BY <1>1, <2>3, ReportsMoveNothing
  <2>4. CASE SendAllWaitingMessagesThrows
    BY <1>2, <2>4, RefusedRowMovesNothing
  <2> QED
    BY <1>2, <1>4, <2>1, <2>2, <2>3, <2>4 DEF DatabaseStep
<1>5. CASE SendPostedMessage
  BY <1>1, <1>5, SendPostedMessageKeepsPlaces
<1>6. ASSUME NEW m \in Msgs, CallbackTaskSucceeded(m)
      PROVE  PostedOnce' /\ \A n \in Msgs : OneRound(n)' /\ InOnePlace(n)'
  BY <1>1, <1>6, UploadEndsKeepsPlaces
<1>7. ASSUME NEW m \in Msgs, SendMessage(m)
      PROVE  PostedOnce' /\ \A n \in Msgs : OneRound(n)' /\ InOnePlace(n)'
  BY <1>1, <1>7, SendMessageKeepsPlaces
<1>8. CASE \/ OutgoingMessagesTimerOnTimer \/ HandleIncomingAcknowledgment
           \/ ServerTakesPacket \/ ConnectToFinished \/ SocketDisconnected
           \/ SetupProtocolClient
  BY <1>2, <1>8, NetworkMovesNothing
<1>9. CASE \/ UNCHANGED vars \/ Crash \/ Restart \/ PeerStep
           \/ \E m \in Msgs : DeleteMessage(m)
  BY <1>2, <1>9, OutsideMovesNothing
<1> QED
  BY <1>3, <1>4, <1>5, <1>6, <1>7, <1>8, <1>9 DEF FreeStep, WorkOff, ClientStep

LEMMA FreeStepFailsNothing ==
    ASSUME TypeOK, CallsAreJustified, NothingFailed, FreeStep
    PROVE  NothingFailed'
<1>1. CASE CenterStep
  BY <1>1, CenterFailsNothing
<1>2. CASE DatabaseStep
  BY <1>2, DatabaseFailsNothing
<1>3. CASE HandleIncomingAcknowledgment \/ PeerStep
  BY <1>3, PeersFailNothing
<1>4. ASSUME NEW m \in Msgs, SendMessage(m)
      PROVE  NothingFailed'
  BY <1>4, SendMessageFailsNothing
<1>5. CASE SetupProtocolClient
  BY <1>5, SetupFailsNothing
<1>6. CASE \/ UNCHANGED vars \/ Crash \/ Restart \/ SocketDisconnected \/ ConnectToFinished
           \/ ServerTakesPacket \/ SendPostedMessage \/ OutgoingMessagesTimerOnTimer
           \/ \E m \in Msgs : DeleteMessage(m) \/ CallbackTaskSucceeded(m)
  BY <1>6, OthersFailNothing
<1> QED
  BY <1>1, <1>2, <1>3, <1>4, <1>5, <1>6 DEF FreeStep, WorkOff, ClientStep

LEMMA FreeStepKeepsOnce ==
    TypeOK /\ RowConsistent /\ OnlyStoredMessagesTravel /\ ReportsAreJustified /\ CountInv
        /\ OnceInv /\ FreeStep => OnceInv'
<1> SUFFICES ASSUME TypeOK, RowConsistent, OnlyStoredMessagesTravel, ReportsAreJustified,
                    CountInv, OnceInv, FreeStep
             PROVE  OnceInv'
  OBVIOUS
<1>1. CallsAreJustified /\ NothingFailed
  BY DEF ReportsAreJustified, OnceInv
<1>2. NothingFailed'
  BY <1>1, FreeStepFailsNothing
<1> QED
  BY <1>2, FreeStepKeepsPlaces DEF OnceInv

LEMMA NothingIsAnywhereYet == Init => OnceInv
<1> SUFFICES ASSUME Init
             PROVE  OnceInv
  OBVIOUS
<1>1. /\ pending = NoMsg /\ pcq = <<>> /\ reports = <<>> /\ dbq = <<>> /\ wire = <<>>
      /\ outgoing = <<>> /\ uploads = [m \in Msgs |-> 0] /\ accepted = [m \in Msgs |-> {}]
  BY DEF Init
<1>2. 1..Len(pcq) = {} /\ 1..Len(UnderWay) = {}
  <2>1. UnderWay = <<>>
    BY <1>1, EmptySeq, ConcatEmptySeq DEF UnderWay
  <2> QED
    BY <1>1, <2>1, EmptySeq
<1>3. PostedOnce /\ NothingFailed
  BY <1>1, <1>2, EmptySeq DEF PostedOnce, NothingFailed
<1>4. ASSUME NEW m \in Msgs
      PROVE  OneRound(m) /\ InOnePlace(m)
  <2>1. ~Posted(m) /\ ~InRound(m) /\ ~Promised(m) /\ OneRound(m) /\ uploads[m] = 0
    BY <1>1, <1>2, OutboxAssumption DEF Posted, InRound, Promised, OneRound
  <2> HIDE DEF Unsent, Promised, Posted, InRound
  <2> QED
    BY <2>1 DEF InOnePlace
<1> QED
  BY <1>3, <1>4 DEF OnceInv

(* What the places of a message say of its copies. *)
LEMMA OneRoundNoDuplicates ==
    TypeOK /\ OnceInv => NoDuplicateCopies
<1> SUFFICES ASSUME TypeOK, OnceInv, NEW m \in Msgs, NEW to \in Recipients[m]
             PROVE  Cardinality(Copies(m, to)) <= 1 /\ (to \in accepted[m] => Copies(m, to) = {})
  BY DEF NoDuplicateCopies
<1> DEFINE w == Len(wire)
           o == Len(outgoing)
           C == Copies(m, to)
<1>1. /\ w \in Nat /\ o \in Nat /\ DOMAIN wire = 1..w /\ DOMAIN outgoing = 1..o
      /\ wire \in Seq(Packet) /\ outgoing \in Seq(Packet)
  BY LenProperties DEF TypeOK
<1>2. /\ Len(UnderWay) = w + o
      /\ \A i \in 1..w + o : UnderWay[i] = IF i <= w THEN wire[i] ELSE outgoing[i - w]
  BY <1>1, ConcatProperties DEF UnderWay
<1>3. OneRound(m)
  BY DEF OnceInv
<1>4. C = {i \in 1..o : outgoing[i].msg = m /\ outgoing[i].to = to /\ outgoing[i].live}
              \cup {-i : i \in {j \in 1..w : wire[j].msg = m /\ wire[j].to = to /\ wire[j].live}}
  BY <1>1 DEF Copies
<1>5. \A i \in 1..w : wire[i] \in Packet
  BY <1>1, ElementOfSeq
<1>6. \A i \in 1..o : outgoing[i] \in Packet
  BY <1>1, ElementOfSeq
<1> HIDE DEF w, o, C
<1> DEFINE Place(x) == IF x > 0 THEN w + x ELSE -x
<1>7. ASSUME NEW x \in C
      PROVE  /\ x \in Int /\ Place(x) \in 1..w + o
             /\ UnderWay[Place(x)] \in CopiesOf(m) /\ UnderWay[Place(x)].to = to
  <2>1. CASE x \in 1..o /\ outgoing[x].msg = m /\ outgoing[x].to = to /\ outgoing[x].live
    <3>1. PICK k : k = w + x
      OBVIOUS
    <3>2. w \in Nat /\ o \in Nat /\ x \in 1..o
      BY <1>1, <2>1
    <3>3. k \in 1..w + o /\ ~(k <= w) /\ k - w = x /\ x > 0
      <4> HIDE DEF Place
      <4> QED
        BY <3>1, <3>2
    <3>4. UnderWay[k] = outgoing[k - w]
      BY <1>2, <3>3
    <3>5. UnderWay[k] = outgoing[x] /\ outgoing[x] \in Packet
      BY <1>6, <3>2, <3>3, <3>4
    <3>6. Place(x) = k
      BY <3>1, <3>3
    <3>7. UnderWay[k] \in CopiesOf(m) /\ UnderWay[k].to = to
      BY <2>1, <3>5 DEF CopiesOf
    <3> HIDE DEF Place
    <3> QED
      BY <3>2, <3>3, <3>6, <3>7
  <2>2. ASSUME NEW i \in 1..w, x = -i, wire[i].msg = m, wire[i].to = to, wire[i].live
        PROVE  /\ x \in Int /\ Place(x) \in 1..w + o
               /\ UnderWay[Place(x)] \in CopiesOf(m) /\ UnderWay[Place(x)].to = to
    <3>1. x \in Int /\ Place(x) = i /\ i \in 1..w + o /\ i <= w
      BY <1>1, <2>2
    <3>2. UnderWay[Place(x)] = wire[i]
      BY <1>2, <3>1
    <3> QED
      BY <1>5, <2>2, <3>1, <3>2 DEF CopiesOf
  <2> QED
    BY <1>4, <1>7, <2>1, <2>2
<1>8. ASSUME NEW x \in C, NEW y \in C
      PROVE  x = y
  <2>1. Place(x) = Place(y)
    <3> HIDE DEF Place
    <3> QED
      BY <1>2, <1>3, <1>7 DEF OneRound
  <2>2. /\ x \in 1..o \/ -x \in 1..w
        /\ y \in 1..o \/ -y \in 1..w
    BY <1>1, <1>4
  <2>3. x \in Int /\ y \in Int
    BY <1>7
  <2> QED
    BY <1>1, <2>1, <2>2, <2>3
<1>9. to \in accepted[m] => C = {}
  <2> SUFFICES ASSUME to \in accepted[m], NEW x \in C
               PROVE  FALSE
    OBVIOUS
  <2> HIDE DEF Place
  <2> QED
    BY <1>2, <1>3, <1>7 DEF OneRound
<1>10. Cardinality(C) <= 1
  <2>1. CASE C = {}
    BY <2>1, FS_EmptySet
  <2>2. ASSUME NEW x \in C
        PROVE  Cardinality(C) <= 1
    <3>1. C = {x}
      BY <1>8
    <3>2. Cardinality({x}) = 1
      BY FS_Singleton
    <3>3. Cardinality(C) = Cardinality({x})
      BY <3>1
    <3> HIDE DEF C
    <3> QED
      BY <3>2, <3>3
  <2> QED
    BY <2>1, <2>2
<1> QED
  BY <1>9, <1>10 DEF C

-----------------------------------------------------------------------------
(* The budget counts the causes. *)
BudgetOK ==
    budget \in [timer: 0..MaxTimers, timeout: 0..MaxTimeouts, loss: Nat, crash: Nat,
                delete: Nat, receipt: Nat]

LEMMA SpendingShrinks ==
    ASSUME BudgetOK, NEW fault \in {"timer", "timeout", "loss", "crash", "delete", "receipt"},
           Spend(fault)
    PROVE  BudgetOK' /\ (NoCause' => NoCause /\ fault \notin {"timer", "timeout"})
<1>1. MaxTimers \in Nat /\ MaxTimeouts \in Nat
  BY BudgetAssumption
<1>2. CASE fault = "timer"
  BY <1>1, <1>2 DEF BudgetOK, Spend, NoCause
<1>3. CASE fault = "timeout"
  BY <1>1, <1>3 DEF BudgetOK, Spend, NoCause
<1>4. CASE fault \in {"loss", "crash", "delete", "receipt"}
  BY <1>1, <1>4 DEF BudgetOK, Spend, NoCause
<1> QED
  BY <1>2, <1>3, <1>4

LEMMA StepKeepsBudget ==
    ASSUME BudgetOK, [MCNext]_mcVars
    PROVE  BudgetOK' /\ [Next]_vars /\ (NoCause' => NoCause /\ FreeStep)
<1>1. ASSUME UNCHANGED budget, FreeStep
      PROVE  BudgetOK' /\ (NoCause' => NoCause /\ FreeStep)
  BY <1>1 DEF BudgetOK, NoCause
<1>2. CASE UNCHANGED mcVars
  BY <1>1, <1>2 DEF mcVars, FreeStep
<1>3. CASE WorkOff /\ UNCHANGED budget
  <2>1. Next
    BY <1>3 DEF WorkOff, Next, UserStep, UploadEnds
  <2> QED
    BY <1>1, <1>3, <2>1 DEF FreeStep
<1>4. ASSUME NEW m \in Msgs, CallbackTaskFailed(m) \/ AcknowledgmentTimeout(m), Spend("timeout")
      PROVE  BudgetOK' /\ [Next]_vars /\ ~NoCause'
  <2>1. Next
    BY <1>4 DEF Next, UploadEnds
  <2> QED
    BY <1>4, <2>1, SpendingShrinks
<1>5. CASE (\E old \in SUBSET queued : OnQueueTimeoutTimerFire(old)) /\ Spend("timer")
  <2>1. Next
    BY <1>5 DEF Next
  <2> QED
    BY <1>5, <2>1, SpendingShrinks
<1>6. CASE SocketDisconnected /\ Spend("loss")
  BY <1>6, SpendingShrinks DEF Next, FreeStep
<1>7. CASE Crash /\ Spend("crash")
  BY <1>7, SpendingShrinks DEF Next, FreeStep
<1>8. CASE (\E m \in Msgs : DeleteMessage(m)) /\ Spend("delete")
  BY <1>8, SpendingShrinks DEF Next, FreeStep, UserStep
<1>9. CASE PeerStep /\ Spend("receipt")
  BY <1>9, SpendingShrinks DEF Next, FreeStep
<1> QED
  BY <1>2, <1>3, <1>4, <1>5, <1>6, <1>7, <1>8, <1>9 DEF MCNext, mcVars

(* As long as neither the queue timer nor a timeout nor a failed upload    *)
(* took a message off the queue, no copy is sent a second time: the        *)
(* message center's post, the drain on connectToFinished and the drain of  *)
(* a new acceptor never hand the client the same message twice, whatever   *)
(* connections break, crashes, restarts and deletions come between.        *)
THEOREM NothingIsSentTwice == MCSpec => []CopiesNeedACause
<1>1. MCInit => Init /\ BudgetOK
  BY BudgetAssumption DEF MCInit, Bounds, BudgetOK
<1>2. BudgetOK /\ [MCNext]_mcVars
          => BudgetOK' /\ [Next]_vars /\ (NoCause' => NoCause /\ FreeStep)
  BY StepKeepsBudget
<1>3. TypeOK /\ OnceInv => NoDuplicateCopies
  BY OneRoundNoDuplicates
<1>4. (NoCause => NoDuplicateCopies) => CopiesNeedACause
  BY DEF NoCause, CopiesNeedACause
<1> QED
  BY <1>1, <1>2, <1>3, <1>4, NothingIsAnywhereYet, FreeStepKeepsOnce, InitCountsNothing,
     StepKeepsCountInv, TypeCorrect, RowsAreConsistent, NothingUnstoredTravels,
     ReportsAlwaysJustified, PTL DEF MCSpec, Spec

=============================================================================
