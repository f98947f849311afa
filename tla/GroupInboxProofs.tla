-------------------------- MODULE GroupInboxProofs --------------------------
(***************************************************************************)
(* Proofs about GroupInbox for any groups, contacts and messages, with and *)
(* without TRUST_OTHERS.  TypeOK is inductive by itself.  That the         *)
(* database accepts every call needs to know what the message center found *)
(* out before it posted the call at hand (CallsAreSound): the blocking     *)
(* questions keep this true until the call is executed.                    *)
(***************************************************************************)
EXTENDS GroupInbox, SequenceFacts, TLAPS

(* The constants at a message. *)
LEMMA MessageFacts ==
    ASSUME NEW m \in Messages
    PROVE  /\ Kind[m] \in Kinds /\ GroupOf[m] \in Groups
           /\ Sender[m] \in Contacts /\ Sender[m] \in People /\ Sender[m] # Self
           /\ Owner[GroupOf[m]] \in People /\ MembersIn[m] \subseteq People
  BY InboxAssumption DEF People

(* No sync request is ever accepted: its sender would have to be us. *)
LEMMA SyncIsRefused ==
    ASSUME NEW m \in Messages, ~Refused(m)
    PROVE  Kind[m] # "sync"
  BY MessageFacts DEF Refused

-----------------------------------------------------------------------------
(* Every step keeps the types.                                             *)

LEMMA InitHasTypes == Init => TypeOK
<1> SUFFICES ASSUME Init
             PROVE  TypeOK
  OBVIOUS
<1>1. members \in [Groups -> SUBSET People]
  BY InboxAssumption DEF Init
<1>2. /\ stored \in Seq(Messages) /\ inbox \in Seq(Messages)
      /\ replay \in Seq(Messages) /\ dbq \in Seq(Call)
      /\ posted \in Seq(Messages) /\ queue \in [Groups -> Seq(Messages)]
  BY EmptySeq DEF Init
<1>3. /\ \A g \in Groups : \A i \in DOMAIN queue[g] : queue[g][i] \in Held(g)
      /\ \A i \in DOMAIN replay : Kind[replay[i]] \notin {"creation", "sync"}
  <2>1. DOMAIN replay = {} /\ \A g \in Groups : DOMAIN queue[g] = {}
    BY DEF Init
  <2> QED
    BY <2>1
<1> QED
  BY <1>1, <1>2, <1>3 DEF Init, TypeOK

(* What a call of the message center does to the tables. *)
LEMMA ExecuteKeepsTypes ==
    ASSUME TypeOK, NEW call \in Call, Execute(call)
    PROVE  /\ status' \in [Groups -> {"unknown", "known", "temporary", "deleted"}]
           /\ members' \in [Groups -> SUBSET People]
           /\ titled' \in [Groups -> BOOLEAN]
           /\ stored' \in Seq(Messages)
<1>1. call.msg \in Messages /\ call.with \in SUBSET People
  BY DEF Call
<1>2. InsertRow(call) => stored' \in Seq(Messages)
  BY <1>1, SeqAppend DEF InsertRow, TypeOK
<1> DEFINE g == GroupOf[call.msg]
<1>3. g \in Groups
  BY <1>1, MessageFacts
<1> HIDE DEF g
<1>4. ASSUME NEW with \in SUBSET People
      PROVE  /\ SetGroupMembers(g, with) =>
                   /\ status' \in [Groups -> {"unknown", "known", "temporary", "deleted"}]
                   /\ members' \in [Groups -> SUBSET People]
                   /\ titled' \in [Groups -> BOOLEAN]
             /\ \A awaitingSync \in BOOLEAN : AddGroup(g, with, awaitingSync) =>
                   /\ status' \in [Groups -> {"unknown", "known", "temporary", "deleted"}]
                   /\ members' \in [Groups -> SUBSET People]
                   /\ titled' \in [Groups -> BOOLEAN]
  BY <1>3 DEF SetGroupMembers, AddGroup, TypeOK
<1>5. members[g] \ {Sender[call.msg]} \in SUBSET People
  BY <1>3 DEF TypeOK
<1> QED
  BY <1>1, <1>2, <1>3, <1>4, <1>5 DEF Execute, TypeOK, g

LEMMA ExecuteStoreKeepsTypes == TypeOK /\ ExecuteStore => TypeOK'
<1> SUFFICES ASSUME TypeOK, ExecuteStore
             PROVE  TypeOK'
  OBVIOUS
<1>1. Head(dbq) \in Call /\ dbq' \in Seq(Call)
  BY SeqTail DEF ExecuteStore, TypeOK
<1>2. CASE CanExecute(Head(dbq))
  BY <1>1, <1>2, ExecuteKeepsTypes DEF ExecuteStore, TypeOK, memoryVars, serverVars
<1>3. CASE ~CanExecute(Head(dbq))
  <2>1. MessagesIn(<<Head(dbq)>>) \subseteq Messages
    BY <1>1 DEF MessagesIn, Call
  <2> QED
    BY <1>1, <1>3, <2>1 DEF ExecuteStore, TypeOK, tableVars, memoryVars, serverVars
<1> QED
  BY <1>2, <1>3

LEMMA TakeKeepsTypes ==
    ASSUME TypeOK, NEW m \in Messages, Take(m)
    PROVE  /\ inbox' \in Seq(Messages) /\ replay' \in Seq(Messages)
           /\ \A i \in DOMAIN replay' : Kind[replay'[i]] \notin {"creation", "sync"}
<1>1. CASE replay # <<>> /\ replay' = Tail(replay) /\ UNCHANGED inbox
  BY <1>1, SeqTail, TailElements DEF TypeOK
<1>2. CASE inbox # <<>> /\ inbox' = Tail(inbox) /\ UNCHANGED replay
  BY <1>2, SeqTail DEF TypeOK
<1> QED
  BY <1>1, <1>2 DEF Take

LEMMA CallsHaveTypes ==
    ASSUME TypeOK, NEW m \in Messages
    PROVE  /\ SaveCall(m) \in Call
           /\ NewGroupCall(m) \in Call
           /\ CreationCall(m) \in Call \/ Kind[m] # "creation"
<1>1. TrustedMembers(m) \in SUBSET People
  BY MessageFacts DEF TrustedMembers, TypeOK, People
<1> QED
  BY <1>1, MessageFacts DEF SaveCall, NewGroupCall, CreationCall, Call

LEMMA CenterStepKeepsTypes == TypeOK /\ CenterStep => TypeOK'
<1> SUFFICES ASSUME TypeOK, NEW m \in Messages,
                    \/ IgnoreMessage(m)
                    \/ AcceptMessage(m)
                    \/ TrustSender(m)
                    \/ QueueMessage(m)
                    \/ ProcessReceivedGroupCreation(m)
             PROVE  TypeOK'
  BY DEF CenterStep
<1>1. GroupOf[m] \in Groups
  BY MessageFacts
<1>2. RequestSyncForGroupIfApplicable(GroupOf[m])
        => lastSync' \in [Groups -> {"never", "recent", "old"}]
  BY DEF RequestSyncForGroupIfApplicable, TypeOK
<1>3. CASE IgnoreMessage(m)
  BY <1>3, TakeKeepsTypes DEF IgnoreMessage, TypeOK, tableVars, serverVars
<1>4. CASE AcceptMessage(m)
  <2>1. dbq' \in Seq(Call)
    BY <1>4, CallsHaveTypes, SeqAppend DEF AcceptMessage, TypeOK
  <2> QED
    BY <1>4, <2>1, TakeKeepsTypes DEF AcceptMessage, TypeOK, tableVars, serverVars
<1>5. CASE TrustSender(m)
  <2>1. dbq' \in Seq(Call)
    <3>1. TrustCalls(m) \in Seq(Call)
      BY CallsHaveTypes DEF TrustCalls
    <3> QED
      BY <1>5, <3>1, SeqConcat DEF TrustSender, TypeOK
  <2> QED
    BY <1>2, <1>5, <2>1, TakeKeepsTypes
       DEF TrustSender, Unrecognised, TypeOK, tableVars, serverVars
<1>6. CASE QueueMessage(m)
  <2>1. Kind[m] \notin {"creation", "sync"}
    BY <1>6, SyncIsRefused DEF QueueMessage, Unrecognised
  <2>2. queue' = [queue EXCEPT ![GroupOf[m]] = Append(@, m)]
    BY <1>6 DEF QueueMessage, StoreGroupMessage
  <2>3. queue' \in [Groups -> Seq(Messages)]
    BY <1>1, <2>2, SeqAppend DEF TypeOK
  <2>4. ASSUME NEW g \in Groups, NEW i \in DOMAIN queue'[g]
        PROVE  queue'[g][i] \in Held(g)
    <3>1. CASE g = GroupOf[m]
      BY <2>1, <2>2, <2>4, <3>1, AppendElements DEF TypeOK, Held
    <3>2. CASE g # GroupOf[m]
      BY <2>2, <2>4, <3>2 DEF TypeOK
    <3> QED
      BY <3>1, <3>2
  <2> QED
    BY <1>2, <1>6, <2>3, <2>4, TakeKeepsTypes
       DEF QueueMessage, Unrecognised, StoreGroupMessage, TypeOK, tableVars, serverVars, Held
<1>7. CASE ProcessReceivedGroupCreation(m)
  <2>1. dbq' \in Seq(Call)
    BY <1>7, CallsHaveTypes, SeqAppend DEF ProcessReceivedGroupCreation, TypeOK
  <2>2. /\ inbox' \in Seq(Messages) /\ replay' \in Seq(Messages)
        /\ queue' \in [Groups -> Seq(Messages)]
    BY <1>1, <1>7, SeqTail, EmptySeq
       DEF ProcessReceivedGroupCreation, ReplayQueued, TypeOK
  <2>3. \A i \in DOMAIN replay' : Kind[replay'[i]] \notin {"creation", "sync"}
    BY <1>1, <1>7 DEF ProcessReceivedGroupCreation, ReplayQueued, TypeOK, Held
  <2>4. ASSUME NEW g \in Groups, NEW i \in DOMAIN queue'[g]
        PROVE  queue'[g][i] \in Held(g)
    <3>1. queue' = [queue EXCEPT ![GroupOf[m]] = <<>>]
      BY <1>7 DEF ProcessReceivedGroupCreation, ReplayQueued
    <3>2. g # GroupOf[m]
      <4>1. DOMAIN <<>> = {}
        OBVIOUS
      <4> QED
        BY <2>4, <3>1, <4>1 DEF TypeOK
    <3> QED
      BY <2>4, <3>1, <3>2 DEF TypeOK
  <2> QED
    BY <1>7, <2>1, <2>2, <2>3, <2>4
       DEF ProcessReceivedGroupCreation, TypeOK, tableVars, serverVars, Held
<1> QED
  BY <1>3, <1>4, <1>5, <1>6, <1>7

LEMMA RequestStepKeepsTypes ==
    ASSUME TypeOK, NEW g \in Groups, SendSyncRequest(g) \/ FiveMinutesPass(g)
    PROVE  TypeOK'
<1>1. lastSync' \in [Groups -> {"never", "recent", "old"}]
  BY DEF SendSyncRequest, FiveMinutesPass, TypeOK
<1>2. UNCHANGED <<app, tableVars, memoryVars, dbq, acks, serverVars, lost>>
  BY DEF SendSyncRequest, FiveMinutesPass
<1> QED
  BY <1>1, <1>2 DEF TypeOK, Held, tableVars, memoryVars, serverVars

LEMMA ServerStepKeepsTypes ==
    ASSUME TypeOK, NEW m \in Messages, Post(m) \/ Deliver(m) \/ AckArrives(m)
    PROVE  TypeOK'
<1>1. CASE Post(m)
  BY <1>1, SeqAppend DEF Post, TypeOK, Held, tableVars, memoryVars
<1>2. CASE Deliver(m)
  <2>1. inbox' \in Seq(Messages) /\ delivered' \in [Messages -> Nat]
    BY <1>2, SeqAppend DEF Deliver, TypeOK
  <2> QED
    BY <1>2, <2>1 DEF Deliver, TypeOK, Held, tableVars
<1>3. CASE AckArrives(m)
  BY <1>3 DEF AckArrives, TypeOK, Held, tableVars, memoryVars
<1> QED
  BY <1>1, <1>2, <1>3

LEMMA SessionStepKeepsTypes ==
    ASSUME TypeOK, SocketDisconnected \/ Reconnect
    PROVE  TypeOK'
<1>1. CASE SocketDisconnected
  BY <1>1 DEF SocketDisconnected, TypeOK, Held, tableVars, memoryVars
<1>2. CASE Reconnect
  BY <1>2 DEF Reconnect, TypeOK, Held, tableVars, memoryVars
<1> QED
  BY <1>1, <1>2

(* The end of the process, whatever the tables are then. *)
LEMMA LosingStateKeepsTypes ==
    ASSUME TypeOK, LoseVolatileState, stored' \in Seq(Messages),
           UNCHANGED <<status, members, titled>>
    PROVE  TypeOK'
<1>1. /\ inbox' \in Seq(Messages) /\ replay' \in Seq(Messages)
      /\ dbq' \in Seq(Call) /\ queue' \in [Groups -> Seq(Messages)]
  BY EmptySeq DEF LoseVolatileState
<1>2. DOMAIN replay' = {} /\ \A g \in Groups : DOMAIN queue'[g] = {}
  BY DEF LoseVolatileState
<1>3. MessagesIn(dbq) \subseteq Messages
  <2>1. \A i \in DOMAIN dbq : dbq[i] \in Call
    BY LenProperties, ElementOfSeq DEF TypeOK
  <2> QED
    BY <2>1 DEF MessagesIn, Call
<1> QED
  BY <1>1, <1>2, <1>3 DEF LoseVolatileState, TypeOK, Held

LEMMA ProcessStepKeepsTypes == TypeOK /\ (Crash \/ Exit \/ Restart) => TypeOK'
<1> SUFFICES ASSUME TypeOK, Crash \/ Exit \/ Restart
             PROVE  TypeOK'
  OBVIOUS
<1>1. CASE Crash
  <2>1. stored' \in Seq(Messages)
    <3>1. CASE UNCHANGED stored
      BY <3>1 DEF TypeOK
    <3>2. CASE dbq # <<>> /\ InsertRow(Head(dbq))
      <4>1. Head(dbq) \in Call
        BY <3>2, SeqTail DEF TypeOK
      <4> QED
        BY <3>2, <4>1, SeqAppend DEF TypeOK, InsertRow, Call
    <3> QED
      BY <1>1, <3>1, <3>2 DEF Crash
  <2> QED
    BY <1>1, <2>1, LosingStateKeepsTypes DEF Crash
<1>2. CASE Exit
  BY <1>2, LosingStateKeepsTypes DEF Exit, tableVars, TypeOK
<1>3. CASE Restart
  BY <1>3 DEF Restart, TypeOK, Held, tableVars, memoryVars, serverVars
<1> QED
  BY <1>1, <1>2, <1>3

LEMMA StepKeepsTypes == TypeOK /\ [Next]_vars => TypeOK'
<1> SUFFICES ASSUME TypeOK, [Next]_vars
             PROVE  TypeOK'
  OBVIOUS
<1>1. CASE ExecuteStore
  BY <1>1, ExecuteStoreKeepsTypes
<1>2. CASE CenterStep
  BY <1>2, CenterStepKeepsTypes
<1>3. CASE \E g \in Groups : SendSyncRequest(g) \/ FiveMinutesPass(g)
  BY <1>3, RequestStepKeepsTypes
<1>4. CASE \E m \in Messages : Post(m) \/ Deliver(m) \/ AckArrives(m)
  BY <1>4, ServerStepKeepsTypes
<1>5. CASE SocketDisconnected \/ Reconnect
  BY <1>5, SessionStepKeepsTypes
<1>6. CASE Crash \/ Exit \/ Restart
  BY <1>6, ProcessStepKeepsTypes
<1>7. CASE UNCHANGED vars
  BY <1>7 DEF vars, TypeOK, Held, tableVars, memoryVars, serverVars
<1> QED
  BY <1>1, <1>2, <1>3, <1>4, <1>5, <1>6, <1>7 DEF Next

(* Types: in particular the message queue never holds a creation or a sync *)
(* request, which the loop over the dequeued messages has no case for, and *)
(* no message of another group.                                            *)
THEOREM InboxTypeCorrect == Spec => []TypeOK
<1>1. Init => TypeOK
  BY InitHasTypes
<1>2. TypeOK /\ [Next]_vars => TypeOK'
  BY StepKeepsTypes
<1> QED
  BY <1>1, <1>2, PTL DEF Spec

-----------------------------------------------------------------------------
(* What the database thread finds.                                         *)

(* The calls that wait are those of the last message that the message      *)
(* center worked on, and its check of the sender still holds.  A group is  *)
(* made for a message under TRUST_OTHERS only.                             *)
CallsAreSound ==
    \/ dbq = <<>>
    \/ \E m \in Messages :
        /\ ~Refused(m)
        /\ \/ Kind[m] # "creation" /\ Recognised(m) /\ dbq = <<SaveCall(m)>>
           \/ Kind[m] = "creation" /\ dbq = <<CreationCall(m)>>
           \/ /\ TRUE \in Trusts
              /\ Kind[m] # "creation"
              /\ \E with \in SUBSET People :
                    /\ {Self, Sender[m]} \subseteq with
                    /\ dbq = <<[op |-> "newGroup", msg |-> m, with |-> with],
                               SaveCall(m)>>

(* A message of a recognised sender is one that the database accepts. *)
LEMMA RecognisedCanExecute ==
    ASSUME NEW m \in Messages, ~Refused(m), Kind[m] # "creation", Recognised(m)
    PROVE  CanExecute(SaveCall(m))
<1>1. Kind[m] \in {"text", "media", "title", "leave"}
  BY MessageFacts, SyncIsRefused DEF Kinds
<1> QED
  BY <1>1 DEF CanExecute, SaveCall, Recognised, Refused

LEMMA CreationCanExecute ==
    ASSUME NEW m \in Messages, ~Refused(m), Kind[m] = "creation"
    PROVE  CanExecute(CreationCall(m))
  BY DEF CanExecute, CreationCall, Refused

LEMMA SoundCallsSucceed ==
    ASSUME CallsAreSound
    PROVE  StoresSucceed
<1> SUFFICES ASSUME dbq # <<>>
             PROVE  CanExecute(Head(dbq))
  BY DEF StoresSucceed
<1>1. PICK m \in Messages :
        /\ ~Refused(m)
        /\ \/ Kind[m] # "creation" /\ Recognised(m) /\ dbq = <<SaveCall(m)>>
           \/ Kind[m] = "creation" /\ dbq = <<CreationCall(m)>>
           \/ \E with \in SUBSET People :
                dbq = <<[op |-> "newGroup", msg |-> m, with |-> with], SaveCall(m)>>
  BY DEF CallsAreSound
<1>2. CASE Kind[m] # "creation" /\ Recognised(m) /\ dbq = <<SaveCall(m)>>
  BY <1>1, <1>2, RecognisedCanExecute
<1>3. CASE Kind[m] = "creation" /\ dbq = <<CreationCall(m)>>
  BY <1>1, <1>3, CreationCanExecute
<1>4. CASE \E with \in SUBSET People :
             dbq = <<[op |-> "newGroup", msg |-> m, with |-> with], SaveCall(m)>>
  BY <1>4 DEF CanExecute
<1> QED
  BY <1>1, <1>2, <1>3, <1>4

(* After a group was made for it, the sender of a message is a member. *)
LEMMA NewGroupMakesMembers ==
    ASSUME TypeOK, NEW m \in Messages, NEW with \in SUBSET People,
           {Self, Sender[m]} \subseteq with,
           Execute([op |-> "newGroup", msg |-> m, with |-> with])
    PROVE  Recognised(m)'
<1>1. AddGroup(GroupOf[m], with, TRUE)
  BY DEF Execute
<1>2. GroupOf[m] \in Groups
  BY MessageFacts
<1> QED
  BY <1>1, <1>2 DEF AddGroup, Recognised, HasGroup, TypeOK

LEMMA ExecuteStoreKeepsCallsSound ==
    ASSUME TypeOK, CallsAreSound, ExecuteStore
    PROVE  CallsAreSound'
<1>1. PICK m \in Messages :
        /\ ~Refused(m)
        /\ \/ Kind[m] # "creation" /\ Recognised(m) /\ dbq = <<SaveCall(m)>>
           \/ Kind[m] = "creation" /\ dbq = <<CreationCall(m)>>
           \/ /\ TRUE \in Trusts
              /\ Kind[m] # "creation"
              /\ \E with \in SUBSET People :
                    /\ {Self, Sender[m]} \subseteq with
                    /\ dbq = <<[op |-> "newGroup", msg |-> m, with |-> with],
                               SaveCall(m)>>
  BY DEF CallsAreSound, ExecuteStore
<1>2. dbq' = Tail(dbq) /\ Execute(Head(dbq))
  BY SoundCallsSucceed DEF ExecuteStore, StoresSucceed
<1>3. CASE dbq = <<SaveCall(m)>> \/ dbq = <<CreationCall(m)>>
  <2>1. dbq' = <<>>
    BY <1>2, <1>3
  <2> QED
    BY <2>1 DEF CallsAreSound
<1>4. ASSUME TRUE \in Trusts, Kind[m] # "creation", NEW with \in SUBSET People,
             {Self, Sender[m]} \subseteq with,
             dbq = <<[op |-> "newGroup", msg |-> m, with |-> with], SaveCall(m)>>
      PROVE  CallsAreSound'
  <2>1. Head(dbq) = [op |-> "newGroup", msg |-> m, with |-> with]
    BY <1>4
  <2>2. dbq' = <<SaveCall(m)>>
    BY <1>2, <1>4
  <2>3. Recognised(m)'
    BY <1>2, <1>4, <2>1, NewGroupMakesMembers
  <2> QED
    BY <1>1, <1>4, <2>2, <2>3 DEF CallsAreSound, Refused, SaveCall
<1> QED
  BY <1>1, <1>3, <1>4

(* A handler finds no call waiting and leaves the tables alone, so that    *)
(* what it found out is true when its own calls wait.                      *)
LEMMA CenterStepKeepsCallsSound ==
    ASSUME TypeOK, CallsAreSound, CenterStep
    PROVE  CallsAreSound'
<1>1. PICK m \in Messages :
        \/ IgnoreMessage(m)
        \/ AcceptMessage(m)
        \/ TrustSender(m)
        \/ QueueMessage(m)
        \/ ProcessReceivedGroupCreation(m)
  BY DEF CenterStep
<1>2. dbq = <<>>
  BY <1>1 DEF IgnoreMessage, AcceptMessage, TrustSender, QueueMessage,
              ProcessReceivedGroupCreation, Unrecognised, Ready
<1>3. CASE IgnoreMessage(m)
  BY <1>2, <1>3 DEF IgnoreMessage, CallsAreSound
<1>4. CASE QueueMessage(m)
  BY <1>2, <1>4 DEF QueueMessage, CallsAreSound
<1>5. CASE AcceptMessage(m)
  <2>1. dbq' = <<SaveCall(m)>>
    BY <1>2, <1>5 DEF AcceptMessage
  <2>2. ~Refused(m) /\ Kind[m] # "creation" /\ Recognised(m)'
    BY <1>5 DEF AcceptMessage, tableVars, Recognised, HasGroup
  <2> QED
    BY <2>1, <2>2 DEF CallsAreSound, Refused, SaveCall
<1>6. CASE ProcessReceivedGroupCreation(m)
  <2>1. dbq' = <<CreationCall(m)>>
    BY <1>2, <1>6 DEF ProcessReceivedGroupCreation
  <2>2. ~Refused(m) /\ Kind[m] = "creation"
    BY <1>6 DEF ProcessReceivedGroupCreation
  <2> QED
    BY <2>1, <2>2 DEF CallsAreSound, Refused, CreationCall
<1>7. CASE TrustSender(m)
  <2>1. ~Refused(m) /\ Kind[m] # "creation" /\ TRUE \in Trusts
    BY <1>7 DEF TrustSender, Unrecognised, MayTrust
  <2>2. TrustedMembers(m) \in SUBSET People /\ {Self, Sender[m]} \subseteq TrustedMembers(m)
    BY MessageFacts DEF TrustedMembers, TypeOK, People
  <2>3. dbq' = <<[op |-> "newGroup", msg |-> m, with |-> TrustedMembers(m)], SaveCall(m)>>
    BY <1>2, <1>7 DEF TrustSender, TrustCalls, NewGroupCall
  <2> QED
    BY <2>1, <2>2, <2>3 DEF CallsAreSound, Refused, SaveCall
<1> QED
  BY <1>1, <1>3, <1>4, <1>5, <1>6, <1>7

LEMMA StepKeepsCallsSound ==
    TypeOK /\ CallsAreSound /\ [Next]_vars => CallsAreSound'
<1> SUFFICES ASSUME TypeOK, CallsAreSound, [Next]_vars
             PROVE  CallsAreSound'
  OBVIOUS
<1>1. CASE ExecuteStore
  BY <1>1, ExecuteStoreKeepsCallsSound
<1>2. CASE CenterStep
  BY <1>2, CenterStepKeepsCallsSound
<1>3. CASE UNCHANGED <<status, members, dbq>>
  BY <1>3 DEF CallsAreSound, Recognised, HasGroup, SaveCall, CreationCall, Refused
<1>4. CASE \E g \in Groups : SendSyncRequest(g) \/ FiveMinutesPass(g)
  BY <1>3, <1>4 DEF SendSyncRequest, FiveMinutesPass, tableVars
<1>5. CASE \E m \in Messages : Post(m) \/ Deliver(m) \/ AckArrives(m)
  BY <1>3, <1>5 DEF Post, Deliver, AckArrives, tableVars
<1>6. CASE SocketDisconnected \/ Reconnect \/ Restart
  BY <1>3, <1>6 DEF SocketDisconnected, Reconnect, Restart, tableVars
<1>7. CASE Crash \/ Exit
  BY <1>7 DEF Crash, Exit, LoseVolatileState, CallsAreSound
<1>8. CASE UNCHANGED vars
  BY <1>3, <1>8 DEF vars, tableVars
<1> QED
  BY <1>1, <1>2, <1>4, <1>5, <1>6, <1>7, <1>8 DEF Next

(* CallsAreSound holds in every reachable state; it is what the theorems   *)
(* below rest on.                                                          *)
LEMMA CallsStaySound == Spec => [](TypeOK /\ CallsAreSound)
<1>1. Init => TypeOK /\ CallsAreSound
  BY InitHasTypes DEF Init, CallsAreSound
<1>2. TypeOK /\ CallsAreSound /\ [Next]_vars => (TypeOK /\ CallsAreSound)'
  BY StepKeepsTypes, StepKeepsCallsSound
<1> QED
  BY <1>1, <1>2, PTL DEF Spec

(* The database accepts every call it executes, although the check was     *)
(* made in another thread before the call was posted.                      *)
THEOREM StoresAlwaysSucceed == Spec => []StoresSucceed
<1>1. CallsAreSound => StoresSucceed
  BY SoundCallsSucceed
<1> QED
  BY <1>1, CallsStaySound, PTL

-----------------------------------------------------------------------------
(* Who may speak and who is added.                                         *)

(* A step that adds a row executes the first call that waits or is a crash *)
(* in the midst of one that would have changed the group.                  *)
LEMMA RowsComeFromCalls ==
    ASSUME TypeOK, CallsAreSound, Next, NEW m \in Messages,
           stored' = Append(stored, m)
    PROVE  /\ dbq # <<>>
           /\ Head(dbq).msg = m
           /\ \/ ExecuteStore /\ Execute(Head(dbq)) /\ Head(dbq).op # "newGroup"
              \/ Crash /\ Head(dbq).op \in {"leave", "title", "creation"}
<1>1. stored' # stored
  BY AppendIsInjective DEF TypeOK
<1>2. CASE ExecuteStore
  <2>1. dbq # <<>> /\ Execute(Head(dbq))
    BY <1>2, SoundCallsSucceed DEF ExecuteStore, StoresSucceed
  <2>2. InsertRow(Head(dbq)) /\ Head(dbq).op # "newGroup"
    BY <1>1, <2>1 DEF Execute
  <2>3. Append(stored, m) = Append(stored, Head(dbq).msg)
    BY <2>2 DEF InsertRow
  <2>4. stored \in Seq(Messages)
    BY DEF TypeOK
  <2>5. Head(dbq).msg = m
    BY <2>3, <2>4, AppendIsInjective
  <2> QED
    BY <1>2, <2>1, <2>2, <2>5
<1>3. CASE Crash
  <2>1. /\ dbq # <<>> /\ InsertRow(Head(dbq))
        /\ Head(dbq).op \in {"leave", "title", "creation"}
    BY <1>1, <1>3 DEF Crash
  <2>2. Append(stored, m) = Append(stored, Head(dbq).msg)
    BY <2>1 DEF InsertRow
  <2>3. stored \in Seq(Messages)
    BY DEF TypeOK
  <2>4. Head(dbq).msg = m
    BY <2>2, <2>3, AppendIsInjective
  <2> QED
    BY <1>3, <2>1, <2>4
<1>4. CASE CenterStep
  BY <1>1, <1>4 DEF CenterStep, IgnoreMessage, AcceptMessage, TrustSender,
                    QueueMessage, ProcessReceivedGroupCreation, tableVars
<1>5. CASE \E g \in Groups : SendSyncRequest(g) \/ FiveMinutesPass(g)
  BY <1>1, <1>5 DEF SendSyncRequest, FiveMinutesPass, tableVars
<1>6. CASE \E n \in Messages : Post(n) \/ Deliver(n) \/ AckArrives(n)
  BY <1>1, <1>6 DEF Post, Deliver, AckArrives, tableVars
<1>7. CASE SocketDisconnected \/ Reconnect \/ Restart \/ Exit
  BY <1>1, <1>7 DEF SocketDisconnected, Reconnect, Restart, Exit, tableVars
<1> QED
  BY <1>2, <1>3, <1>4, <1>5, <1>6, <1>7 DEF Next

(* What the first call is if it is one for m that makes no group. *)
LEMMA FirstCall ==
    ASSUME TypeOK, CallsAreSound, dbq # <<>>, NEW m \in Messages,
           Head(dbq).msg = m, Head(dbq).op # "newGroup"
    PROVE  /\ ~Refused(m)
           /\ \/ Kind[m] # "creation" /\ Recognised(m) /\ Head(dbq) = SaveCall(m)
              \/ Kind[m] = "creation" /\ Head(dbq) = CreationCall(m)
<1>1. PICK n \in Messages :
        /\ ~Refused(n)
        /\ \/ Kind[n] # "creation" /\ Recognised(n) /\ dbq = <<SaveCall(n)>>
           \/ Kind[n] = "creation" /\ dbq = <<CreationCall(n)>>
           \/ \E with \in SUBSET People :
                dbq = <<[op |-> "newGroup", msg |-> n, with |-> with], SaveCall(n)>>
  BY DEF CallsAreSound
<1>2. n = m
  BY <1>1 DEF SaveCall, CreationCall
<1> QED
  BY <1>1, <1>2

(* A row of content is written only while the group is known and the       *)
(* sender is a member or the owner.                                        *)
THEOREM OnlyMembersEverSpeak == Spec => OnlyMembersSpeak
<1>1. ASSUME TypeOK, CallsAreSound, Next, NEW m \in Messages,
             Kind[m] \in {"text", "media"}, stored' = Append(stored, m)
      PROVE  /\ HasGroup(GroupOf[m])
             /\ Sender[m] \in members[GroupOf[m]] \cup {Owner[GroupOf[m]]}
  <2>1. /\ dbq # <<>> /\ Head(dbq).msg = m
        /\ Head(dbq).op \notin {"newGroup"}
    BY <1>1, RowsComeFromCalls
  <2>2. Recognised(m)
    BY <1>1, <2>1, FirstCall
  <2> QED
    BY <2>2 DEF Recognised
<1>2. TypeOK /\ CallsAreSound /\ [Next]_vars =>
        [\A m \in Messages :
            /\ Kind[m] \in {"text", "media"}
            /\ stored' = Append(stored, m)
            => /\ HasGroup(GroupOf[m])
               /\ Sender[m] \in members[GroupOf[m]] \cup {Owner[GroupOf[m]]}]_vars
  BY <1>1
<1> QED
  BY <1>2, CallsStaySound, PTL DEF Spec, OnlyMembersSpeak

(* The members of a group change by a call only. *)
LEMMA MembersChangeByCalls ==
    ASSUME Next, members' # members
    PROVE  ExecuteStore
<1>1. CASE CenterStep
  BY <1>1 DEF CenterStep, IgnoreMessage, AcceptMessage, TrustSender,
              QueueMessage, ProcessReceivedGroupCreation, tableVars
<1>2. CASE \E g \in Groups : SendSyncRequest(g) \/ FiveMinutesPass(g)
  BY <1>2 DEF SendSyncRequest, FiveMinutesPass, tableVars
<1>3. CASE \E n \in Messages : Post(n) \/ Deliver(n) \/ AckArrives(n)
  BY <1>3 DEF Post, Deliver, AckArrives, tableVars
<1>4. CASE SocketDisconnected \/ Reconnect \/ Crash \/ Exit \/ Restart
  BY <1>4 DEF SocketDisconnected, Reconnect, Crash, Restart, Exit, tableVars
<1> QED
  BY <1>1, <1>2, <1>3, <1>4 DEF Next

(* Without TRUST_OTHERS whoever comes into a group is listed by a creation *)
(* of its owner or is the owner.                                           *)
THEOREM OnlyTheOwnerEverAdds ==
    ASSUME TRUE \notin Trusts
    PROVE  Spec => OnlyTheOwnerAdds
<1>1. ASSUME TypeOK, CallsAreSound, Next,
             NEW g \in Groups, NEW c \in members'[g] \ members[g]
      PROVE  \E m \in Messages : /\ Kind[m] = "creation"
                                 /\ GroupOf[m] = g
                                 /\ stored' = Append(stored, m)
                                 /\ c \in MembersIn[m] \cup {Owner[g]}
  <2>1. dbq # <<>> /\ Execute(Head(dbq))
    BY <1>1, MembersChangeByCalls, SoundCallsSucceed DEF ExecuteStore, StoresSucceed
  <2>2. PICK m \in Messages :
          /\ ~Refused(m)
          /\ \/ Kind[m] # "creation" /\ dbq = <<SaveCall(m)>>
             \/ Kind[m] = "creation" /\ dbq = <<CreationCall(m)>>
    BY <1>1, <2>1 DEF CallsAreSound
  <2>3. CASE Kind[m] # "creation" /\ dbq = <<SaveCall(m)>>
    <3>1. Head(dbq) = SaveCall(m) /\ Kind[m] # "newGroup"
      BY <2>3, MessageFacts DEF Kinds
    <3>2. Execute(SaveCall(m)) /\ SaveCall(m).op = Kind[m] /\ SaveCall(m).msg = m
      BY <2>1, <3>1 DEF SaveCall
    <3>3. \/ UNCHANGED members
          \/ SetGroupMembers(GroupOf[m], members[GroupOf[m]] \ {Sender[m]})
      BY <2>3, <3>1, <3>2 DEF Execute
    <3>4. \/ UNCHANGED members
          \/ members' = [members EXCEPT ![GroupOf[m]] = members[GroupOf[m]] \ {Sender[m]}]
      BY <3>3 DEF SetGroupMembers
    <3>5. members'[g] \subseteq members[g]
      <4>1. DOMAIN members = Groups /\ g \in Groups
        BY <1>1 DEF TypeOK
      <4>2. CASE g = GroupOf[m]
        BY <3>4, <4>1, <4>2
      <4>3. CASE g # GroupOf[m]
        BY <3>4, <4>1, <4>3
      <4> QED
        BY <4>2, <4>3
    <3> QED
      BY <1>1, <3>5
  <2>4. CASE Kind[m] = "creation" /\ dbq = <<CreationCall(m)>>
    <3>1. Head(dbq) = CreationCall(m)
      BY <2>4
    <3>2. /\ Execute(CreationCall(m)) /\ CreationCall(m).op = "creation"
          /\ CreationCall(m).msg = m
          /\ CreationCall(m).with = MembersIn[m] \cup {Owner[GroupOf[m]]}
      BY <2>1, <2>4, <3>1 DEF CreationCall
    <3>3. /\ stored' = Append(stored, m)
          /\ AddGroup(GroupOf[m], MembersIn[m] \cup {Owner[GroupOf[m]]}, FALSE)
      BY <3>2 DEF Execute, InsertRow
    <3>4. GroupOf[m] = g /\ c \in MembersIn[m] \cup {Owner[g]}
      BY <1>1, <3>3 DEF AddGroup, TypeOK
    <3> QED
      BY <2>4, <3>3, <3>4
  <2> QED
    BY <2>2, <2>3, <2>4
<1>2. TypeOK /\ CallsAreSound /\ [Next]_vars =>
        [\A g \in Groups : \A c \in members'[g] \ members[g] :
            \E m \in Messages : /\ Kind[m] = "creation"
                               /\ GroupOf[m] = g
                               /\ stored' = Append(stored, m)
                               /\ c \in MembersIn[m] \cup {Owner[g]}]_vars
  BY <1>1
<1> QED
  BY <1>2, CallsStaySound, PTL DEF Spec, OnlyTheOwnerAdds

-----------------------------------------------------------------------------
(* The groups of our list.                                                 *)

LEMMA AddGroupKeepsKnown ==
    ASSUME TypeOK, KnownGroupsContainUs, NEW g \in Groups, NEW with \in SUBSET People,
           NEW awaitingSync \in BOOLEAN, AddGroup(g, with, awaitingSync)
    PROVE  KnownGroupsContainUs'
<1>1. ASSUME NEW h \in Groups
      PROVE  HasGroup(h)' <=> Self \in members'[h]
  <2>1. CASE h = g
    BY <2>1 DEF AddGroup, HasGroup, TypeOK
  <2>2. CASE h # g
    <3>1. status'[h] = status[h] /\ members'[h] = members[h]
      BY <2>2 DEF AddGroup, TypeOK
    <3> QED
      BY <3>1 DEF KnownGroupsContainUs, HasGroup
  <2> QED
    BY <2>1, <2>2
<1> QED
  BY <1>1 DEF KnownGroupsContainUs, HasGroup

LEMMA LeaveKeepsKnown ==
    ASSUME TypeOK, KnownGroupsContainUs, NEW g \in Groups, HasGroup(g),
           NEW c \in Contacts, SetGroupMembers(g, members[g] \ {c})
    PROVE  KnownGroupsContainUs'
<1>1. Self \in members[g] \ {c}
  BY InboxAssumption DEF KnownGroupsContainUs
<1>2. status' = status
  BY <1>1 DEF SetGroupMembers, TypeOK
<1>3. \A h \in Groups : Self \in members'[h] <=> Self \in members[h]
  BY <1>1 DEF SetGroupMembers, TypeOK
<1> QED
  BY <1>2, <1>3 DEF KnownGroupsContainUs, HasGroup

LEMMA StepKeepsKnown ==
    TypeOK /\ CallsAreSound /\ KnownGroupsContainUs /\ [Next]_vars
        => KnownGroupsContainUs'
<1> SUFFICES ASSUME TypeOK, CallsAreSound, KnownGroupsContainUs, [Next]_vars
             PROVE  KnownGroupsContainUs'
  OBVIOUS
<1>1. CASE ExecuteStore
  <2>1. Head(dbq) \in Call /\ CanExecute(Head(dbq)) /\ Execute(Head(dbq))
    BY <1>1, SoundCallsSucceed, SeqTail DEF ExecuteStore, StoresSucceed, TypeOK
  <2>2. PICK call \in Call : CanExecute(call) /\ Execute(call)
    BY <2>1
  <2>3. /\ GroupOf[call.msg] \in Groups /\ Sender[call.msg] \in Contacts
        /\ call.with \in SUBSET People
    BY MessageFacts DEF Call
  <2>4. CASE UNCHANGED <<status, members>>
    BY <2>4 DEF KnownGroupsContainUs, HasGroup
  <2>5. CASE call.op = "leave"
    BY <2>2, <2>3, <2>5, LeaveKeepsKnown DEF CanExecute, Execute
  <2>6. CASE call.op = "creation"
    BY <2>2, <2>3, <2>6, AddGroupKeepsKnown DEF Execute
  <2>7. CASE call.op = "newGroup"
    BY <2>2, <2>3, <2>7, AddGroupKeepsKnown DEF Execute
  <2> QED
    BY <2>2, <2>4, <2>5, <2>6, <2>7 DEF Execute
<1>2. CASE UNCHANGED <<status, members>>
  BY <1>2 DEF KnownGroupsContainUs, HasGroup
<1>3. CASE CenterStep
  BY <1>2, <1>3 DEF CenterStep, IgnoreMessage, AcceptMessage, TrustSender,
                    QueueMessage, ProcessReceivedGroupCreation, tableVars
<1>4. CASE \E g \in Groups : SendSyncRequest(g) \/ FiveMinutesPass(g)
  BY <1>2, <1>4 DEF SendSyncRequest, FiveMinutesPass, tableVars
<1>5. CASE \E m \in Messages : Post(m) \/ Deliver(m) \/ AckArrives(m)
  BY <1>2, <1>5 DEF Post, Deliver, AckArrives, tableVars
<1>6. CASE SocketDisconnected \/ Reconnect \/ Crash \/ Exit \/ Restart
  BY <1>2, <1>6 DEF SocketDisconnected, Reconnect, Crash, Exit, Restart, tableVars
<1>7. CASE UNCHANGED vars
  BY <1>2, <1>7 DEF vars, tableVars
<1> QED
  BY <1>1, <1>3, <1>4, <1>5, <1>6, <1>7 DEF Next

(* A group is in our list exactly if we are one of its members.            *)
THEOREM KnownGroupsAlwaysContainUs == Spec => []KnownGroupsContainUs
<1>1. Init => KnownGroupsContainUs
  <2> SUFFICES ASSUME Init, NEW g \in Groups
               PROVE  HasGroup(g) <=> Self \in members[g]
    BY DEF KnownGroupsContainUs
  <2>1. status[g] = IF Initially[g] = {} THEN "unknown" ELSE "known"
    BY DEF Init
  <2> QED
    BY <2>1, InboxAssumption DEF Init, HasGroup
<1>2. TypeOK /\ CallsAreSound /\ KnownGroupsContainUs /\ [Next]_vars
        => KnownGroupsContainUs'
  BY StepKeepsKnown
<1> QED
  BY <1>1, <1>2, CallsStaySound, PTL DEF Spec

-----------------------------------------------------------------------------
(* What waits in the queue.                                                *)

LEMMA StepKeepsAskedFor ==
    TypeOK /\ QueuedGroupsWereAskedFor /\ [Next]_vars => QueuedGroupsWereAskedFor'
<1> SUFFICES ASSUME TypeOK, QueuedGroupsWereAskedFor, [Next]_vars,
                    NEW g \in Groups, queue'[g] # <<>>, Owner[g] # Self
             PROVE  lastSync'[g] # "never"
  BY DEF QueuedGroupsWereAskedFor
<1>1. CASE queue'[g] = queue[g] /\ (lastSync'[g] = lastSync[g] \/ lastSync'[g] # "never")
  BY <1>1 DEF QueuedGroupsWereAskedFor
<1>2. ASSUME NEW m \in Messages, RequestSyncForGroupIfApplicable(GroupOf[m])
      PROVE  /\ lastSync'[g] = lastSync[g] \/ lastSync'[g] # "never"
             /\ g = GroupOf[m] => queue[g] # <<>> \/ lastSync'[g] = "recent"
  BY <1>2 DEF RequestSyncForGroupIfApplicable, TypeOK
<1>3. CASE \E m \in Messages : QueueMessage(m)
  <2>1. PICK m \in Messages : QueueMessage(m)
    BY <1>3
  <2>2. /\ RequestSyncForGroupIfApplicable(GroupOf[m])
        /\ queue' = [queue EXCEPT ![GroupOf[m]] = Append(@, m)]
    BY <2>1 DEF QueueMessage, StoreGroupMessage
  <2>3. CASE g = GroupOf[m]
    BY <1>2, <2>2, <2>3 DEF QueuedGroupsWereAskedFor
  <2>4. CASE g # GroupOf[m]
    BY <1>1, <1>2, <2>2, <2>4 DEF TypeOK
  <2> QED
    BY <2>3, <2>4
<1>4. CASE \E m \in Messages : ProcessReceivedGroupCreation(m)
  <2>1. PICK m \in Messages : ProcessReceivedGroupCreation(m)
    BY <1>4
  <2>2. lastSync' = lastSync /\ queue' = [queue EXCEPT ![GroupOf[m]] = <<>>]
    BY <2>1 DEF ProcessReceivedGroupCreation, ReplayQueued
  <2> QED
    BY <1>1, <2>2 DEF TypeOK
<1>5. CASE \E m \in Messages : IgnoreMessage(m) \/ AcceptMessage(m) \/ TrustSender(m)
  BY <1>1, <1>2, <1>5 DEF IgnoreMessage, AcceptMessage, TrustSender
<1>6. CASE ExecuteStore
  BY <1>1, <1>6 DEF ExecuteStore, memoryVars
<1>7. CASE \E h \in Groups : SendSyncRequest(h) \/ FiveMinutesPass(h)
  <2>1. PICK h \in Groups : SendSyncRequest(h) \/ FiveMinutesPass(h)
    BY <1>7
  <2>2. queue' = queue
    BY <2>1 DEF SendSyncRequest, FiveMinutesPass, memoryVars
  <2>3. \/ lastSync' = [lastSync EXCEPT ![h] = "recent"]
        \/ lastSync' = [lastSync EXCEPT ![h] = "old"]
    BY <2>1 DEF SendSyncRequest, FiveMinutesPass
  <2> QED
    BY <1>1, <2>2, <2>3 DEF TypeOK
<1>8. CASE \E m \in Messages : Post(m) \/ Deliver(m) \/ AckArrives(m)
  BY <1>1, <1>8 DEF Post, Deliver, AckArrives, memoryVars
<1>9. CASE SocketDisconnected \/ Reconnect \/ Restart
  BY <1>1, <1>9 DEF SocketDisconnected, Reconnect, Restart, memoryVars
<1>10. CASE Crash \/ Exit
  BY <1>10 DEF Crash, Exit, LoseVolatileState
<1>11. CASE UNCHANGED vars
  BY <1>1, <1>11 DEF vars, memoryVars
<1> QED
  BY <1>3, <1>4, <1>5, <1>6, <1>7, <1>8, <1>9, <1>10, <1>11 DEF Next, CenterStep

(* Messages wait only for groups that the owner was asked for.             *)
THEOREM QueuedGroupsAlwaysAskedFor == Spec => []QueuedGroupsWereAskedFor
<1>1. Init => QueuedGroupsWereAskedFor
  BY DEF Init, QueuedGroupsWereAskedFor
<1>2. Init => TypeOK
  BY InitHasTypes
<1>3. TypeOK /\ [Next]_vars => TypeOK'
  BY StepKeepsTypes
<1>4. TypeOK /\ QueuedGroupsWereAskedFor /\ [Next]_vars => QueuedGroupsWereAskedFor'
  BY StepKeepsAskedFor
<1> QED
  BY <1>1, <1>2, <1>3, <1>4, PTL DEF Spec

-----------------------------------------------------------------------------
(* What the server keeps no longer.                                        *)

(* Only what is kept is acknowledged. *)
AcksAreKept == acks \subseteq Kept

(* What is kept stays so if each of its three keepers hands it on. *)
LEMMA KeptGrows ==
    ASSUME \A i \in DOMAIN stored : stored[i] \in Kept',
           MessagesIn(dbq) \subseteq Kept', lost \subseteq Kept'
    PROVE  Kept \subseteq Kept'
  BY DEF Kept

LEMMA InsertRowKeeps ==
    ASSUME TypeOK, NEW call \in Call, InsertRow(call)
    PROVE  /\ \A i \in DOMAIN stored : stored[i] \in Kept'
           /\ call.msg \in Kept'
<1>1. call.msg \in Messages /\ stored' = Append(stored, call.msg)
  BY DEF Call, InsertRow
<1>2. /\ \A i \in DOMAIN stored : i \in DOMAIN stored' /\ stored'[i] = stored[i]
      /\ Len(stored) + 1 \in DOMAIN stored' /\ stored'[Len(stored) + 1] = call.msg
  BY <1>1, AppendProperties, LenProperties DEF TypeOK
<1> QED
  BY <1>2 DEF Kept

LEMMA ExecuteStoreKeeps ==
    ASSUME TypeOK, ExecuteStore
    PROVE  Kept \subseteq Kept'
<1>1. dbq \in Seq(Call) /\ dbq # <<>> /\ dbq' = Tail(dbq) /\ Head(dbq) \in Call
  BY SeqTail DEF ExecuteStore, TypeOK
<1>2. \A i \in DOMAIN stored : stored[i] \in Kept'
  <2>1. CASE UNCHANGED stored
    BY <2>1 DEF Kept
  <2>2. CASE InsertRow(Head(dbq))
    BY <1>1, <2>2, InsertRowKeeps
  <2> QED
    BY <2>1, <2>2 DEF ExecuteStore, Execute, tableVars
<1>3. lost \subseteq Kept'
  BY DEF ExecuteStore, Kept
<1>4. Head(dbq).op # "newGroup" => Head(dbq).msg \in Kept'
  <2>1. CASE CanExecute(Head(dbq))
    BY <1>1, <2>1, InsertRowKeeps DEF ExecuteStore, Execute
  <2>2. CASE ~CanExecute(Head(dbq))
    <3>1. Head(dbq).op # "newGroup" => Head(dbq).msg \in MessagesIn(<<Head(dbq)>>)
      <4>1. DOMAIN <<Head(dbq)>> = {1} /\ <<Head(dbq)>>[1] = Head(dbq)
        OBVIOUS
      <4> QED
        BY <4>1 DEF MessagesIn
    <3> QED
      BY <2>2, <3>1 DEF ExecuteStore, Kept
  <2> QED
    BY <2>1, <2>2
<1>5. MessagesIn(dbq) \subseteq Kept'
  <2> SUFFICES ASSUME NEW i \in DOMAIN dbq, dbq[i].op # "newGroup"
               PROVE  dbq[i].msg \in Kept'
    BY DEF MessagesIn
  <2>1. CASE i = 1
    BY <1>1, <1>4, <2>1
  <2>2. CASE i # 1
    <3>1. i - 1 \in DOMAIN dbq' /\ dbq'[i - 1] = dbq[i]
      BY <1>1, <2>2, HeadTailProperties, LenProperties
    <3>2. dbq[i].msg \in MessagesIn(dbq)'
      BY <3>1 DEF MessagesIn
    <3> QED
      BY <3>2 DEF Kept
  <2> QED
    BY <2>1, <2>2
<1> QED
  BY <1>2, <1>3, <1>5, KeptGrows

(* A handler finds no call waiting; what it acknowledges it has posted. *)
LEMMA CenterStepKeeps ==
    ASSUME TypeOK, CenterStep
    PROVE  /\ Kept \subseteq Kept'
           /\ acks' \subseteq acks \cup Kept'
<1>1. PICK m \in Messages :
        \/ IgnoreMessage(m)
        \/ AcceptMessage(m)
        \/ TrustSender(m)
        \/ QueueMessage(m)
        \/ ProcessReceivedGroupCreation(m)
  BY DEF CenterStep
<1>2. /\ dbq = <<>>
      /\ UNCHANGED <<stored, lost>>
  BY <1>1 DEF IgnoreMessage, AcceptMessage, TrustSender, QueueMessage, tableVars,
              ProcessReceivedGroupCreation, Unrecognised, Ready
<1>3. MessagesIn(dbq) = {}
  BY <1>2 DEF MessagesIn
<1>4. Kept \subseteq Kept'
  BY <1>2, <1>3 DEF Kept
<1>5. CASE IgnoreMessage(m) \/ QueueMessage(m)
  BY <1>4, <1>5 DEF IgnoreMessage, QueueMessage, StoreGroupMessage
<1>6. CASE AcceptMessage(m) \/ TrustSender(m) \/ ProcessReceivedGroupCreation(m)
  <2>1. \/ dbq' = <<SaveCall(m)>> /\ Kind[m] \in Kinds
        \/ dbq' = <<NewGroupCall(m), SaveCall(m)>> /\ Kind[m] \in Kinds
        \/ dbq' = <<CreationCall(m)>>
    BY <1>2, <1>6, MessageFacts
       DEF AcceptMessage, TrustSender, TrustCalls, ProcessReceivedGroupCreation
  <2>2. m \in MessagesIn(dbq)'
    <3>1. CASE dbq' = <<SaveCall(m)>> /\ Kind[m] \in Kinds
      <4>1. 1 \in DOMAIN dbq' /\ dbq'[1] = SaveCall(m)
        BY <3>1
      <4> QED
        BY <3>1, <4>1 DEF MessagesIn, SaveCall, Kinds
    <3>2. CASE dbq' = <<NewGroupCall(m), SaveCall(m)>> /\ Kind[m] \in Kinds
      <4>1. 2 \in DOMAIN dbq' /\ dbq'[2] = SaveCall(m)
        BY <3>2
      <4> QED
        BY <3>2, <4>1 DEF MessagesIn, SaveCall, Kinds
    <3>3. CASE dbq' = <<CreationCall(m)>>
      <4>1. 1 \in DOMAIN dbq' /\ dbq'[1] = CreationCall(m)
        BY <3>3
      <4> QED
        BY <4>1 DEF MessagesIn, CreationCall
    <3> QED
      BY <2>1, <3>1, <3>2, <3>3
  <2>3. acks' = acks \cup {m}
    BY <1>6 DEF AcceptMessage, TrustSender, ProcessReceivedGroupCreation
  <2> QED
    BY <1>4, <2>2, <2>3 DEF Kept
<1> QED
  BY <1>1, <1>5, <1>6

LEMMA LosingStateKeeps ==
    ASSUME TypeOK, LoseVolatileState, UNCHANGED stored \/ InsertRow(Head(dbq)),
           dbq # <<>> \/ UNCHANGED stored
    PROVE  Kept \subseteq Kept'
<1>1. \A i \in DOMAIN stored : stored[i] \in Kept'
  <2>1. CASE UNCHANGED stored
    BY <2>1 DEF Kept
  <2>2. CASE InsertRow(Head(dbq)) /\ dbq # <<>>
    <3>1. Head(dbq) \in Call
      BY <2>2, SeqTail DEF TypeOK
    <3> QED
      BY <2>2, <3>1, InsertRowKeeps
  <2> QED
    BY <2>1, <2>2
<1>2. MessagesIn(dbq) \subseteq Kept' /\ lost \subseteq Kept'
  BY DEF LoseVolatileState, Kept
<1> QED
  BY <1>1, <1>2, KeptGrows

(* What the server keeps, what is kept here and what is acknowledged. *)
LEMMA StepKeepsMessages ==
    TypeOK /\ NoMessageVanishes /\ AcksAreKept /\ [Next]_vars
        => NoMessageVanishes' /\ AcksAreKept'
<1> SUFFICES ASSUME TypeOK, NoMessageVanishes, AcksAreKept, [Next]_vars
             PROVE  NoMessageVanishes' /\ AcksAreKept'
  OBVIOUS
<1>1. ASSUME Kept \subseteq Kept', acks' \subseteq acks \cup Kept',
             UNCHANGED <<posted, unacked>>
      PROVE  NoMessageVanishes' /\ AcksAreKept'
  BY <1>1 DEF NoMessageVanishes, AcksAreKept
<1>2. ASSUME UNCHANGED <<stored, dbq, lost>>
      PROVE  Kept' = Kept
  BY <1>2 DEF Kept, MessagesIn
<1>3. CASE ExecuteStore
  BY <1>1, <1>3, ExecuteStoreKeeps DEF ExecuteStore, serverVars
<1>4. CASE CenterStep
  <2>1. UNCHANGED <<posted, unacked>>
    BY <1>4 DEF CenterStep, IgnoreMessage, AcceptMessage, TrustSender,
                QueueMessage, ProcessReceivedGroupCreation, serverVars
  <2> QED
    BY <1>1, <1>4, <2>1, CenterStepKeeps
<1>5. CASE \E g \in Groups : SendSyncRequest(g) \/ FiveMinutesPass(g)
  BY <1>1, <1>2, <1>5 DEF SendSyncRequest, FiveMinutesPass, tableVars, serverVars
<1>6. CASE \E m \in Messages : Post(m)
  <2>1. PICK m \in Messages : Post(m)
    BY <1>6
  <2>2. Kept' = Kept /\ acks' = acks /\ unacked' = unacked \cup {m}
    BY <1>2, <2>1 DEF Post, tableVars
  <2>3. \A i \in DOMAIN posted' : posted'[i] = m \/ (i \in DOMAIN posted /\ posted'[i] = posted[i])
    BY <2>1, AppendElements DEF Post, TypeOK
  <2> QED
    BY <2>2, <2>3 DEF NoMessageVanishes, AcksAreKept
<1>7. CASE \E m \in Messages : Deliver(m)
  BY <1>1, <1>2, <1>7 DEF Deliver, tableVars
<1>8. CASE \E m \in Messages : AckArrives(m)
  <2>1. PICK m \in Messages : AckArrives(m)
    BY <1>8
  <2>2. /\ Kept' = Kept /\ posted' = posted /\ m \in Kept
        /\ acks' = acks \ {m} /\ unacked' = unacked \ {m}
    BY <1>2, <2>1 DEF AckArrives, tableVars, AcksAreKept
  <2> QED
    BY <2>2 DEF NoMessageVanishes, AcksAreKept
<1>9. CASE SocketDisconnected \/ Restart
  BY <1>1, <1>2, <1>9 DEF SocketDisconnected, Restart, tableVars, serverVars
<1>10. CASE Reconnect
  BY <1>1, <1>2, <1>10 DEF Reconnect, tableVars
<1>11. CASE Crash \/ Exit
  <2>1. Kept \subseteq Kept'
    BY <1>11, LosingStateKeeps DEF Crash, Exit, tableVars
  <2> QED
    BY <1>1, <1>11, <2>1 DEF Crash, Exit, LoseVolatileState
<1>12. CASE UNCHANGED vars
  BY <1>1, <1>2, <1>12 DEF vars, tableVars, serverVars
<1> QED
  BY <1>3, <1>4, <1>5, <1>6, <1>7, <1>8, <1>9, <1>10, <1>11, <1>12 DEF Next

(* No message vanishes: what the server keeps no longer is stored, is      *)
(* about to be, or fell to a crash between the posting of a call and its   *)
(* execution.                                                              *)
THEOREM NoMessageEverVanishes == Spec => []NoMessageVanishes
<1>1. Init => NoMessageVanishes /\ AcksAreKept
  BY DEF Init, NoMessageVanishes, AcksAreKept
<1>2. Init => TypeOK
  BY InitHasTypes
<1>3. TypeOK /\ [Next]_vars => TypeOK'
  BY StepKeepsTypes
<1>4. TypeOK /\ NoMessageVanishes /\ AcksAreKept /\ [Next]_vars
        => NoMessageVanishes' /\ AcksAreKept'
  BY StepKeepsMessages
<1> QED
  BY <1>1, <1>2, <1>3, <1>4, PTL DEF Spec

-----------------------------------------------------------------------------
(***************************************************************************)
(* The rows follow the deliveries: each delivery of a message leads to one *)
(* row at most, and the texts of a sender come to the tables in the order  *)
(* in which they were sent.                                                *)
(***************************************************************************)

(* Counting rows.                                                          *)

Count(list, A) == Cardinality(Places(list, A, Len(list)))

StoresOf(m) == {c \in Call : c.op # "newGroup" /\ c.msg = m}

(* m is somewhere between the protocol client and the tables. *)
Total(m) ==
    Count(stored, {m}) + Count(dbq, StoresOf(m)) + Count(inbox, {m})
        + Count(queue[GroupOf[m]], {m}) + Count(replay, {m})

LEMMA CountType ==
    ASSUME NEW S, NEW s \in Seq(S), NEW A
    PROVE  Count(s, A) \in Nat
BY PlacesAreFinite, LenProperties DEF Count

LEMMA CountEmpty ==
    ASSUME NEW A
    PROVE  Count(<<>>, A) = 0
<1>1. Len(<<>>) = 0 /\ Places(<<>>, A, 0) = {}
  BY DEF Places
<1> QED
  BY <1>1, PlacesAreFinite DEF Count

LEMMA CountTail ==
    ASSUME NEW S, NEW s \in Seq(S), s # <<>>, NEW A
    PROVE  Count(s, A) = Count(Tail(s), A) + (IF Head(s) \in A THEN 1 ELSE 0)
<1>1. Len(s) \in 1..Len(s) /\ Len(Tail(s)) = Len(s) - 1
  BY HeadTailProperties, LenProperties, EmptySeq
<1> QED
  BY <1>1, PlacesOfTail DEF Count

LEMMA CountAppend ==
    ASSUME NEW S, NEW s \in Seq(S), NEW e \in S, NEW A
    PROVE  Count(Append(s, e), A) = Count(s, A) + (IF e \in A THEN 1 ELSE 0)
BY PlacesOfAppend DEF Count

LEMMA CountOfOthers ==
    ASSUME NEW S, NEW s \in Seq(S), NEW A, \A i \in DOMAIN s : s[i] \notin A
    PROVE  Count(s, A) = 0
<1>1. Len(s) \in Nat /\ DOMAIN s = 1..Len(s)
  BY LenProperties
<1>2. Places(s, A, Len(s)) = {}
  BY <1>1 DEF Places
<1> QED
  BY <1>1, <1>2, PlacesAreFinite DEF Count

LEMMA TotalCounts ==
    ASSUME TypeOK
    PROVE  OneRowPerDelivery <=> \A m \in Messages : Total(m) <= delivered[m]
<1>1. ASSUME NEW s \in Seq(Messages), NEW m \in Messages
      PROVE  Occurrences(s, m) = Count(s, {m})
  <2>1. DOMAIN s = 1..Len(s)
    BY LenProperties
  <2>2. {i \in DOMAIN s : s[i] = m} = Places(s, {m}, Len(s))
    BY <2>1 DEF Places
  <2> QED
    BY <2>2 DEF Occurrences, Count
<1>2. ASSUME NEW m \in Messages
      PROVE  OccurrencesInCalls(m) = Count(dbq, StoresOf(m))
  <2>1. DOMAIN dbq = 1..Len(dbq) /\ \A i \in 1..Len(dbq) : dbq[i] \in Call
    BY LenProperties, ElementOfSeq DEF TypeOK
  <2>2. {i \in DOMAIN dbq : dbq[i].op # "newGroup" /\ dbq[i].msg = m}
          = Places(dbq, StoresOf(m), Len(dbq))
    BY <2>1 DEF Places, StoresOf
  <2> QED
    BY <2>2 DEF OccurrencesInCalls, Count
<1>3. ASSUME NEW m \in Messages
      PROVE  /\ Occurrences(stored, m) = Count(stored, {m})
             /\ Occurrences(inbox, m) = Count(inbox, {m})
             /\ Occurrences(queue[GroupOf[m]], m) = Count(queue[GroupOf[m]], {m})
             /\ Occurrences(replay, m) = Count(replay, {m})
  BY <1>1, MessageFacts DEF TypeOK
<1> QED
  BY <1>2, <1>3 DEF OneRowPerDelivery, Total

LEMMA TotalTypes ==
    ASSUME TypeOK, NEW m \in Messages
    PROVE  /\ Count(stored, {m}) \in Nat /\ Count(dbq, StoresOf(m)) \in Nat
           /\ Count(inbox, {m}) \in Nat /\ Count(queue[GroupOf[m]], {m}) \in Nat
           /\ Count(replay, {m}) \in Nat /\ delivered[m] \in Nat
BY CountType, MessageFacts DEF TypeOK

LEMMA InsertedRowCounts ==
    ASSUME TypeOK, NEW call \in Call, InsertRow(call), call.op # "newGroup",
           NEW m \in Messages
    PROVE  Count(stored', {m}) = Count(stored, {m})
                                   + (IF call \in StoresOf(m) THEN 1 ELSE 0)
<1>1. call.msg \in Messages /\ stored' = Append(stored, call.msg)
  BY DEF Call, InsertRow
<1>2. call.msg \in {m} <=> call \in StoresOf(m)
  BY DEF StoresOf
<1> QED
  BY <1>1, <1>2, CountAppend DEF TypeOK

LEMMA ExecuteStoreCounts ==
    ASSUME TypeOK, ExecuteStore, NEW m \in Messages
    PROVE  Total(m)' <= Total(m)
<1>1. /\ dbq \in Seq(Call) /\ dbq # <<>> /\ dbq' = Tail(dbq) /\ Head(dbq) \in Call
      /\ UNCHANGED <<inbox, queue, replay>>
  BY SeqTail DEF ExecuteStore, TypeOK, memoryVars
<1>2. Count(dbq, StoresOf(m)) = Count(dbq', StoresOf(m))
                                  + (IF Head(dbq) \in StoresOf(m) THEN 1 ELSE 0)
  BY <1>1, CountTail
<1>3. Count(dbq', StoresOf(m)) \in Nat
  BY <1>1, SeqTail, CountType
<1>4. \/ UNCHANGED stored
      \/ InsertRow(Head(dbq)) /\ Head(dbq).op # "newGroup"
  BY DEF ExecuteStore, Execute, tableVars
<1>5. \/ Count(stored', {m}) = Count(stored, {m})
      \/ Count(stored', {m}) = Count(stored, {m})
                                 + (IF Head(dbq) \in StoresOf(m) THEN 1 ELSE 0)
  BY <1>1, <1>4, InsertedRowCounts
<1>6. /\ Count(inbox', {m}) = Count(inbox, {m})
      /\ Count(queue'[GroupOf[m]], {m}) = Count(queue[GroupOf[m]], {m})
      /\ Count(replay', {m}) = Count(replay, {m})
  BY <1>1
<1>7. Count(stored', {m}) + Count(dbq', StoresOf(m))
        <= Count(stored, {m}) + Count(dbq, StoresOf(m))
  BY <1>2, <1>3, <1>5, TotalTypes
<1> QED
  BY <1>3, <1>5, <1>6, <1>7, TotalTypes DEF Total

LEMMA TakenCounts ==
    ASSUME TypeOK, NEW n \in Messages, Take(n), NEW m \in Messages
    PROVE  /\ Count(inbox', {m}) \in Nat /\ Count(replay', {m}) \in Nat
           /\ Count(inbox, {m}) + Count(replay, {m})
                = Count(inbox', {m}) + Count(replay', {m}) + (IF n = m THEN 1 ELSE 0)
<1>1. inbox \in Seq(Messages) /\ replay \in Seq(Messages)
  BY DEF TypeOK
<1>2. Count(inbox', {m}) \in Nat /\ Count(replay', {m}) \in Nat
  BY TakeKeepsTypes, CountType
<1>3. CASE replay # <<>> /\ n = Head(replay) /\ replay' = Tail(replay) /\ UNCHANGED inbox
  <2>1. Count(replay, {m}) = Count(replay', {m}) + (IF n = m THEN 1 ELSE 0)
    BY <1>1, <1>3, CountTail
  <2> QED
    BY <1>2, <1>3, <2>1
<1>4. CASE inbox # <<>> /\ n = Head(inbox) /\ inbox' = Tail(inbox) /\ UNCHANGED replay
  <2>1. Count(inbox, {m}) = Count(inbox', {m}) + (IF n = m THEN 1 ELSE 0)
    BY <1>1, <1>4, CountTail
  <2> QED
    BY <1>2, <1>4, <2>1
<1> QED
  BY <1>2, <1>3, <1>4 DEF Take

LEMMA SaveCallCounts ==
    ASSUME TypeOK, NEW n \in Messages, NEW m \in Messages,
           NEW calls \in Seq(Call)
    PROVE  /\ Count(Append(calls, SaveCall(n)), StoresOf(m))
                = Count(calls, StoresOf(m)) + (IF n = m THEN 1 ELSE 0)
           /\ Count(Append(calls, NewGroupCall(n)), StoresOf(m))
                = Count(calls, StoresOf(m))
           /\ Kind[n] = "creation" =>
                Count(Append(calls, CreationCall(n)), StoresOf(m))
                  = Count(calls, StoresOf(m)) + (IF n = m THEN 1 ELSE 0)
<1>1. SaveCall(n) \in Call /\ NewGroupCall(n) \in Call
  BY CallsHaveTypes
<1>2. SaveCall(n) \in StoresOf(m) <=> n = m
  BY <1>1, MessageFacts DEF StoresOf, SaveCall, Kinds
<1>3. NewGroupCall(n) \notin StoresOf(m)
  BY DEF StoresOf, NewGroupCall
<1>4. Count(calls, StoresOf(m)) \in Nat
  BY CountType
<1>5. ASSUME Kind[n] = "creation"
      PROVE  /\ CreationCall(n) \in Call
             /\ CreationCall(n) \in StoresOf(m) <=> n = m
  <2>1. CreationCall(n) \in Call
    BY <1>5, CallsHaveTypes
  <2> QED
    BY <2>1 DEF StoresOf, CreationCall
<1>6. Count(Append(calls, SaveCall(n)), StoresOf(m))
        = Count(calls, StoresOf(m)) + (IF n = m THEN 1 ELSE 0)
  BY <1>1, <1>2, CountAppend
<1>7. Count(Append(calls, NewGroupCall(n)), StoresOf(m)) = Count(calls, StoresOf(m))
  BY <1>1, <1>3, <1>4, CountAppend
<1>8. ASSUME Kind[n] = "creation"
      PROVE  Count(Append(calls, CreationCall(n)), StoresOf(m))
               = Count(calls, StoresOf(m)) + (IF n = m THEN 1 ELSE 0)
  BY <1>5, <1>8, CountAppend
<1> QED
  BY <1>6, <1>7, <1>8

LEMMA AddUp ==
    ASSUME NEW s \in Nat, NEW d \in Nat, NEW i \in Nat, NEW q \in Nat, NEW r \in Nat,
           NEW dd \in Nat, NEW ii \in Nat, NEW qq \in Nat, NEW rr \in Nat,
           NEW one \in Nat, i + r = ii + rr + one, dd + qq <= d + q + one
    PROVE  s + dd + ii + qq + rr <= s + d + i + q + r
OBVIOUS

LEMMA AddUpAfterCreation ==
    ASSUME NEW s \in Nat, NEW d \in Nat, NEW i \in Nat, NEW q \in Nat, NEW r \in Nat,
           NEW dd \in Nat, NEW ii \in Nat, NEW qq \in Nat, NEW rr \in Nat,
           NEW one \in Nat, dd = d + one, i = ii + one, r = 0, qq + rr = q
    PROVE  s + dd + ii + qq + rr <= s + d + i + q + r
OBVIOUS

LEMMA CenterStepCounts ==
    ASSUME TypeOK, CenterStep, NEW m \in Messages
    PROVE  Total(m)' <= Total(m)
<1>1. PICK n \in Messages :
        \/ IgnoreMessage(n)
        \/ AcceptMessage(n)
        \/ TrustSender(n)
        \/ QueueMessage(n)
        \/ ProcessReceivedGroupCreation(n)
  BY DEF CenterStep
<1>2. /\ Count(stored', {m}) = Count(stored, {m})
      /\ dbq = <<>> /\ dbq \in Seq(Call) /\ GroupOf[m] \in Groups /\ GroupOf[n] \in Groups
      /\ queue \in [Groups -> Seq(Messages)]
  BY <1>1, MessageFacts
  DEF IgnoreMessage, AcceptMessage, TrustSender, QueueMessage, Unrecognised, Ready,
      ProcessReceivedGroupCreation, tableVars, TypeOK
<1> DEFINE one == IF n = m THEN 1 ELSE 0
<1>8. /\ Count(stored, {m}) \in Nat /\ Count(dbq, StoresOf(m)) \in Nat
      /\ Count(inbox, {m}) \in Nat /\ Count(queue[GroupOf[m]], {m}) \in Nat
      /\ Count(replay, {m}) \in Nat
  BY TotalTypes
<1>9. ASSUME Take(n)
      PROVE  /\ Count(inbox', {m}) \in Nat /\ Count(replay', {m}) \in Nat
             /\ Count(inbox, {m}) + Count(replay, {m})
                  = Count(inbox', {m}) + Count(replay', {m}) + one
  BY <1>9, TakenCounts
<1>11. one \in Nat
  BY DEF one
<1>10. ASSUME Take(n),
              Count(dbq', StoresOf(m)) + Count(queue'[GroupOf[m]], {m})
                <= Count(dbq, StoresOf(m)) + Count(queue[GroupOf[m]], {m}) + one,
              Count(dbq', StoresOf(m)) \in Nat, Count(queue'[GroupOf[m]], {m}) \in Nat
       PROVE  Total(m)' <= Total(m)
  <2>1. Total(m)' = Count(stored', {m}) + Count(dbq', StoresOf(m)) + Count(inbox', {m})
                      + Count(queue'[GroupOf[m]], {m}) + Count(replay', {m})
    BY DEF Total, StoresOf
  <2>2. /\ Count(inbox', {m}) \in Nat /\ Count(replay', {m}) \in Nat
        /\ Count(inbox, {m}) + Count(replay, {m})
             = Count(inbox', {m}) + Count(replay', {m}) + one
    BY <1>9, <1>10
  <2>3. Total(m) = Count(stored, {m}) + Count(dbq, StoresOf(m)) + Count(inbox, {m})
                     + Count(queue[GroupOf[m]], {m}) + Count(replay, {m})
    BY DEF Total
  <2>4. Count(stored', {m}) = Count(stored, {m})
    BY <1>2
  <2>5. Count(stored, {m}) + Count(dbq', StoresOf(m)) + Count(inbox', {m})
          + Count(queue'[GroupOf[m]], {m}) + Count(replay', {m})
        <= Count(stored, {m}) + Count(dbq, StoresOf(m)) + Count(inbox, {m})
             + Count(queue[GroupOf[m]], {m}) + Count(replay, {m})
    BY <1>8, <1>10, <1>11, <2>2, AddUp
  <2> QED
    BY <2>1, <2>3, <2>4, <2>5
<1> HIDE DEF one
<1>3. CASE IgnoreMessage(n)
  <2>1. Take(n) /\ UNCHANGED <<dbq, queue>>
    BY <1>3 DEF IgnoreMessage
  <2>2. /\ Count(dbq', StoresOf(m)) = Count(dbq, StoresOf(m))
        /\ Count(queue'[GroupOf[m]], {m}) = Count(queue[GroupOf[m]], {m})
    BY <2>1
  <2> QED
    BY <1>8, <1>10, <1>11, <2>1, <2>2
<1>4. CASE AcceptMessage(n)
  <2>1. Take(n) /\ UNCHANGED queue /\ dbq' = Append(dbq, SaveCall(n))
    BY <1>4 DEF AcceptMessage
  <2>2. Count(dbq', StoresOf(m)) = Count(dbq, StoresOf(m)) + one
    BY <1>2, <2>1, SaveCallCounts DEF one
  <2>3. Count(queue'[GroupOf[m]], {m}) = Count(queue[GroupOf[m]], {m})
    BY <2>1
  <2> QED
    BY <1>8, <1>10, <1>11, <2>1, <2>2, <2>3
<1>5. CASE TrustSender(n)
  <2>1. /\ Take(n) /\ UNCHANGED queue
        /\ dbq' = Append(Append(<<>>, NewGroupCall(n)), SaveCall(n))
    BY <1>2, <1>5 DEF TrustSender, TrustCalls, Unrecognised
  <2>2. Append(<<>>, NewGroupCall(n)) \in Seq(Call)
    BY <1>2, CallsHaveTypes, SeqAppend
  <2>3. Count(dbq', StoresOf(m)) = Count(Append(<<>>, NewGroupCall(n)), StoresOf(m)) + one
    BY <2>1, <2>2, SaveCallCounts DEF one
  <2>4. Count(Append(<<>>, NewGroupCall(n)), StoresOf(m)) = Count(dbq, StoresOf(m))
    BY <1>2, SaveCallCounts
  <2>5. Count(queue'[GroupOf[m]], {m}) = Count(queue[GroupOf[m]], {m})
    BY <2>1
  <2> QED
    BY <1>8, <1>10, <1>11, <2>1, <2>3, <2>4, <2>5
<1>6. CASE QueueMessage(n)
  <2>1. /\ Take(n) /\ UNCHANGED dbq
        /\ queue' = [queue EXCEPT ![GroupOf[n]] = Append(@, n)]
    BY <1>6 DEF QueueMessage, StoreGroupMessage, Unrecognised
  <2>2. Count(queue'[GroupOf[m]], {m}) = Count(queue[GroupOf[m]], {m}) + one
    <3>1. CASE GroupOf[n] = GroupOf[m]
      <4>1. queue'[GroupOf[m]] = Append(queue[GroupOf[m]], n)
        BY <1>2, <2>1, <3>1
      <4>2. n \in {m} <=> n = m
        OBVIOUS
      <4> QED
        BY <1>2, <4>1, <4>2, CountAppend DEF one
    <3>2. CASE GroupOf[n] # GroupOf[m]
      <4>1. queue'[GroupOf[m]] = queue[GroupOf[m]] /\ n # m
        BY <1>2, <2>1, <3>2
      <4> QED
        BY <1>8, <4>1 DEF one
    <3> QED
      BY <3>1, <3>2
  <2>3. Count(dbq', StoresOf(m)) = Count(dbq, StoresOf(m))
    BY <2>1
  <2> QED
    BY <1>8, <1>10, <1>11, <2>1, <2>2, <2>3
<1>7. CASE ProcessReceivedGroupCreation(n)
  <2>1. /\ inbox # <<>> /\ n = Head(inbox) /\ inbox' = Tail(inbox) /\ replay = <<>>
        /\ replay' = queue[GroupOf[n]] /\ Kind[n] = "creation"
        /\ queue' = [queue EXCEPT ![GroupOf[n]] = <<>>]
        /\ dbq' = Append(dbq, CreationCall(n))
    BY <1>7 DEF ProcessReceivedGroupCreation, ReplayQueued
  <2>2. Count(dbq', StoresOf(m)) = Count(dbq, StoresOf(m)) + one
    BY <1>2, <2>1, SaveCallCounts DEF one
  <2>3. /\ Count(inbox, {m}) = Count(inbox', {m}) + one
        /\ Count(inbox', {m}) \in Nat
    <3>1. inbox \in Seq(Messages) /\ inbox' \in Seq(Messages)
      BY <2>1, SeqTail DEF TypeOK
    <3> QED
      BY <2>1, <3>1, CountTail, CountType DEF one
  <2>4. Count(replay, {m}) = 0
    BY <2>1, CountEmpty
  <2>5. Count(queue'[GroupOf[m]], {m}) + Count(replay', {m})
          = Count(queue[GroupOf[m]], {m})
    <3>1. CASE GroupOf[n] = GroupOf[m]
      <4>1. queue'[GroupOf[m]] = <<>> /\ replay' = queue[GroupOf[m]]
        BY <1>2, <2>1, <3>1
      <4>2. Count(queue'[GroupOf[m]], {m}) = 0
        BY <4>1, CountEmpty
      <4>3. Count(replay', {m}) = Count(queue[GroupOf[m]], {m})
        BY <4>1
      <4>4. Count(queue[GroupOf[m]], {m}) \in Nat
        BY TotalTypes
      <4> QED
        BY <4>2, <4>3, <4>4
    <3>2. CASE GroupOf[n] # GroupOf[m]
      <4>1. queue'[GroupOf[m]] = queue[GroupOf[m]]
        BY <1>2, <2>1, <3>2
      <4>2. replay' \in Seq(Messages) /\ \A i \in DOMAIN replay' : replay'[i] \notin {m}
        BY <1>2, <2>1, <3>2 DEF TypeOK, Held
      <4>3. Count(replay', {m}) = 0
        BY <4>2, CountOfOthers
      <4>4. Count(queue'[GroupOf[m]], {m}) = Count(queue[GroupOf[m]], {m})
        BY <4>1
      <4> QED
        BY <1>8, <4>3, <4>4
    <3> QED
      BY <3>1, <3>2
  <2>6. Count(replay', {m}) \in Nat /\ Count(queue'[GroupOf[m]], {m}) \in Nat
    <3>1. replay' \in Seq(Messages) /\ queue'[GroupOf[m]] \in Seq(Messages)
      BY <1>2, <2>1
    <3> QED
      BY <3>1, CountType
  <2>7. Total(m)' = Count(stored', {m}) + Count(dbq', StoresOf(m)) + Count(inbox', {m})
                      + Count(queue'[GroupOf[m]], {m}) + Count(replay', {m})
    BY DEF Total, StoresOf
  <2>8. Count(dbq', StoresOf(m)) \in Nat
    BY <1>8, <1>11, <2>2
  <2>9. Count(stored, {m}) + Count(dbq', StoresOf(m)) + Count(inbox', {m})
            + Count(queue'[GroupOf[m]], {m}) + Count(replay', {m})
          <= Count(stored, {m}) + Count(dbq, StoresOf(m)) + Count(inbox, {m})
               + Count(queue[GroupOf[m]], {m}) + Count(replay, {m})
    BY <1>8, <1>11, <2>2, <2>3, <2>4, <2>5, <2>6, <2>8, AddUpAfterCreation
  <2> QED
    BY <1>2, <2>7, <2>9 DEF Total
<1> QED
  BY <1>1, <1>3, <1>4, <1>5, <1>6, <1>7

LEMMA LosingStateCounts ==
    ASSUME TypeOK, Crash \/ Exit, NEW m \in Messages
    PROVE  Total(m)' <= Total(m)
<1>1. /\ inbox' = <<>> /\ replay' = <<>> /\ dbq' = <<>>
      /\ queue' = [g \in Groups |-> <<>>]
  BY DEF Crash, Exit, LoseVolatileState
<1>2. /\ Count(inbox', {m}) = 0 /\ Count(replay', {m}) = 0
      /\ Count(dbq', StoresOf(m)) = 0 /\ Count(queue'[GroupOf[m]], {m}) = 0
  BY <1>1, CountEmpty, MessageFacts
<1>3. \/ UNCHANGED stored
      \/ /\ dbq # <<>> /\ InsertRow(Head(dbq)) /\ Head(dbq).op # "newGroup"
  BY DEF Crash, Exit, tableVars
<1>4. /\ Count(stored, {m}) \in Nat /\ Count(dbq, StoresOf(m)) \in Nat
      /\ Count(inbox, {m}) \in Nat /\ Count(queue[GroupOf[m]], {m}) \in Nat
      /\ Count(replay, {m}) \in Nat
  BY TotalTypes
<1>5. Count(stored', {m}) \in Nat
      /\ Count(stored', {m}) <= Count(stored, {m}) + Count(dbq, StoresOf(m))
  <2>1. CASE UNCHANGED stored
    BY <1>4, <2>1
  <2>2. CASE dbq # <<>> /\ InsertRow(Head(dbq)) /\ Head(dbq).op # "newGroup"
    <3>1. dbq \in Seq(Call) /\ Head(dbq) \in Call /\ Tail(dbq) \in Seq(Call)
      BY <2>2, SeqTail DEF TypeOK
    <3>2. Count(stored', {m}) = Count(stored, {m})
                                  + (IF Head(dbq) \in StoresOf(m) THEN 1 ELSE 0)
      BY <2>2, <3>1, InsertedRowCounts
    <3>3. Count(dbq, StoresOf(m)) = Count(Tail(dbq), StoresOf(m))
                                      + (IF Head(dbq) \in StoresOf(m) THEN 1 ELSE 0)
      BY <2>2, <3>1, CountTail
    <3>4. Count(Tail(dbq), StoresOf(m)) \in Nat
      BY <3>1, CountType
    <3> QED
      BY <1>4, <3>2, <3>3, <3>4
  <2> QED
    BY <1>3, <2>1, <2>2
<1>6. Total(m)' = Count(stored', {m}) + Count(dbq', StoresOf(m)) + Count(inbox', {m})
                    + Count(queue'[GroupOf[m]], {m}) + Count(replay', {m})
  BY DEF Total, StoresOf
<1>7. Total(m) = Count(stored, {m}) + Count(dbq, StoresOf(m)) + Count(inbox, {m})
                   + Count(queue[GroupOf[m]], {m}) + Count(replay, {m})
  BY DEF Total
<1> QED
  BY <1>2, <1>4, <1>5, <1>6, <1>7

LEMMA DeliverCounts ==
    ASSUME TypeOK, NEW n \in Messages, Deliver(n), NEW m \in Messages
    PROVE  Total(m)' = Total(m) + (IF n = m THEN 1 ELSE 0)
<1>1. /\ inbox' = Append(inbox, n) /\ UNCHANGED <<stored, dbq, queue, replay>>
  BY DEF Deliver, tableVars
<1>2. inbox \in Seq(Messages) /\ (n \in {m} <=> n = m)
  BY DEF TypeOK
<1>3. Count(inbox', {m}) = Count(inbox, {m}) + (IF n = m THEN 1 ELSE 0)
  BY <1>1, <1>2, CountAppend
<1>4. /\ Count(stored, {m}) \in Nat /\ Count(dbq, StoresOf(m)) \in Nat
      /\ Count(inbox, {m}) \in Nat /\ Count(queue[GroupOf[m]], {m}) \in Nat
      /\ Count(replay, {m}) \in Nat
  BY TotalTypes
<1>5. Total(m)' = Count(stored, {m}) + Count(dbq, StoresOf(m)) + Count(inbox', {m})
                    + Count(queue[GroupOf[m]], {m}) + Count(replay, {m})
  BY <1>1 DEF Total, StoresOf
<1>6. Total(m) = Count(stored, {m}) + Count(dbq, StoresOf(m)) + Count(inbox, {m})
                   + Count(queue[GroupOf[m]], {m}) + Count(replay, {m})
  BY DEF Total
<1> QED
  BY <1>3, <1>4, <1>5, <1>6

RowsAreCounted == \A m \in Messages : Total(m) \in Nat /\ Total(m) <= delivered[m]

LEMMA StepKeepsCounts ==
    ASSUME TypeOK, TypeOK', RowsAreCounted, [Next]_vars
    PROVE  RowsAreCounted'
<1> SUFFICES ASSUME NEW m \in Messages
             PROVE  Total(m)' \in Nat /\ Total(m)' <= delivered'[m]
  BY DEF RowsAreCounted
<1>1. Total(m) \in Nat /\ Total(m) <= delivered[m] /\ delivered[m] \in Nat
  BY DEF RowsAreCounted, TypeOK
<1>2. Total(m)' \in Nat
  <2>1. /\ Count(stored', {m}) \in Nat /\ Count(dbq', StoresOf(m)) \in Nat
        /\ Count(inbox', {m}) \in Nat /\ Count(queue'[GroupOf[m]], {m}) \in Nat
        /\ Count(replay', {m}) \in Nat
    BY CountType, MessageFacts DEF TypeOK
  <2>2. Total(m)' = Count(stored', {m}) + Count(dbq', StoresOf(m)) + Count(inbox', {m})
                      + Count(queue'[GroupOf[m]], {m}) + Count(replay', {m})
    BY DEF Total, StoresOf
  <2> QED
    BY <2>1, <2>2
<1>3. ASSUME Total(m)' <= Total(m), UNCHANGED delivered
      PROVE  Total(m)' <= delivered'[m]
  BY <1>1, <1>2, <1>3
<1>4. ASSUME UNCHANGED <<stored, dbq, inbox, queue, replay, delivered>>
      PROVE  Total(m)' <= delivered'[m]
  <2>1. Total(m)' = Total(m)
    BY <1>4 DEF Total, StoresOf
  <2> QED
    BY <1>1, <1>4, <2>1
<1>5. CASE ExecuteStore
  BY <1>2, <1>3, <1>5, ExecuteStoreCounts DEF ExecuteStore, serverVars
<1>6. CASE CenterStep
  <2>1. UNCHANGED delivered
    BY <1>6 DEF CenterStep, IgnoreMessage, AcceptMessage, TrustSender, QueueMessage,
       ProcessReceivedGroupCreation, serverVars
  <2> QED
    BY <1>2, <1>3, <1>6, <2>1, CenterStepCounts
<1>7. CASE \E n \in Messages : Deliver(n)
  <2>1. PICK n \in Messages : Deliver(n)
    BY <1>7
  <2>2. Total(m)' = Total(m) + (IF n = m THEN 1 ELSE 0)
    BY <2>1, DeliverCounts
  <2>3. delivered'[m] = delivered[m] + (IF n = m THEN 1 ELSE 0)
    BY <1>1, <2>1 DEF Deliver, TypeOK
  <2> QED
    BY <1>1, <2>2, <2>3
<1>8. CASE Crash \/ Exit
  <2>1. UNCHANGED delivered
    BY <1>8 DEF Crash, Exit, LoseVolatileState
  <2> QED
    BY <1>2, <1>3, <1>8, <2>1, LosingStateCounts
<1>9. CASE (\E g \in Groups : SendSyncRequest(g) \/ FiveMinutesPass(g))
           \/ (\E n \in Messages : Post(n) \/ AckArrives(n))
  BY <1>2, <1>4, <1>9 DEF SendSyncRequest, FiveMinutesPass, Post, AckArrives,
     tableVars, memoryVars, serverVars
<1>10. CASE SocketDisconnected \/ Reconnect \/ Restart \/ UNCHANGED vars
  BY <1>2, <1>4, <1>10 DEF SocketDisconnected, Reconnect, Restart, vars,
     tableVars, memoryVars, serverVars
<1> QED
  BY <1>5, <1>6, <1>7, <1>8, <1>9, <1>10 DEF Next

LEMMA InitHasCounts == Init => RowsAreCounted
<1> SUFFICES ASSUME Init, NEW m \in Messages
             PROVE  Total(m) = 0 /\ delivered[m] = 0
  BY DEF RowsAreCounted
<1>1. /\ stored = <<>> /\ dbq = <<>> /\ inbox = <<>> /\ replay = <<>>
      /\ queue[GroupOf[m]] = <<>> /\ delivered[m] = 0
  BY MessageFacts DEF Init
<1>2. /\ Count(stored, {m}) = 0 /\ Count(dbq, StoresOf(m)) = 0
      /\ Count(inbox, {m}) = 0 /\ Count(queue[GroupOf[m]], {m}) = 0
      /\ Count(replay, {m}) = 0
  BY <1>1, CountEmpty
<1> QED
  BY <1>1, <1>2 DEF Total

(* Each delivery of a message leads to one row at most, however often the  *)
(* message waits in the queue and comes out of it again, with and without  *)
(* TRUST_OTHERS (SimpleMessageCenter, MessageQueue).                       *)
THEOREM OneRowPerDeliveryAtMost == Spec => []OneRowPerDelivery
<1>1. Init => TypeOK /\ RowsAreCounted
  BY InitHasTypes, InitHasCounts
<1>2. TypeOK /\ RowsAreCounted /\ [Next]_vars => TypeOK' /\ RowsAreCounted'
  BY StepKeepsTypes, StepKeepsCounts
<1>3. TypeOK /\ RowsAreCounted => OneRowPerDelivery
  BY TotalCounts DEF RowsAreCounted
<1> QED
  BY <1>1, <1>2, <1>3, PTL DEF Spec

-----------------------------------------------------------------------------
(* The order of texts.                                                     *)

(* m waits in the memory of the message center. *)
InHand(m) == IsIn(inbox, m) \/ IsIn(replay, m) \/ IsIn(queue[GroupOf[m]], m)

(* Every s in the list comes after an f, unless that is excused. *)
InOrder(list, f, s, excused) ==
    \A i \in DOMAIN list :
        list[i] = s => excused \/ \E j \in DOMAIN list : j < i /\ list[j] = f

PostedBefore(f, s) ==
    /\ Kind[f] = "text" /\ Kind[s] = "text"
    /\ Sender[f] = Sender[s] /\ GroupOf[f] = GroupOf[s]
    /\ \E i, j \in DOMAIN posted : i < j /\ posted[i] = f /\ posted[j] = s

(* Wherever s has come to, f is ahead of it, or waits in the queue, where  *)
(* s will have to wait too.                                                *)
Behind(f, s) ==
    /\ InOrder(stored, f, s, f \in lost)
    /\ s \in MessagesIn(dbq) => f \in lost \/ IsIn(stored, f)
    /\ InOrder(queue[GroupOf[s]], f, s, f \in Kept)
    /\ InOrder(replay, f, s, f \in Kept \/ IsIn(queue[GroupOf[s]], f))
    /\ InOrder(inbox, f, s, \/ f \in Kept
                            \/ IsIn(queue[GroupOf[s]], f)
                            \/ IsIn(replay, f))

OrderIsKept == \A f, s \in Messages : PostedBefore(f, s) => Behind(f, s)

(* Who waits in the queue is not recognised, and nothing that would change *)
(* this is on its way to the database.                                     *)
QueuedAreStrangers ==
    \A m \in Messages :
        Kind[m] = "text" /\ IsIn(queue[GroupOf[m]], m) =>
            /\ ~Recognised(m)
            /\ \A k \in DOMAIN dbq :
                  dbq[k].op \in {"creation", "newGroup"}
                      => GroupOf[dbq[k].msg] # GroupOf[m]

SeenAreHandled ==
    connected => \A m \in seen : Kind[m] = "text" => m \in Kept \/ InHand(m)

Appeared(m) == InHand(m) \/ m \in Kept \/ m \in seen

PostedOnce ==
    /\ \A i, j \in DOMAIN posted : posted[i] = posted[j] => i = j
    /\ \A m \in Messages : Appeared(m) => IsIn(posted, m)

OrderInv == OrderIsKept /\ QueuedAreStrangers /\ SeenAreHandled /\ PostedOnce

(* Texts are not held back on their way, and the option is off. *)
Orderly == TRUE \notin Trusts /\ \A m \in Delayed : Kind[m] # "text"

LEMMA Members ==
    ASSUME NEW S, NEW q \in Seq(S), NEW x \in S, NEW m
    PROVE  /\ ~IsIn(<<>>, m)
           /\ IsIn(Append(q, x), m) <=> IsIn(q, m) \/ m = x
           /\ q # <<>> => (IsIn(q, m) <=> IsIn(Tail(q), m) \/ m = Head(q))
<1>1. DOMAIN q = 1..Len(q) /\ Len(q) \in Nat
  BY LenProperties
<1>2. ~IsIn(<<>>, m)
  BY DEF IsIn
<1>3. IsIn(Append(q, x), m) <=> IsIn(q, m) \/ m = x
  <2>1. /\ DOMAIN Append(q, x) = 1..Len(q) + 1 /\ Append(q, x)[Len(q) + 1] = x
        /\ \A i \in 1..Len(q) : Append(q, x)[i] = q[i]
    BY AppendProperties, LenProperties
  <2> QED
    BY <1>1, <2>1 DEF IsIn
<1>4. ASSUME q # <<>>
      PROVE  IsIn(q, m) <=> IsIn(Tail(q), m) \/ m = Head(q)
  <2>1. /\ DOMAIN Tail(q) = 1..Len(q) - 1 /\ Head(q) = q[1] /\ Len(q) > 0
        /\ \A i \in 1..Len(q) - 1 : Tail(q)[i] = q[i + 1]
    BY <1>1, <1>4, HeadTailProperties, LenProperties, EmptySeq
  <2>2. ASSUME NEW i \in DOMAIN q, q[i] = m
        PROVE  IsIn(Tail(q), m) \/ m = Head(q)
    <3>1. CASE i = 1
      BY <2>1, <2>2, <3>1
    <3>2. CASE i # 1
      <4>1. i - 1 \in DOMAIN Tail(q) /\ Tail(q)[i - 1] = m
        BY <1>1, <2>1, <2>2, <3>2
      <4> QED
        BY <4>1 DEF IsIn
    <3> QED
      BY <3>1, <3>2
  <2>3. ASSUME NEW i \in DOMAIN Tail(q), Tail(q)[i] = m
        PROVE  IsIn(q, m)
    <3>1. i + 1 \in DOMAIN q /\ q[i + 1] = m
      BY <1>1, <2>1, <2>3
    <3> QED
      BY <3>1 DEF IsIn
  <2>4. m = Head(q) => IsIn(q, m)
    <3>1. 1 \in DOMAIN q
      BY <1>1, <2>1
    <3> QED
      BY <2>1, <3>1 DEF IsIn
  <2> QED
    BY <2>2, <2>3, <2>4 DEF IsIn
<1> QED
  BY <1>2, <1>3, <1>4

LEMMA OrderOfTail ==
    ASSUME NEW S, NEW q \in Seq(S), q # <<>>, NEW f, NEW s,
           NEW old, NEW new, InOrder(q, f, s, old),
           old => new, Head(q) = f => new
    PROVE  InOrder(Tail(q), f, s, new)
<1>1. /\ DOMAIN q = 1..Len(q) /\ Len(q) \in Nat
      /\ DOMAIN Tail(q) = 1..Len(q) - 1 /\ Head(q) = q[1] /\ Len(q) > 0
      /\ \A i \in 1..Len(q) - 1 : Tail(q)[i] = q[i + 1]
  BY HeadTailProperties, LenProperties, EmptySeq
<1> SUFFICES ASSUME NEW i \in DOMAIN Tail(q), Tail(q)[i] = s, ~new
             PROVE  \E j \in DOMAIN Tail(q) : j < i /\ Tail(q)[j] = f
  BY DEF InOrder
<1>2. i + 1 \in DOMAIN q /\ q[i + 1] = s
  BY <1>1
<1>3. PICK j \in DOMAIN q : j < i + 1 /\ q[j] = f
  BY <1>2 DEF InOrder
<1>4. j # 1
  BY <1>1, <1>3
<1>5. j - 1 \in DOMAIN Tail(q) /\ j - 1 < i /\ Tail(q)[j - 1] = f
  BY <1>1, <1>3, <1>4
<1> QED
  BY <1>5

LEMMA OrderOfAppend ==
    ASSUME NEW S, NEW q \in Seq(S), NEW x \in S, NEW f, NEW s,
           NEW old, NEW new, InOrder(q, f, s, old),
           old => new, x = s => new \/ IsIn(q, f)
    PROVE  InOrder(Append(q, x), f, s, new)
<1>1. /\ DOMAIN q = 1..Len(q) /\ Len(q) \in Nat
      /\ DOMAIN Append(q, x) = 1..Len(q) + 1 /\ Append(q, x)[Len(q) + 1] = x
      /\ \A i \in 1..Len(q) : Append(q, x)[i] = q[i]
  BY AppendProperties, LenProperties
<1> SUFFICES ASSUME NEW i \in DOMAIN Append(q, x), Append(q, x)[i] = s, ~new
             PROVE  \E j \in DOMAIN Append(q, x) : j < i /\ Append(q, x)[j] = f
  BY DEF InOrder
<1>2. CASE i = Len(q) + 1
  <2>1. PICK j \in DOMAIN q : q[j] = f
    BY <1>1, <1>2 DEF IsIn
  <2> QED
    BY <1>1, <1>2, <2>1
<1>3. CASE i # Len(q) + 1
  <2>1. i \in DOMAIN q /\ q[i] = s
    BY <1>1, <1>3
  <2>2. PICK j \in DOMAIN q : j < i /\ q[j] = f
    BY <2>1 DEF InOrder
  <2> QED
    BY <1>1, <2>2
<1> QED
  BY <1>2, <1>3

LEMMA OrderOfSame ==
    ASSUME NEW q, NEW f, NEW s, NEW old, NEW new, InOrder(q, f, s, old), old => new
    PROVE  InOrder(q, f, s, new)
BY DEF InOrder

LEMMA OrderOfOthers ==
    ASSUME NEW q, NEW f, NEW s, NEW new, ~IsIn(q, s)
    PROVE  InOrder(q, f, s, new)
BY DEF InOrder, IsIn

LEMMA OrderOfNothing ==
    ASSUME NEW f, NEW s, NEW new
    PROVE  InOrder(<<>>, f, s, new)
BY DEF InOrder

(* The first s is excused. *)
LEMMA HeadIsExcused ==
    ASSUME NEW S, NEW q \in Seq(S), q # <<>>, NEW f, NEW s, NEW excused,
           InOrder(q, f, s, excused), Head(q) = s
    PROVE  excused
<1>1. /\ DOMAIN q = 1..Len(q) /\ Len(q) \in Nat /\ Head(q) = q[1] /\ Len(q) > 0
  BY HeadTailProperties, LenProperties, EmptySeq
<1>2. 1 \in DOMAIN q /\ ~\E j \in DOMAIN q : j < 1
  BY <1>1
<1> QED
  BY <1>1, <1>2 DEF InOrder

LEMMA KeptMembers ==
    ASSUME NEW m
    PROVE  m \in Kept <=> IsIn(stored, m) \/ m \in MessagesIn(dbq) \/ m \in lost
BY DEF Kept, IsIn

LEMMA CallMembers ==
    ASSUME NEW m
    PROVE  /\ m \notin MessagesIn(<<>>)
           /\ \A c : m \in MessagesIn(<<c>>) <=> c.op # "newGroup" /\ m = c.msg
<1>1. DOMAIN <<>> = {}
  OBVIOUS
<1>2. \A c : DOMAIN <<c>> = {1} /\ <<c>>[1] = c
  OBVIOUS
<1> QED
  BY <1>1, <1>2 DEF MessagesIn

LEMMA QuietStepKeepsOrder ==
    ASSUME OrderInv, UNCHANGED <<stored, lost, dbq, inbox, queue, replay, posted>>,
           UNCHANGED <<status, members>>,
           connected' => connected \/ seen' = {},
           seen' = seen \/ seen' = {}
    PROVE  OrderInv'
<1>1. Kept' = Kept
  BY DEF Kept, MessagesIn
<1>2. \A m : InHand(m)' = InHand(m)
  BY DEF InHand, IsIn
<1>3. OrderIsKept'
  <2> SUFFICES ASSUME NEW f \in Messages, NEW s \in Messages, PostedBefore(f, s)'
               PROVE  Behind(f, s)'
    BY DEF OrderIsKept
  <2>1. PostedBefore(f, s)
    BY DEF PostedBefore
  <2>2. Behind(f, s)
    BY <2>1 DEF OrderInv, OrderIsKept
  <2> QED
    BY <1>1, <2>2 DEF Behind, MessagesIn, IsIn
<1>4. QueuedAreStrangers'
  BY DEF OrderInv, QueuedAreStrangers, IsIn, Recognised, HasGroup
<1>5. SeenAreHandled'
  BY <1>1, <1>2 DEF OrderInv, SeenAreHandled
<1>6. PostedOnce'
  BY <1>1, <1>2 DEF OrderInv, PostedOnce, Appeared, IsIn
<1> QED
  BY <1>3, <1>4, <1>5, <1>6 DEF OrderInv

-----------------------------------------------------------------------------
(* The database thread keeps the order.                                    *)

(* What executing the first call does to the rows and the calls. *)
LEMMA ExecutedRow ==
    ASSUME TypeOK, CallsAreSound, ExecuteStore
    PROVE  /\ dbq # <<>> /\ Head(dbq) \in Call /\ dbq' = Tail(dbq)
           /\ Execute(Head(dbq)) /\ UNCHANGED lost
           /\ \/ UNCHANGED stored /\ Head(dbq).op = "newGroup"
              \/ /\ stored' = Append(stored, Head(dbq).msg)
                 /\ Head(dbq).msg \in Messages /\ Head(dbq).op # "newGroup"
           /\ \A m : m \in MessagesIn(dbq) <=>
                       \/ m \in MessagesIn(dbq)'
                       \/ Head(dbq).op # "newGroup" /\ m = Head(dbq).msg
<1>1. dbq # <<>> /\ Head(dbq) \in Call /\ dbq' = Tail(dbq) /\ dbq \in Seq(Call)
  BY SeqTail DEF ExecuteStore, TypeOK
<1>2. Execute(Head(dbq)) /\ UNCHANGED lost
  BY SoundCallsSucceed DEF ExecuteStore, StoresSucceed
<1>3. \/ UNCHANGED stored /\ Head(dbq).op = "newGroup"
      \/ /\ stored' = Append(stored, Head(dbq).msg)
         /\ Head(dbq).msg \in Messages /\ Head(dbq).op # "newGroup"
  BY <1>1, <1>2 DEF Execute, InsertRow, Call
<1>4. /\ DOMAIN dbq = 1..Len(dbq) /\ DOMAIN Tail(dbq) = 1..Len(dbq) - 1
      /\ Head(dbq) = dbq[1] /\ Len(dbq) \in Nat /\ Len(dbq) > 0
      /\ \A i \in 1..Len(dbq) - 1 : Tail(dbq)[i] = dbq[i + 1]
  BY <1>1, HeadTailProperties, LenProperties, EmptySeq
<1>5. ASSUME NEW m
      PROVE  m \in MessagesIn(dbq) <=>
               \/ m \in MessagesIn(dbq)'
               \/ Head(dbq).op # "newGroup" /\ m = Head(dbq).msg
  <2>1. ASSUME NEW i \in DOMAIN dbq, dbq[i].op # "newGroup", m = dbq[i].msg
        PROVE  \/ m \in MessagesIn(dbq)'
               \/ Head(dbq).op # "newGroup" /\ m = Head(dbq).msg
    <3>1. CASE i = 1
      BY <1>4, <2>1, <3>1
    <3>2. CASE i # 1
      <4>1. i - 1 \in DOMAIN dbq' /\ dbq'[i - 1] = dbq[i]
        BY <1>1, <1>4, <2>1, <3>2
      <4> QED
        BY <2>1, <4>1 DEF MessagesIn
    <3> QED
      BY <3>1, <3>2
  <2>2. ASSUME NEW i \in DOMAIN dbq', dbq'[i].op # "newGroup", m = dbq'[i].msg
        PROVE  m \in MessagesIn(dbq)
    <3>1. i + 1 \in DOMAIN dbq /\ dbq[i + 1] = dbq'[i]
      BY <1>1, <1>4, <2>2
    <3> QED
      BY <2>2, <3>1 DEF MessagesIn
  <2>3. Head(dbq).op # "newGroup" /\ m = Head(dbq).msg => m \in MessagesIn(dbq)
    <3>1. 1 \in DOMAIN dbq
      BY <1>4
    <3> QED
      BY <1>4, <3>1 DEF MessagesIn
  <2> QED
    BY <2>1, <2>2, <2>3 DEF MessagesIn
<1> QED
  BY <1>1, <1>2, <1>3, <1>5

LEMMA ExecuteStoreKeepsOrder ==
    ASSUME TypeOK, CallsAreSound, OrderInv, ExecuteStore
    PROVE  OrderInv'
<1>1. /\ UNCHANGED <<inbox, queue, replay, posted, seen, connected>>
      /\ stored \in Seq(Messages) /\ dbq \in Seq(Call)
  BY DEF ExecuteStore, memoryVars, serverVars, TypeOK
<1>2. Kept' = Kept
  <2>1. ASSUME NEW m
        PROVE  m \in Kept' <=> IsIn(stored', m) \/ m \in MessagesIn(dbq)' \/ m \in lost'
    BY DEF Kept, IsIn
  <2>2. ASSUME NEW m
        PROVE  m \in Kept' <=> m \in Kept
    <3>1. CASE UNCHANGED stored /\ Head(dbq).op = "newGroup"
      BY <2>1, <3>1, ExecutedRow, KeptMembers
    <3>2. CASE /\ stored' = Append(stored, Head(dbq).msg)
               /\ Head(dbq).msg \in Messages /\ Head(dbq).op # "newGroup"
      <4>1. IsIn(stored', m) <=> IsIn(stored, m) \/ m = Head(dbq).msg
        BY <1>1, <3>2, Members
      <4> QED
        BY <2>1, <3>2, <4>1, ExecutedRow, KeptMembers
    <3> QED
      BY <3>1, <3>2, ExecutedRow
  <2> QED
    BY <2>2
<1>3. \A m : IsIn(stored, m) => IsIn(stored', m)
  <2>1. CASE UNCHANGED stored
    BY <2>1
  <2>2. CASE stored' = Append(stored, Head(dbq).msg) /\ Head(dbq).msg \in Messages
    BY <1>1, <2>2, Members
  <2> QED
    BY <2>1, <2>2, ExecutedRow
<1>4. OrderIsKept'
  <2> SUFFICES ASSUME NEW f \in Messages, NEW s \in Messages, PostedBefore(f, s)'
               PROVE  Behind(f, s)'
    BY DEF OrderIsKept
  <2>1. PostedBefore(f, s)
    BY <1>1 DEF PostedBefore
  <2>2. Behind(f, s)
    BY <2>1 DEF OrderInv, OrderIsKept
  <2>3. InOrder(stored', f, s, f \in lost')
    <3>1. InOrder(stored, f, s, f \in lost) /\ UNCHANGED lost
      BY <2>2, ExecutedRow DEF Behind
    <3>2. CASE UNCHANGED stored
      BY <3>1, <3>2
    <3>3. CASE /\ stored' = Append(stored, Head(dbq).msg)
               /\ Head(dbq).msg \in Messages /\ Head(dbq).op # "newGroup"
      <4>1. Head(dbq).msg = s => f \in lost' \/ IsIn(stored, f)
        BY <2>2, <3>1, <3>3, ExecutedRow DEF Behind
      <4>2. InOrder(stored, f, s, f \in lost')
        BY <3>1
      <4> DEFINE x == Head(dbq).msg
                 late == f \in lost'
      <4>3. x \in Messages /\ (x = s => late \/ IsIn(stored, f)) /\ InOrder(stored, f, s, late)
        BY <3>3, <4>1, <4>2
      <4> HIDE DEF x, late
      <4>4. InOrder(Append(stored, x), f, s, late)
        BY <1>1, <4>3, OrderOfAppend
      <4>5. InOrder(Append(stored, Head(dbq).msg), f, s, f \in lost')
        BY <4>4 DEF x, late
      <4> QED
        BY <3>3, <4>5
    <3> QED
      BY <3>2, <3>3, ExecutedRow
  <2>4. s \in MessagesIn(dbq)' => f \in lost' \/ IsIn(stored', f)
    BY <1>3, <2>2, ExecutedRow DEF Behind
  <2>5. /\ InOrder(queue'[GroupOf[s]], f, s, f \in Kept')
        /\ InOrder(replay', f, s, f \in Kept' \/ IsIn(queue'[GroupOf[s]], f))
        /\ InOrder(inbox', f, s, \/ f \in Kept'
                                 \/ IsIn(queue'[GroupOf[s]], f)
                                 \/ IsIn(replay', f))
    BY <1>1, <1>2, <2>2 DEF Behind
  <2> QED
    BY <2>3, <2>4, <2>5 DEF Behind
<1>5. QueuedAreStrangers'
  <2> SUFFICES ASSUME NEW m \in Messages, Kind[m] = "text",
                      IsIn(queue'[GroupOf[m]], m)
               PROVE  /\ ~Recognised(m)'
                      /\ \A k \in DOMAIN dbq' :
                            dbq'[k].op \in {"creation", "newGroup"}
                                => GroupOf[dbq'[k].msg] # GroupOf[m]
    BY DEF QueuedAreStrangers
  <2>1. /\ ~Recognised(m)
        /\ \A k \in DOMAIN dbq :
              dbq[k].op \in {"creation", "newGroup"} => GroupOf[dbq[k].msg] # GroupOf[m]
    BY <1>1 DEF OrderInv, QueuedAreStrangers
  <2>2. \A k \in DOMAIN dbq' : k + 1 \in DOMAIN dbq /\ dbq'[k] = dbq[k + 1]
    BY <1>1, ExecutedRow, TailElements
  <2>3. 1 \in DOMAIN dbq /\ Head(dbq) = dbq[1]
    BY <1>1, ExecutedRow, HeadTailProperties, LenProperties, EmptySeq
  <2> DEFINE g == GroupOf[m]
             h == GroupOf[Head(dbq).msg]
  <2>4. g \in Groups /\ h \in Groups /\ Head(dbq).msg \in Messages
    BY MessageFacts, ExecutedRow DEF Call
  <2>5. /\ status \in [Groups -> {"unknown", "known", "temporary", "deleted"}]
        /\ members \in [Groups -> SUBSET People]
    BY DEF TypeOK
  <2>6. \/ UNCHANGED <<status, members>>
        \/ \E with : g # h /\ AddGroup(h, with, FALSE)
        \/ \E with : g # h /\ AddGroup(h, with, TRUE)
        \/ SetGroupMembers(h, members[h] \ {Sender[Head(dbq).msg]})
    BY <2>1, <2>3, ExecutedRow DEF Execute
  <2>7. /\ status'[g] \in {status[g], "deleted"}
        /\ members'[g] \subseteq members[g]
    BY <2>4, <2>5, <2>6 DEF AddGroup, SetGroupMembers
  <2>8. ~Recognised(m)'
    BY <2>1, <2>7 DEF Recognised, HasGroup
  <2> QED
    BY <2>1, <2>2, <2>8
<1>6. SeenAreHandled'
  BY <1>1, <1>2 DEF OrderInv, SeenAreHandled, InHand, IsIn
<1>7. PostedOnce'
  BY <1>1, <1>2 DEF OrderInv, PostedOnce, Appeared, InHand, IsIn
<1> QED
  BY <1>4, <1>5, <1>6, <1>7 DEF OrderInv

-----------------------------------------------------------------------------
(* The message center keeps the order.                                     *)

LEMMA TakenFromHand ==
    ASSUME TypeOK, NEW n \in Messages, Take(n), NEW x
    PROVE  /\ IsIn(inbox', x) => IsIn(inbox, x)
           /\ IsIn(replay', x) => IsIn(replay, x)
           /\ IsIn(inbox, x) => IsIn(inbox', x) \/ x = n
           /\ IsIn(replay, x) => IsIn(replay', x) \/ x = n
           /\ IsIn(inbox, n) \/ IsIn(replay, n)
<1>1. inbox \in Seq(Messages) /\ replay \in Seq(Messages)
  BY DEF TypeOK
<1>2. CASE replay # <<>> /\ n = Head(replay) /\ replay' = Tail(replay) /\ UNCHANGED inbox
  BY <1>1, <1>2, Members
<1>3. CASE inbox # <<>> /\ n = Head(inbox) /\ inbox' = Tail(inbox) /\ UNCHANGED replay
  BY <1>1, <1>3, Members
<1> QED
  BY <1>2, <1>3 DEF Take

LEMMA NextIsExcused ==
    ASSUME TypeOK, OrderIsKept, NEW n \in Messages, Take(n),
           NEW f \in Messages, PostedBefore(f, n)
    PROVE  f \in Kept \/ IsIn(queue[GroupOf[n]], f)
<1> DEFINE old == f \in Kept \/ IsIn(queue[GroupOf[n]], f)
           late == old \/ IsIn(replay, f)
<1>1. InOrder(replay, f, n, old)
  BY DEF OrderIsKept, Behind
<1>2. InOrder(inbox, f, n, late)
  BY DEF OrderIsKept, Behind
<1>3. inbox \in Seq(Messages) /\ replay \in Seq(Messages)
  BY DEF TypeOK
<1>4. replay = <<>> => (late => old)
  BY DEF IsIn
<1> HIDE DEF old, late
<1>5. CASE replay # <<>> /\ n = Head(replay)
  BY <1>1, <1>3, <1>5, HeadIsExcused DEF old
<1>6. CASE replay = <<>> /\ inbox # <<>> /\ n = Head(inbox)
  <2>1. late
    BY <1>2, <1>3, <1>6, HeadIsExcused
  <2> QED
    BY <1>4, <1>6, <2>1 DEF old
<1> QED
  BY <1>5, <1>6 DEF Take

LEMMA TakenOrder ==
    ASSUME TypeOK, NEW n \in Messages, Take(n), NEW f, NEW s,
           NEW old, NEW new, NEW late, NEW later,
           old => new, f = n => new, late => old \/ IsIn(replay, f),
           new => later, IsIn(replay', f) => later,
           InOrder(replay, f, s, old), InOrder(inbox, f, s, late)
    PROVE  InOrder(replay', f, s, new) /\ InOrder(inbox', f, s, later)
<1>1. inbox \in Seq(Messages) /\ replay \in Seq(Messages)
  BY DEF TypeOK
<1>2. late => later
  BY TakenFromHand
<1>3. CASE replay # <<>> /\ n = Head(replay) /\ replay' = Tail(replay) /\ UNCHANGED inbox
  <2>1. InOrder(replay', f, s, new)
    BY <1>1, <1>3, OrderOfTail
  <2>2. InOrder(inbox', f, s, later)
    BY <1>2, <1>3, OrderOfSame
  <2> QED
    BY <2>1, <2>2
<1>4. CASE inbox # <<>> /\ n = Head(inbox) /\ inbox' = Tail(inbox) /\ UNCHANGED replay
  <2>1. InOrder(replay', f, s, new)
    BY <1>4, OrderOfSame
  <2>2. Head(inbox) = f => later
    BY <1>4
  <2>3. InOrder(inbox', f, s, later)
    BY <1>1, <1>2, <1>4, <2>2, OrderOfTail
  <2> QED
    BY <2>1, <2>3
<1> QED
  BY <1>3, <1>4 DEF Take

(* One message is taken and goes to the database, to the queue or nowhere. *)
LEMMA TakenBehind ==
    ASSUME TypeOK, OrderInv, NEW n \in Messages, Take(n), dbq = <<>>,
           UNCHANGED <<stored, lost>>, Kept \subseteq Kept',
           NEW f \in Messages, NEW s \in Messages, PostedBefore(f, s),
           f = n => f \in Kept' \/ IsIn(queue'[GroupOf[s]], f),
           IsIn(queue[GroupOf[s]], f) => IsIn(queue'[GroupOf[s]], f),
           s \in MessagesIn(dbq)' => s = n /\ Recognised(n),
           \/ queue'[GroupOf[s]] = queue[GroupOf[s]]
           \/ queue'[GroupOf[s]] = Append(queue[GroupOf[s]], n)
    PROVE  Behind(f, s)'
<1> DEFINE kept == f \in Kept
           kept2 == f \in Kept'
           old == kept \/ IsIn(queue[GroupOf[s]], f)
           new == kept2 \/ IsIn(queue'[GroupOf[s]], f)
           late == old \/ IsIn(replay, f)
           later == new \/ IsIn(replay', f)
           line == queue[GroupOf[s]]
<1>1. Behind(f, s)
  BY DEF OrderInv, OrderIsKept
<1>2. InOrder(line, f, s, kept)
  BY <1>1 DEF Behind
<1>3. InOrder(replay, f, s, old)
  BY <1>1 DEF Behind
<1>4. InOrder(inbox, f, s, late)
  BY <1>1 DEF Behind, InOrder
<1>5. s = n => kept \/ IsIn(line, f)
  BY NextIsExcused DEF OrderInv
<1>6. line \in Seq(Messages)
  BY MessageFacts DEF TypeOK
<1>7. /\ kept => kept2
      /\ old => new
      /\ f = n => new
      /\ late => old \/ IsIn(replay, f)
      /\ new => later
      /\ IsIn(replay', f) => later
  OBVIOUS
<1>8. InOrder(stored', f, s, f \in lost')
  BY <1>1 DEF Behind
<1>9. s \in MessagesIn(dbq)' => f \in lost' \/ IsIn(stored', f)
  <2> SUFFICES ASSUME s \in MessagesIn(dbq)'
               PROVE  f \in lost \/ IsIn(stored, f)
    OBVIOUS
  <2>1. s = n /\ Recognised(n)
    OBVIOUS
  <2>2. Sender[f] = Sender[s] /\ GroupOf[f] = GroupOf[s] /\ Kind[f] = "text"
    BY DEF PostedBefore
  <2>3. Recognised(f)
    BY <2>1, <2>2 DEF Recognised
  <2>4. ~IsIn(line, f)
    BY <2>2, <2>3 DEF OrderInv, QueuedAreStrangers
  <2>5. f \in Kept
    BY <1>5, <2>1, <2>4
  <2> QED
    BY <2>5, KeptMembers, CallMembers
<1>10. \/ queue'[GroupOf[s]] = line
       \/ queue'[GroupOf[s]] = Append(line, n)
  OBVIOUS
<1> HIDE DEF kept, kept2, old, new, late, later, line
<1>11. InOrder(replay', f, s, new) /\ InOrder(inbox', f, s, later)
  BY <1>3, <1>4, <1>7, TakenOrder
<1>12. InOrder(queue'[GroupOf[s]], f, s, kept2)
  <2>1. CASE queue'[GroupOf[s]] = line
    <3>1. InOrder(line, f, s, kept2)
      BY <1>2, <1>7, OrderOfSame
    <3> QED
      BY <2>1, <3>1
  <2>2. CASE queue'[GroupOf[s]] = Append(line, n)
    <3>1. n = s => kept2 \/ IsIn(line, f)
      BY <1>5, <1>7
    <3>2. InOrder(Append(line, n), f, s, kept2)
      BY <1>2, <1>6, <1>7, <3>1, OrderOfAppend
    <3> QED
      BY <2>2, <3>2
  <2> QED
    BY <1>10, <2>1, <2>2
<1>13. InOrder(inbox', f, s, \/ f \in Kept'
                             \/ IsIn(queue'[GroupOf[s]], f)
                             \/ IsIn(replay', f))
  BY <1>11 DEF later, new, kept2, InOrder
<1>14. InOrder(replay', f, s, f \in Kept' \/ IsIn(queue'[GroupOf[s]], f))
  BY <1>11 DEF new, kept2
<1>15. InOrder(queue'[GroupOf[s]], f, s, f \in Kept')
  BY <1>12 DEF kept2
<1> QED
  BY <1>8, <1>9, <1>13, <1>14, <1>15 DEF Behind

(* The message center takes a message n and keeps it somewhere, unless it  *)
(* is no text.                                                             *)
LEMMA TakenKeepsOrder ==
    ASSUME TypeOK, OrderInv, NEW n \in Messages, Take(n), dbq = <<>>,
           UNCHANGED <<stored, lost, posted, seen, connected>>,
           \/ queue' = queue
           \/ queue' = [queue EXCEPT ![GroupOf[n]] = Append(@, n)],
           Kind[n] = "text" => n \in Kept' \/ IsIn(queue'[GroupOf[n]], n),
           \A m : m \in MessagesIn(dbq)' =>
                     m = n /\ (Kind[n] = "text" => Recognised(n))
    PROVE  OrderIsKept' /\ SeenAreHandled' /\ PostedOnce'
<1>1. /\ queue \in [Groups -> Seq(Messages)]
      /\ \A m \in Messages : GroupOf[m] \in Groups
  BY MessageFacts DEF TypeOK
<1>2. ASSUME NEW m
      PROVE  m \in Kept' <=> m \in Kept \/ m \in MessagesIn(dbq)'
  <2>1. m \in Kept' <=> IsIn(stored', m) \/ m \in MessagesIn(dbq)' \/ m \in lost'
    BY DEF Kept, IsIn
  <2>2. m \notin MessagesIn(dbq)
    BY CallMembers
  <2>3. IsIn(stored', m) <=> IsIn(stored, m)
    BY DEF IsIn
  <2> QED
    BY <2>1, <2>2, <2>3, KeptMembers
<1>3. Kept \subseteq Kept'
  BY <1>2
<1>4. ASSUME NEW h \in Groups
      PROVE  \/ queue'[h] = queue[h]
             \/ h = GroupOf[n] /\ queue'[h] = Append(queue[h], n)
  BY <1>1
<1>5. ASSUME NEW h \in Groups, NEW m
      PROVE  /\ IsIn(queue[h], m) => IsIn(queue'[h], m)
             /\ IsIn(queue'[h], m) => IsIn(queue[h], m) \/ m = n
  <2>1. queue[h] \in Seq(Messages)
    BY <1>1
  <2>2. CASE queue'[h] = queue[h]
    BY <2>2
  <2>3. CASE queue'[h] = Append(queue[h], n)
    BY <2>1, <2>3, Members
  <2> QED
    BY <1>4, <2>2, <2>3
<1>6. OrderIsKept'
  <2> SUFFICES ASSUME NEW f \in Messages, NEW s \in Messages, PostedBefore(f, s)'
               PROVE  Behind(f, s)'
    BY DEF OrderIsKept
  <2>1. PostedBefore(f, s)
    BY DEF PostedBefore
  <2>2. GroupOf[f] = GroupOf[s] /\ Kind[f] = "text" /\ Kind[s] = "text"
    BY <2>1 DEF PostedBefore
  <2>3. GroupOf[s] \in Groups
    BY <1>1
  <2>4. f = n => f \in Kept' \/ IsIn(queue'[GroupOf[s]], f)
    BY <2>2
  <2>5. IsIn(queue[GroupOf[s]], f) => IsIn(queue'[GroupOf[s]], f)
    BY <1>5, <2>3
  <2>6. s \in MessagesIn(dbq)' => s = n /\ Recognised(n)
    BY <2>2
  <2>7. \/ queue'[GroupOf[s]] = queue[GroupOf[s]]
        \/ queue'[GroupOf[s]] = Append(queue[GroupOf[s]], n)
    BY <1>4, <2>3
  <2> QED
    BY <1>3, <2>1, <2>4, <2>5, <2>6, <2>7, TakenBehind
<1>7. ASSUME NEW m \in Messages, InHand(m), Kind[m] = "text"
      PROVE  m \in Kept' \/ InHand(m)'
  <2>1. IsIn(queue[GroupOf[m]], m) => IsIn(queue'[GroupOf[m]], m)
    BY <1>1, <1>5
  <2>2. IsIn(inbox, m) \/ IsIn(replay, m) => IsIn(inbox', m) \/ IsIn(replay', m) \/ m = n
    BY TakenFromHand
  <2> QED
    BY <1>7, <2>1, <2>2 DEF InHand
<1>8. SeenAreHandled'
  <2> SUFFICES ASSUME connected', NEW m \in seen', Kind[m] = "text"
               PROVE  m \in Kept' \/ InHand(m)'
    BY DEF SeenAreHandled
  <2>1. m \in Messages
    BY DEF TypeOK
  <2>2. m \in Kept \/ InHand(m)
    BY DEF OrderInv, SeenAreHandled
  <2> QED
    BY <1>3, <1>7, <2>1, <2>2
<1>9. ASSUME NEW m \in Messages, Appeared(m)'
      PROVE  Appeared(m)
  <2>1. InHand(n)
    BY TakenFromHand DEF InHand
  <2>2. InHand(m)' => InHand(m)
    <3>1. IsIn(queue'[GroupOf[m]], m) => IsIn(queue[GroupOf[m]], m) \/ m = n
      BY <1>1, <1>5
    <3>2. IsIn(inbox', m) \/ IsIn(replay', m) => IsIn(inbox, m) \/ IsIn(replay, m)
      BY TakenFromHand
    <3> QED
      BY <2>1, <3>1, <3>2 DEF InHand
  <2>3. m \in Kept' => m \in Kept \/ m = n
    BY <1>2
  <2> QED
    BY <1>9, <2>1, <2>2, <2>3 DEF Appeared
<1>10. PostedOnce'
  BY <1>9 DEF OrderInv, PostedOnce, IsIn
<1> QED
  BY <1>6, <1>8, <1>10

LEMMA CreationBehind ==
    ASSUME TypeOK, OrderInv, NEW n \in Messages, ProcessReceivedGroupCreation(n),
           NEW f \in Messages, NEW s \in Messages, PostedBefore(f, s),
           Kept \subseteq Kept'
    PROVE  Behind(f, s)'
<1> DEFINE g == GroupOf[n]
           h == GroupOf[s]
<1>1. /\ dbq = <<>> /\ dbq' = Append(dbq, CreationCall(n)) /\ replay = <<>>
      /\ inbox # <<>> /\ n = Head(inbox) /\ Kind[n] = "creation"
      /\ inbox' = Tail(inbox) /\ replay' = queue[g]
      /\ queue' = [queue EXCEPT ![g] = <<>>] /\ UNCHANGED <<stored, lost>>
  BY DEF ProcessReceivedGroupCreation, Ready, ReplayQueued, tableVars
<1>2. /\ g \in Groups /\ h \in Groups /\ inbox \in Seq(Messages)
      /\ queue \in [Groups -> Seq(Messages)]
  BY MessageFacts DEF TypeOK
<1>3. f # n /\ s # n
  BY <1>1 DEF PostedBefore
<1>4. Behind(f, s)
  BY DEF OrderInv, OrderIsKept
<1>5. InOrder(stored', f, s, f \in lost')
  BY <1>1, <1>4 DEF Behind
<1>6. s \notin MessagesIn(dbq)'
  <2>1. dbq' = <<CreationCall(n)>> /\ CreationCall(n).msg = n
    BY <1>1 DEF CreationCall
  <2> QED
    BY <1>3, <2>1, CallMembers
<1>7. ~IsIn(replay, f) /\ IsIn(replay, f) \in BOOLEAN
  BY <1>1 DEF IsIn
<1>8. InOrder(inbox, f, s, f \in Kept \/ IsIn(queue[h], f))
  BY <1>4, <1>7 DEF Behind, InOrder
<1>9. InOrder(queue[h], f, s, f \in Kept)
  BY <1>4 DEF Behind
<1> DEFINE kept == f \in Kept
           kept2 == f \in Kept'
           line == queue[h]
           old == kept \/ IsIn(line, f)
<1>10. kept => kept2
  OBVIOUS
<1>11. CASE h = g
  <2>1. queue'[h] = <<>> /\ replay' = line
    BY <1>1, <1>2, <1>11
  <2> DEFINE new == \/ f \in Kept'
                    \/ IsIn(queue'[GroupOf[s]], f)
                    \/ IsIn(replay', f)
             more == f \in Kept' \/ IsIn(queue'[GroupOf[s]], f)
  <2>2. InOrder(inbox, f, s, old) /\ InOrder(line, f, s, kept)
    BY <1>8, <1>9
  <2>3. /\ old => new
        /\ kept => more
        /\ Head(inbox) # f
    BY <1>1, <1>3, <1>10, <2>1
  <2> HIDE DEF kept, kept2, old, line, new, more
  <2>4. InOrder(inbox', f, s, new)
    BY <1>1, <1>2, <2>2, <2>3, OrderOfTail
  <2>5. InOrder(replay', f, s, more)
    BY <2>1, <2>2, <2>3, OrderOfSame
  <2>6. InOrder(queue'[h], f, s, f \in Kept')
    BY <2>1, OrderOfNothing
  <2> USE DEF new, more
  <2> QED
    BY <1>5, <1>6, <2>4, <2>5, <2>6 DEF Behind
<1>12. CASE h # g
  <2>1. queue'[h] = line
    BY <1>1, <1>2, <1>12
  <2>2. ~IsIn(replay', s)
    <3>1. \A i \in DOMAIN queue[g] : queue[g][i] \in Held(g)
      BY <1>2 DEF TypeOK
    <3> QED
      BY <1>1, <1>12, <3>1 DEF IsIn, Held
  <2> DEFINE new == \/ f \in Kept'
                    \/ IsIn(queue'[GroupOf[s]], f)
                    \/ IsIn(replay', f)
             more == f \in Kept' \/ IsIn(queue'[GroupOf[s]], f)
  <2>3. InOrder(inbox, f, s, old) /\ InOrder(line, f, s, kept)
    BY <1>8, <1>9
  <2>4. /\ old => new
        /\ Head(inbox) # f
    BY <1>1, <1>3, <1>10, <2>1
  <2> HIDE DEF kept, kept2, old, line, new, more
  <2>5. InOrder(inbox', f, s, new)
    BY <1>1, <1>2, <2>3, <2>4, OrderOfTail
  <2>6. InOrder(replay', f, s, more)
    BY <2>2, OrderOfOthers
  <2>7. InOrder(queue'[h], f, s, kept2)
    BY <1>10, <2>1, <2>3, OrderOfSame
  <2> USE DEF new, more, kept2
  <2> QED
    BY <1>5, <1>6, <2>5, <2>6, <2>7 DEF Behind
<1> QED
  BY <1>11, <1>12

LEMMA CreationKeepsOrder ==
    ASSUME TypeOK, OrderInv, NEW n \in Messages, ProcessReceivedGroupCreation(n)
    PROVE  OrderInv'
<1> DEFINE g == GroupOf[n]
<1>1. /\ dbq = <<>> /\ dbq' = <<CreationCall(n)>> /\ replay = <<>>
      /\ inbox # <<>> /\ n = Head(inbox) /\ Kind[n] = "creation"
      /\ inbox' = Tail(inbox) /\ replay' = queue[g]
      /\ queue' = [queue EXCEPT ![g] = <<>>]
      /\ UNCHANGED <<stored, lost, status, members, posted, seen, connected>>
  BY DEF ProcessReceivedGroupCreation, Ready, ReplayQueued, tableVars, serverVars
<1>2. /\ g \in Groups /\ inbox \in Seq(Messages)
      /\ queue \in [Groups -> Seq(Messages)] /\ seen \subseteq Messages
      /\ \A m \in Messages : GroupOf[m] \in Groups
  BY MessageFacts DEF TypeOK
<1>3. /\ queue'[g] = <<>>
      /\ \A h \in Groups : h # g => queue'[h] = queue[h]
  BY <1>1, <1>2
<1>4. /\ CreationCall(n).msg = n /\ CreationCall(n).op = "creation"
      /\ DOMAIN <<CreationCall(n)>> = {1} /\ <<CreationCall(n)>>[1] = CreationCall(n)
  BY DEF CreationCall
<1>5. ASSUME NEW m
      PROVE  m \in Kept' <=> m \in Kept \/ m = n
  <2>1. m \in Kept' <=> IsIn(stored', m) \/ m \in MessagesIn(dbq)' \/ m \in lost'
    BY DEF Kept, IsIn
  <2>2. m \notin MessagesIn(dbq) /\ (m \in MessagesIn(dbq)' <=> m = n)
    BY <1>1, <1>4, CallMembers
  <2>3. IsIn(stored', m) <=> IsIn(stored, m)
    BY <1>1 DEF IsIn
  <2> QED
    BY <1>1, <2>1, <2>2, <2>3, KeptMembers
<1>6. ASSUME NEW m
      PROVE  IsIn(inbox, m) <=> IsIn(inbox', m) \/ m = n
  BY <1>1, <1>2, Members
<1>7. ASSUME NEW h \in Groups, NEW m
      PROVE  /\ IsIn(queue'[h], m) => h # g /\ IsIn(queue[h], m)
             /\ IsIn(queue[h], m) => IsIn(queue'[h], m) \/ IsIn(replay', m)
             /\ h = g => (IsIn(replay', m) <=> IsIn(queue[h], m))
  <2>1. ~IsIn(<<>>, m)
    BY DEF IsIn
  <2>2. CASE h = g
    BY <1>1, <1>3, <2>1, <2>2
  <2>3. CASE h # g
    BY <1>3, <2>3
  <2> QED
    BY <2>2, <2>3
<1>8. OrderIsKept'
  <2> SUFFICES ASSUME NEW f \in Messages, NEW s \in Messages, PostedBefore(f, s)'
               PROVE  Behind(f, s)'
    BY DEF OrderIsKept
  <2>1. PostedBefore(f, s)
    BY <1>1 DEF PostedBefore
  <2> QED
    BY <1>5, <2>1, CreationBehind
<1>9. QueuedAreStrangers'
  <2> SUFFICES ASSUME NEW m \in Messages, Kind[m] = "text",
                      IsIn(queue'[GroupOf[m]], m)
               PROVE  /\ ~Recognised(m)'
                      /\ \A k \in DOMAIN dbq' :
                            dbq'[k].op \in {"creation", "newGroup"}
                                => GroupOf[dbq'[k].msg] # GroupOf[m]
    BY DEF QueuedAreStrangers
  <2>1. GroupOf[m] # g /\ IsIn(queue[GroupOf[m]], m)
    BY <1>2, <1>7
  <2>2. ~Recognised(m)'
    BY <1>1, <2>1 DEF OrderInv, QueuedAreStrangers, Recognised, HasGroup
  <2> QED
    BY <1>1, <1>4, <2>1, <2>2
<1>10. SeenAreHandled'
  <2> SUFFICES ASSUME connected', NEW m \in seen', Kind[m] = "text"
               PROVE  m \in Kept' \/ InHand(m)'
    BY DEF SeenAreHandled
  <2>1. m \in Messages /\ m # n
    BY <1>1, <1>2
  <2>2. m \in Kept \/ InHand(m)
    BY <1>1 DEF OrderInv, SeenAreHandled
  <2>3. CASE m \in Kept
    BY <1>5, <2>3
  <2>4. CASE IsIn(inbox, m)
    BY <1>6, <2>1, <2>4 DEF InHand
  <2>5. CASE IsIn(queue[GroupOf[m]], m)
    BY <1>2, <1>7, <2>1, <2>5 DEF InHand
  <2>6. ~IsIn(replay, m)
    BY <1>1 DEF IsIn
  <2> QED
    BY <2>2, <2>3, <2>4, <2>5, <2>6 DEF InHand
<1>11. ASSUME NEW m \in Messages, Appeared(m)'
       PROVE  Appeared(m)
  <2>1. IsIn(replay', m) => GroupOf[m] = g
    <3>1. \A i \in DOMAIN queue[g] : queue[g][i] \in Held(g)
      BY <1>2 DEF TypeOK
    <3> QED
      BY <1>1, <3>1 DEF IsIn, Held
  <2>2. IsIn(replay', m) => IsIn(queue[GroupOf[m]], m)
    BY <1>2, <1>7, <2>1
  <2>3. IsIn(queue'[GroupOf[m]], m) => IsIn(queue[GroupOf[m]], m)
    BY <1>2, <1>7
  <2>4. IsIn(inbox', m) \/ m = n => IsIn(inbox, m)
    BY <1>6
  <2>5. m \in Kept' => m \in Kept \/ m = n
    BY <1>5
  <2> QED
    BY <1>1, <1>11, <2>2, <2>3, <2>4, <2>5 DEF Appeared, InHand
<1>12. PostedOnce'
  BY <1>1, <1>11 DEF OrderInv, PostedOnce, IsIn
<1> QED
  BY <1>8, <1>9, <1>10, <1>12 DEF OrderInv

LEMMA CenterStepKeepsOrder ==
    ASSUME TypeOK, OrderInv, Orderly, CenterStep
    PROVE  OrderInv'
<1>1. PICK n \in Messages :
        \/ IgnoreMessage(n)
        \/ AcceptMessage(n)
        \/ TrustSender(n)
        \/ QueueMessage(n)
        \/ ProcessReceivedGroupCreation(n)
  BY DEF CenterStep
<1>2. CASE IgnoreMessage(n)
  <2>1. /\ Take(n) /\ dbq = <<>> /\ Kind[n] # "text"
        /\ UNCHANGED <<stored, lost, posted, seen, connected, queue, dbq,
                       status, members>>
    BY <1>2 DEF IgnoreMessage, Ready, Refused, tableVars, serverVars
  <2>2. \A m : m \notin MessagesIn(dbq)'
    BY <2>1, CallMembers
  <2>3. OrderIsKept' /\ SeenAreHandled' /\ PostedOnce'
    BY <2>1, <2>2, TakenKeepsOrder
  <2>4. QueuedAreStrangers'
    BY <2>1 DEF OrderInv, QueuedAreStrangers, Recognised, HasGroup, IsIn
  <2> QED
    BY <2>3, <2>4 DEF OrderInv
<1>3. CASE AcceptMessage(n)
  <2>1. /\ Take(n) /\ dbq = <<>> /\ Kind[n] # "creation" /\ Recognised(n)
        /\ dbq' = <<SaveCall(n)>>
        /\ UNCHANGED <<stored, lost, posted, seen, connected, queue,
                       status, members>>
    BY <1>3 DEF AcceptMessage, Ready, tableVars, serverVars
  <2>2. /\ SaveCall(n).msg = n /\ SaveCall(n).op = Kind[n]
        /\ DOMAIN <<SaveCall(n)>> = {1} /\ <<SaveCall(n)>>[1] = SaveCall(n)
        /\ Kind[n] # "newGroup"
    BY MessageFacts DEF SaveCall, Kinds
  <2>3. \A m : m \in MessagesIn(dbq)' <=> m = n
    BY <2>1, <2>2, CallMembers
  <2>4. n \in Kept'
    BY <2>3 DEF Kept
  <2>5. OrderIsKept' /\ SeenAreHandled' /\ PostedOnce'
    BY <2>1, <2>3, <2>4, TakenKeepsOrder
  <2>6. QueuedAreStrangers'
    BY <2>1, <2>2 DEF OrderInv, QueuedAreStrangers, Recognised, HasGroup, IsIn
  <2> QED
    BY <2>5, <2>6 DEF OrderInv
<1>4. ~TrustSender(n)
  BY DEF TrustSender, MayTrust, Orderly
<1>5. CASE QueueMessage(n)
  <2>1. /\ Take(n) /\ dbq = <<>> /\ ~Recognised(n)
        /\ queue' = [queue EXCEPT ![GroupOf[n]] = Append(@, n)]
        /\ UNCHANGED <<stored, lost, posted, seen, connected, dbq,
                       status, members>>
    BY <1>5 DEF QueueMessage, Unrecognised, StoreGroupMessage, Ready, tableVars,
                serverVars
  <2>2. \A m : m \notin MessagesIn(dbq)'
    BY <2>1, CallMembers
  <2>3. /\ queue \in [Groups -> Seq(Messages)]
        /\ \A m \in Messages : GroupOf[m] \in Groups
    BY MessageFacts DEF TypeOK
  <2>4. ASSUME NEW m \in Messages
        PROVE  IsIn(queue'[GroupOf[m]], m) <=> IsIn(queue[GroupOf[m]], m) \/ m = n
    <3>1. queue[GroupOf[m]] \in Seq(Messages)
      BY <2>3
    <3>2. IsIn(Append(queue[GroupOf[m]], n), m) <=> IsIn(queue[GroupOf[m]], m) \/ m = n
      BY <3>1, Members
    <3>3. CASE GroupOf[m] = GroupOf[n]
      BY <2>1, <2>3, <3>2, <3>3
    <3>4. CASE GroupOf[m] # GroupOf[n]
      BY <2>1, <2>3, <3>4
    <3> QED
      BY <3>3, <3>4
  <2>5. OrderIsKept' /\ SeenAreHandled' /\ PostedOnce'
    BY <2>1, <2>2, <2>4, TakenKeepsOrder
  <2>6. QueuedAreStrangers'
    <3> SUFFICES ASSUME NEW m \in Messages, Kind[m] = "text",
                        IsIn(queue'[GroupOf[m]], m)
                 PROVE  /\ ~Recognised(m)'
                        /\ \A k \in DOMAIN dbq' :
                              dbq'[k].op \in {"creation", "newGroup"}
                                  => GroupOf[dbq'[k].msg] # GroupOf[m]
      BY DEF QueuedAreStrangers
    <3>1. ~Recognised(m)
      BY <2>1, <2>4 DEF OrderInv, QueuedAreStrangers
    <3>2. DOMAIN dbq' = {}
      BY <2>1
    <3> QED
      BY <2>1, <3>1, <3>2 DEF Recognised, HasGroup
  <2> QED
    BY <2>5, <2>6 DEF OrderInv
<1>6. CASE ProcessReceivedGroupCreation(n)
  BY <1>6, CreationKeepsOrder
<1> QED
  BY <1>1, <1>2, <1>3, <1>4, <1>5, <1>6

-----------------------------------------------------------------------------
(* The server and the process keep the order.                              *)

LEMMA PostKeepsOrder ==
    ASSUME TypeOK, OrderInv, NEW n \in Messages, Post(n)
    PROVE  OrderInv'
<1>1. /\ ~IsIn(posted, n) /\ posted' = Append(posted, n) /\ posted \in Seq(Messages)
      /\ UNCHANGED <<stored, lost, dbq, inbox, queue, replay, status, members,
                     connected, seen>>
  BY DEF Post, IsIn, TypeOK, tableVars, memoryVars
<1>2. /\ DOMAIN posted = 1..Len(posted) /\ Len(posted) \in Nat
      /\ DOMAIN posted' = 1..Len(posted) + 1 /\ posted'[Len(posted) + 1] = n
      /\ \A i \in DOMAIN posted : posted'[i] = posted[i]
  BY <1>1, AppendProperties, LenProperties
<1>3. Kept' = Kept
  BY <1>1 DEF Kept, MessagesIn
<1>4. \A m : InHand(m)' = InHand(m) /\ Appeared(m)' = Appeared(m)
  BY <1>1, <1>3 DEF InHand, IsIn, Appeared
<1>5. ~Appeared(n)
  BY <1>1 DEF OrderInv, PostedOnce
<1>6. OrderIsKept'
  <2> SUFFICES ASSUME NEW f \in Messages, NEW s \in Messages, PostedBefore(f, s)'
               PROVE  Behind(f, s)'
    BY DEF OrderIsKept
  <2>1. CASE s = n
    <3>1. /\ ~IsIn(stored, s) /\ s \notin MessagesIn(dbq) /\ ~IsIn(inbox, s)
          /\ ~IsIn(queue[GroupOf[s]], s) /\ ~IsIn(replay, s)
      BY <1>5, <2>1, KeptMembers DEF Appeared, InHand
    <3>2. /\ ~IsIn(stored', s) /\ s \notin MessagesIn(dbq)' /\ ~IsIn(inbox', s)
          /\ ~IsIn(queue'[GroupOf[s]], s) /\ ~IsIn(replay', s)
      BY <1>1, <3>1 DEF MessagesIn
    <3> QED
      BY <3>2 DEF Behind, InOrder, IsIn
  <2>2. CASE s # n
    <3>1. PICK i \in DOMAIN posted', j \in DOMAIN posted' :
            i < j /\ posted'[i] = f /\ posted'[j] = s
      BY DEF PostedBefore
    <3>2. i \in DOMAIN posted /\ j \in DOMAIN posted
      BY <1>2, <2>2, <3>1
    <3>3. PostedBefore(f, s)
      BY <1>2, <3>1, <3>2 DEF PostedBefore
    <3>4. Behind(f, s)
      BY <3>3 DEF OrderInv, OrderIsKept
    <3> QED
      BY <1>1, <1>3, <3>4 DEF Behind, MessagesIn, IsIn
  <2> QED
    BY <2>1, <2>2
<1>7. QueuedAreStrangers'
  BY <1>1 DEF OrderInv, QueuedAreStrangers, IsIn, Recognised, HasGroup
<1>8. SeenAreHandled'
  BY <1>1, <1>3, <1>4 DEF OrderInv, SeenAreHandled
<1>9. PostedOnce'
  <2>1. \A i, j \in DOMAIN posted' : posted'[i] = posted'[j] => i = j
    BY <1>1, <1>2 DEF OrderInv, PostedOnce, IsIn
  <2>2. \A m \in Messages : Appeared(m)' => IsIn(posted', m)
    BY <1>2, <1>4 DEF OrderInv, PostedOnce, IsIn
  <2> QED
    BY <2>1, <2>2 DEF PostedOnce
<1> QED
  BY <1>6, <1>7, <1>8, <1>9 DEF OrderInv

LEMMA DeliverKeepsOrder ==
    ASSUME TypeOK, OrderInv, Orderly, NoMessageVanishes, NEW n \in Messages, Deliver(n)
    PROVE  OrderInv'
<1>1. /\ connected /\ n \in unacked \ seen /\ inbox \in Seq(Messages)
      /\ inbox' = Append(inbox, n) /\ seen' = seen \cup {n}
      /\ UNCHANGED <<stored, lost, dbq, queue, replay, posted, status, members,
                     connected>>
  BY DEF Deliver, tableVars, TypeOK
<1>2. PICK p \in DOMAIN posted :
        /\ posted[p] = n
        /\ \A j \in 1..(p - 1) : posted[j] \in unacked \ seen => posted[j] \in Delayed
  BY DEF Deliver
<1>3. DOMAIN posted = 1..Len(posted) /\ Len(posted) \in Nat
  BY LenProperties DEF TypeOK
<1>4. Kept' = Kept
  BY <1>1 DEF Kept, MessagesIn
<1>5. \A m : IsIn(inbox', m) <=> IsIn(inbox, m) \/ m = n
  BY <1>1, Members
<1>6. \A m : InHand(m)' <=> InHand(m) \/ m = n
  <2>1. \A m : /\ IsIn(replay', m) <=> IsIn(replay, m)
               /\ IsIn(queue'[GroupOf[m]], m) <=> IsIn(queue[GroupOf[m]], m)
    BY <1>1
  <2> QED
    BY <1>5, <2>1 DEF InHand
<1>7. OrderIsKept'
  <2> SUFFICES ASSUME NEW f \in Messages, NEW s \in Messages, PostedBefore(f, s)'
               PROVE  Behind(f, s)'
    BY DEF OrderIsKept
  <2>1. PostedBefore(f, s)
    BY <1>1 DEF PostedBefore
  <2>2. Behind(f, s)
    BY <2>1 DEF OrderInv, OrderIsKept
  <2> DEFINE late == f \in Kept \/ IsIn(queue[GroupOf[s]], f) \/ IsIn(replay, f)
  <2>3. n = s => late \/ IsIn(inbox, f)
    <3> SUFFICES ASSUME n = s
                 PROVE  f \in Kept \/ InHand(f)
      BY <2>1 DEF InHand, PostedBefore
    <3>1. PICK i \in DOMAIN posted, j \in DOMAIN posted :
            i < j /\ posted[i] = f /\ posted[j] = s
      BY <2>1 DEF PostedBefore
    <3>2. j = p
      BY <1>2, <3>1 DEF OrderInv, PostedOnce
    <3>3. i \in 1..(p - 1)
      BY <1>3, <3>1, <3>2
    <3>4. Kind[f] = "text"
      BY <2>1 DEF PostedBefore
    <3>5. f \notin Delayed
      BY <3>4 DEF Orderly
    <3>6. f \notin unacked \/ f \in seen
      BY <1>2, <3>1, <3>3, <3>5
    <3>7. f \notin unacked => f \in Kept
      BY <3>1 DEF NoMessageVanishes
    <3>8. f \in seen => f \in Kept \/ InHand(f)
      BY <1>1, <3>4 DEF OrderInv, SeenAreHandled
    <3> QED
      BY <3>6, <3>7, <3>8
  <2>4. InOrder(inbox, f, s, late)
    BY <2>2 DEF Behind, InOrder
  <2> HIDE DEF late
  <2>5. InOrder(inbox', f, s, late)
    BY <1>1, <2>3, <2>4, OrderOfAppend
  <2> USE DEF late
  <2>6. InOrder(inbox', f, s, \/ f \in Kept'
                              \/ IsIn(queue'[GroupOf[s]], f)
                              \/ IsIn(replay', f))
    BY <1>1, <1>4, <2>5 DEF InOrder
  <2>7. /\ InOrder(stored', f, s, f \in lost')
        /\ s \in MessagesIn(dbq)' => f \in lost' \/ IsIn(stored', f)
        /\ InOrder(queue'[GroupOf[s]], f, s, f \in Kept')
        /\ InOrder(replay', f, s, f \in Kept' \/ IsIn(queue'[GroupOf[s]], f))
    BY <1>1, <1>4, <2>2 DEF Behind, MessagesIn
  <2> QED
    BY <2>6, <2>7 DEF Behind
<1>8. QueuedAreStrangers'
  BY <1>1 DEF OrderInv, QueuedAreStrangers, IsIn, Recognised, HasGroup
<1>9. SeenAreHandled'
  BY <1>1, <1>4, <1>6 DEF OrderInv, SeenAreHandled
<1>10. PostedOnce'
  <2>1. IsIn(posted, n)
    BY <1>2 DEF IsIn
  <2>2. \A m \in Messages : Appeared(m)' => Appeared(m) \/ m = n
    BY <1>1, <1>4, <1>6 DEF Appeared
  <2> QED
    BY <1>1, <2>1, <2>2 DEF OrderInv, PostedOnce, IsIn
<1> QED
  BY <1>7, <1>8, <1>9, <1>10 DEF OrderInv

LEMMA LosingStateKeepsOrder ==
    ASSUME TypeOK, CallsAreSound, OrderInv, Crash \/ Exit
    PROVE  OrderInv'
<1>1. /\ inbox' = <<>> /\ queue' = [g \in Groups |-> <<>>] /\ replay' = <<>>
      /\ dbq' = <<>> /\ connected' = FALSE /\ lost' = lost \cup MessagesIn(dbq)
      /\ UNCHANGED <<posted, seen>> /\ stored \in Seq(Messages)
  BY DEF Crash, Exit, LoseVolatileState, TypeOK
<1>2. \/ stored' = stored
      \/ \E x \in Messages : /\ stored' = Append(stored, x)
                             /\ Kind[x] # "text" /\ x \in MessagesIn(dbq)
  <2>1. CASE /\ Crash /\ dbq # <<>> /\ InsertRow(Head(dbq))
             /\ Head(dbq).op \in {"leave", "title", "creation"}
    <3> DEFINE x == Head(dbq).msg
    <3>1. 1 \in DOMAIN dbq /\ Head(dbq) = dbq[1] /\ Head(dbq) \in Call
      BY <2>1, HeadTailProperties, LenProperties, EmptySeq DEF TypeOK
    <3>2. Head(dbq).op # "newGroup" /\ x \in Messages /\ x \in MessagesIn(dbq)
      BY <2>1, <3>1 DEF MessagesIn, Call
    <3>3. \/ Kind[x] # "creation" /\ Head(dbq) = SaveCall(x)
          \/ Kind[x] = "creation"
      BY <2>1, <3>2, FirstCall
    <3>4. Kind[x] # "text"
      BY <2>1, <3>3 DEF SaveCall
    <3> QED
      BY <2>1, <3>2, <3>4 DEF InsertRow
  <2> QED
    BY <2>1 DEF Crash, Exit, tableVars
<1>3. ASSUME NEW m
      PROVE  /\ IsIn(stored', m) => IsIn(stored, m) \/ m \in MessagesIn(dbq)
             /\ m \in Kept' => m \in Kept
  <2>1. IsIn(stored', m) => IsIn(stored, m) \/ m \in MessagesIn(dbq)
    <3>1. CASE stored' = stored
      BY <3>1
    <3>2. CASE \E x \in Messages : stored' = Append(stored, x) /\ x \in MessagesIn(dbq)
      BY <1>1, <3>2, Members
    <3> QED
      BY <1>2, <3>1, <3>2
  <2>2. m \in Kept' <=> IsIn(stored', m) \/ m \in MessagesIn(dbq)' \/ m \in lost'
    BY DEF Kept, IsIn
  <2>3. m \notin MessagesIn(dbq)'
    BY <1>1, CallMembers
  <2> QED
    BY <1>1, <2>1, <2>2, <2>3, KeptMembers
<1>4. ASSUME NEW m \in Messages
      PROVE  ~InHand(m)' /\ queue'[GroupOf[m]] = <<>>
  BY <1>1, MessageFacts DEF InHand, IsIn
<1>5. OrderIsKept'
  <2> SUFFICES ASSUME NEW f \in Messages, NEW s \in Messages, PostedBefore(f, s)'
               PROVE  Behind(f, s)'
    BY DEF OrderIsKept
  <2>1. PostedBefore(f, s) /\ Kind[s] = "text"
    BY <1>1 DEF PostedBefore
  <2>2. InOrder(stored, f, s, f \in lost)
    BY <2>1 DEF OrderInv, OrderIsKept, Behind
  <2> DEFINE late == f \in lost'
  <2>3. InOrder(stored, f, s, late)
    BY <1>1, <2>2 DEF InOrder
  <2> HIDE DEF late
  <2>4. InOrder(stored', f, s, late)
    <3>1. CASE stored' = stored
      BY <2>3, <3>1
    <3>2. ASSUME NEW x \in Messages, stored' = Append(stored, x), Kind[x] # "text"
          PROVE  InOrder(stored', f, s, late)
      <4>1. x # s
        BY <2>1, <3>2
      <4>2. InOrder(Append(stored, x), f, s, late)
        BY <1>1, <2>3, <4>1, OrderOfAppend
      <4> QED
        BY <3>2, <4>2
    <3> QED
      BY <1>2, <3>1, <3>2
  <2>5. InOrder(stored', f, s, f \in lost')
    BY <2>4 DEF late
  <2>6. s \notin MessagesIn(dbq)'
    BY <1>1, CallMembers
  <2>7. /\ InOrder(queue'[GroupOf[s]], f, s, f \in Kept')
        /\ InOrder(replay', f, s, f \in Kept' \/ IsIn(queue'[GroupOf[s]], f))
        /\ InOrder(inbox', f, s, \/ f \in Kept'
                                 \/ IsIn(queue'[GroupOf[s]], f)
                                 \/ IsIn(replay', f))
    BY <1>1, <1>4 DEF InOrder
  <2> QED
    BY <2>5, <2>6, <2>7 DEF Behind
<1>6. QueuedAreStrangers'
  BY <1>4 DEF QueuedAreStrangers, IsIn
<1>7. SeenAreHandled'
  BY <1>1 DEF SeenAreHandled
<1>8. PostedOnce'
  <2>1. \A m \in Messages : Appeared(m)' => Appeared(m)
    BY <1>1, <1>3, <1>4 DEF Appeared
  <2> QED
    BY <1>1, <2>1 DEF OrderInv, PostedOnce, IsIn
<1> QED
  BY <1>5, <1>6, <1>7, <1>8 DEF OrderInv

-----------------------------------------------------------------------------
(* Every step keeps the order.                                             *)

LEMMA StepKeepsOrder ==
    TypeOK /\ CallsAreSound /\ NoMessageVanishes /\ OrderInv /\ Orderly /\ [Next]_vars
        => OrderInv'
<1> SUFFICES ASSUME TypeOK, CallsAreSound, NoMessageVanishes, OrderInv, Orderly,
                    [Next]_vars
             PROVE  OrderInv'
  OBVIOUS
<1>1. CASE ExecuteStore
  BY <1>1, ExecuteStoreKeepsOrder
<1>2. CASE CenterStep
  BY <1>2, CenterStepKeepsOrder
<1>3. CASE \E m \in Messages : Post(m) \/ Deliver(m)
  BY <1>3, PostKeepsOrder, DeliverKeepsOrder
<1>4. CASE Crash \/ Exit
  BY <1>4, LosingStateKeepsOrder
<1>5. CASE \E g \in Groups : SendSyncRequest(g) \/ FiveMinutesPass(g)
  <2>1. UNCHANGED <<stored, lost, dbq, inbox, queue, replay, posted, status,
                    members, connected, seen>>
    BY <1>5 DEF SendSyncRequest, FiveMinutesPass, tableVars, memoryVars, serverVars
  <2> QED
    BY <2>1, QuietStepKeepsOrder
<1>6. CASE \E m \in Messages : AckArrives(m)
  <2>1. UNCHANGED <<stored, lost, dbq, inbox, queue, replay, posted, status,
                    members, connected, seen>>
    BY <1>6 DEF AckArrives, tableVars, memoryVars
  <2> QED
    BY <2>1, QuietStepKeepsOrder
<1>7. CASE SocketDisconnected \/ Reconnect \/ Restart \/ UNCHANGED vars
  <2>1. /\ UNCHANGED <<stored, lost, dbq, inbox, queue, replay, posted, status,
                       members>>
        /\ connected' => connected \/ seen' = {}
        /\ seen' = seen \/ seen' = {}
    BY <1>7 DEF SocketDisconnected, Reconnect, Restart, vars, tableVars,
                memoryVars, serverVars
  <2> QED
    BY <2>1, QuietStepKeepsOrder
<1> QED
  BY <1>1, <1>2, <1>3, <1>4, <1>5, <1>6, <1>7 DEF Next

LEMMA InitIsInOrder == Init => OrderInv
<1> SUFFICES ASSUME Init
             PROVE  OrderInv
  OBVIOUS
<1>1. /\ DOMAIN stored = {} /\ DOMAIN posted = {} /\ DOMAIN inbox = {}
      /\ DOMAIN replay = {} /\ dbq = <<>> /\ ~connected /\ lost = {} /\ seen = {}
      /\ \A m \in Messages : DOMAIN queue[GroupOf[m]] = {}
  BY MessageFacts DEF Init
<1>2. \A m : m \notin Kept
  BY <1>1, KeptMembers, CallMembers DEF IsIn
<1>3. OrderIsKept
  BY <1>1 DEF OrderIsKept, PostedBefore
<1>4. QueuedAreStrangers /\ SeenAreHandled
  BY <1>1 DEF QueuedAreStrangers, SeenAreHandled, IsIn
<1>5. PostedOnce
  BY <1>1, <1>2 DEF PostedOnce, Appeared, InHand, IsIn
<1> QED
  BY <1>3, <1>4, <1>5 DEF OrderInv

(* The first place of a message in a list. *)
LEMMA FirstPlaceFacts ==
    ASSUME NEW S, NEW q \in Seq(S), NEW m, IsIn(q, m)
    PROVE  /\ FirstPlace(q, m) \in DOMAIN q
           /\ q[FirstPlace(q, m)] = m
           /\ \A j \in DOMAIN q : q[j] = m => FirstPlace(q, m) <= j
<1> DEFINE T == {i \in DOMAIN q : q[i] = m}
           First(i) == q[i] = m /\ \A j \in DOMAIN q : q[j] = m => i <= j
<1>1. DOMAIN q = 1..Len(q) /\ Len(q) \in Nat
  BY LenProperties
<1>2. T # {} /\ T \subseteq Nat
  BY <1>1 DEF IsIn
<1>3. PICK i \in T : \A j \in T : i <= j
  BY <1>2, LeastElement
<1>4. i \in DOMAIN q /\ First(i)
  BY <1>3
<1>5. FirstPlace(q, m) = CHOOSE k \in DOMAIN q : First(k)
  BY DEF FirstPlace
<1> HIDE DEF First
<1>6. FirstPlace(q, m) \in DOMAIN q /\ First(FirstPlace(q, m))
  BY <1>4, <1>5
<1> QED
  BY <1>6 DEF First

LEMMA OrderMeansInOrder ==
    ASSUME TypeOK, OrderIsKept
    PROVE  TextsKeepTheirOrder
<1> SUFFICES ASSUME NEW i \in DOMAIN posted, NEW j \in (i + 1)..Len(posted),
                    Kind[posted[i]] = "text", Kind[posted[j]] = "text",
                    Sender[posted[i]] = Sender[posted[j]],
                    GroupOf[posted[i]] = GroupOf[posted[j]],
                    IsIn(stored, posted[j]), posted[i] \notin lost
             PROVE  /\ IsIn(stored, posted[i])
                    /\ FirstPlace(stored, posted[i]) < FirstPlace(stored, posted[j])
  BY DEF TextsKeepTheirOrder
<1> DEFINE f == posted[i]
           s == posted[j]
<1>1. /\ DOMAIN posted = 1..Len(posted) /\ Len(posted) \in Nat
      /\ posted \in Seq(Messages) /\ stored \in Seq(Messages)
      /\ DOMAIN stored = 1..Len(stored) /\ Len(stored) \in Nat
  BY LenProperties DEF TypeOK
<1>2. j \in DOMAIN posted /\ i < j /\ f \in Messages /\ s \in Messages
  BY <1>1, ElementOfSeq
<1>3. PostedBefore(f, s)
  BY <1>2 DEF PostedBefore
<1>4. InOrder(stored, f, s, f \in lost)
  BY <1>2, <1>3 DEF OrderIsKept, Behind
<1>5. /\ FirstPlace(stored, s) \in DOMAIN stored
      /\ stored[FirstPlace(stored, s)] = s
  BY <1>1, FirstPlaceFacts
<1>6. PICK k \in DOMAIN stored : k < FirstPlace(stored, s) /\ stored[k] = f
  BY <1>4, <1>5 DEF InOrder
<1>7. IsIn(stored, f)
  BY <1>6 DEF IsIn
<1>8. FirstPlace(stored, f) \in DOMAIN stored /\ FirstPlace(stored, f) <= k
  BY <1>1, <1>6, <1>7, FirstPlaceFacts
<1>9. FirstPlace(stored, f) < FirstPlace(stored, s)
  BY <1>1, <1>5, <1>6, <1>8
<1> QED
  BY <1>7, <1>9

(* The rows are what the deliveries make them, also for messages that      *)
(* waited in the queue, were delivered anew or outlived a crash at the     *)
(* server, as long as TRUST_OTHERS is off and the protocol client hands    *)
(* texts on at once (SimpleMessageCenter, MessageQueue).                   *)
THEOREM RowsAlwaysFollowDeliveries ==
    ASSUME Orderly
    PROVE  Spec => []RowsFollowDeliveries
<1>1. Init => OrderInv
  BY InitIsInOrder
<1>2. TypeOK /\ CallsAreSound /\ NoMessageVanishes /\ OrderInv /\ [Next]_vars
        => OrderInv'
  BY StepKeepsOrder
<1>3. TypeOK /\ OrderInv => TextsKeepTheirOrder
  BY OrderMeansInOrder DEF OrderInv
<1>4. OneRowPerDelivery /\ TextsKeepTheirOrder => RowsFollowDeliveries
  BY DEF RowsFollowDeliveries
<1> QED
  BY <1>1, <1>2, <1>3, <1>4, CallsStaySound, NoMessageEverVanishes,
     OneRowPerDeliveryAtMost, PTL DEF Spec
=============================================================================
