------------------------------ MODULE MCOutbox ------------------------------
(***************************************************************************)
(* Outbox with bounds for TLC.  Every step that the outside world or a     *)
(* timer may take without limit spends from a budget; the other steps only *)
(* work off what those have caused.                                        *)
(***************************************************************************)
EXTENDS Outbox

CONSTANTS
    MaxTimers,     \* firings of the queue timer that reset a row
    MaxTimeouts,   \* acknowledgments and uploads that time out or fail
    MaxLosses,     \* broken connections
    MaxCrashes,    \* times the process dies
    MaxDeletes,    \* messages the user deletes
    MaxReceipts,   \* delivery receipts of the peers
    MaxWork        \* work under way when the timer may fire again (LiveSpec)

ASSUME BudgetAssumption ==
    /\ MaxTimers \in Nat /\ MaxTimeouts \in Nat /\ MaxLosses \in Nat /\ MaxCrashes \in Nat
    /\ MaxDeletes \in Nat /\ MaxReceipts \in Nat /\ MaxWork \in Nat

(* The messages the runs choose from: a text, an image and a video to      *)
(* Anna, a text and an image to a group with all contacts, and a receipt   *)
(* for Anna.                                                               *)
Kind == [text |-> "contact", image |-> "contact", video |-> "contact",
         group |-> "group", groupImage |-> "group", receipt |-> "control"]

MCTable == [m \in Msgs |-> Kind[m]]

MCRecipients ==
    [m \in Msgs |-> IF Kind[m] = "group" THEN Contacts ELSE {"anna"}]

MCUploads == Msgs \cap {"image", "video", "groupImage"}

VARIABLE budget

mcVars == <<vars, budget>>

Bounds == [timer |-> MaxTimers, timeout |-> MaxTimeouts, loss |-> MaxLosses,
           crash |-> MaxCrashes, delete |-> MaxDeletes, receipt |-> MaxReceipts]

Spend(fault) ==
    /\ budget[fault] > 0
    /\ budget' = [budget EXCEPT ![fault] = @ - 1]

MCInit == Init /\ budget = Bounds

WorkOff ==
    \/ CenterStep
    \/ DatabaseStep
    \/ ClientStep
    \/ \E m \in Msgs : CallbackTaskSucceeded(m) \/ SendMessage(m)
    \/ ServerTakesPacket
    \/ ConnectToFinished
    \/ SetupProtocolClient
    \/ Restart

MCNext ==
    \/ WorkOff /\ UNCHANGED budget
    \/ \E m \in Msgs : /\ CallbackTaskFailed(m) \/ AcknowledgmentTimeout(m)
                       /\ Spend("timeout")
    \/ (\E old \in SUBSET queued : OnQueueTimeoutTimerFire(old)) /\ Spend("timer")
    \/ SocketDisconnected /\ Spend("loss")
    \/ Crash /\ Spend("crash")
    \/ (\E m \in Msgs : DeleteMessage(m)) /\ Spend("delete")
    \/ PeerStep /\ Spend("receipt")

MCSpec == MCInit /\ [][MCNext]_mcVars

-----------------------------------------------------------------------------
(* For liveness the queue timer must be able to fire for ever.  It then    *)
(* waits until the work its earlier firings caused is below MaxWork.       *)

Work == resends + Len(reports) + Len(dbq) + Len(pcq) + Len(outgoing)
            + Len(wire) + Len(acks)

TimerFires(old) ==
    /\ Work < MaxWork
    /\ OnQueueTimeoutTimerFire(old)
    /\ UNCHANGED budget

LiveNext == MCNext \/ \E old \in SUBSET queued : TimerFires(old)

(* Every thread runs its event loop; timers that are started fire; the     *)
(* server takes and answers what it is sent; uploads end; the client gets  *)
(* a connection again; a user whose client is gone starts and connects it. *)
(* Nothing is assumed about faults, deletions or new messages.             *)
Fairness ==
    /\ WF_vars(ProcessSentMessage)
    /\ WF_vars(TryResendingMessagesToNetwork)
    /\ WF_vars(SetNetworkSentMessageAcceptor)
    /\ WF_vars(ProcessReport)
    /\ WF_vars(DatabaseStep)
    /\ WF_vars(SendPostedMessage)
    /\ WF_vars(OutgoingMessagesTimerOnTimer)
    /\ WF_vars(HandleIncomingAcknowledgment)
    /\ \A m \in Msgs : WF_vars(CallbackTaskSucceeded(m))
    /\ WF_vars(ServerTakesPacket)
    /\ WF_vars(ConnectToFinished)
    /\ WF_vars(acceptor = "none" /\ SetupProtocolClient)
    /\ WF_vars(Restart)
    /\ WF_mcVars(TimerFires(queued))

LiveSpec == MCInit /\ [][LiveNext]_mcVars /\ Fairness

-----------------------------------------------------------------------------
(* Properties that depend on what has gone wrong so far.                   *)

(* As long as no timer and no failure has taken a message off the queue,   *)
(* the server never gets the same copy twice, although the message         *)
(* center's own post, the drain on connectToFinished and the drain of a    *)
(* new acceptor may all want to send it, before and after a crash.         *)
CopiesNeedACause ==
    budget.timer = MaxTimers /\ budget.timeout = MaxTimeouts => NoDuplicateCopies

(* Every stored message is sent in the end, over crashes and messages      *)
(* stored offline, unless an acknowledgment was late or an upload failed.  *)
SentUnlessLate ==
    \A m \in Msgs :
        m \in present /\ budget.timeout = MaxTimeouts
            ~> m \in sent \/ m \notin present \/ budget.timeout < MaxTimeouts
=============================================================================
