---------------------------- MODULE MCGroupInbox ----------------------------
(***************************************************************************)
(* GroupInbox with bounds for TLC.  Messages are posted once each; steps   *)
(* of the outside world that could happen again and again spend from a     *)
(* budget.                                                                 *)
(***************************************************************************)
EXTENDS GroupInbox

CONSTANTS
    MaxSessions,   \* sessions with the server
    MaxCrashes,    \* times the process dies
    MaxWaits,      \* times that five minutes pass
    MaxRequests,   \* sync requests of the user
    Scenarios      \* the sets of messages that are posted together

(* The messages the runs choose from.  Anna owns the group "theirs"; we    *)
(* own "ours".                                                             *)
GroupOwner == [theirs |-> "anna", ours |-> "me"]

MessageKind == [hello |-> "text", again |-> "text", photo |-> "media", bye |-> "leave",
           name |-> "title", setup |-> "creation", shrink |-> "creation",
           dismiss |-> "creation", ask |-> "sync", part |-> "leave"]

MCOwner == [g \in Groups |-> GroupOwner[g]]
MCKind == [m \in Messages |-> MessageKind[m]]

MCGroupOf == [m \in Messages |-> IF m \in {"ask", "part"} THEN "ours" ELSE "theirs"]

MCSender == [m \in Messages |-> IF MessageKind[m] \in {"title", "creation"} THEN "anna" ELSE "bert"]

(* "setup" does as the iOS client does and leaves its sender out; "shrink" *)
(* is without Bert and "dismiss" without us.                               *)
MCMembersIn ==
    [m \in Messages |-> CASE m = "setup"   -> {"me", "bert"}
                          [] m = "shrink"  -> {"me", "anna"}
                          [] m = "dismiss" -> {"anna", "bert"}
                          [] OTHER         -> {}]

All == {Messages}

(* Either a title or a sync request takes part. *)
WithoutOne == {Messages \ {"name"}, Messages \ {"ask"}}

Everybody == [g \in Groups |-> {"me", "anna", "bert"}]
Nothing   == [g \in Groups |-> {}]
OnlyOurs  == [g \in Groups |-> IF g = "ours" THEN {"me", "anna"} ELSE {}]

VARIABLES budget, scenario

mcVars == <<vars, budget, scenario>>

Spend(what) ==
    /\ budget[what] > 0
    /\ budget' = [budget EXCEPT ![what] = @ - 1]
    /\ UNCHANGED scenario

MCInit ==
    /\ Init
    /\ scenario \in Scenarios
    /\ budget = [session |-> MaxSessions, crash |-> MaxCrashes,
                 wait |-> MaxWaits, request |-> MaxRequests]

WorkOff ==
    \/ ExecuteStore
    \/ CenterStep
    \/ \E m \in scenario : Post(m) \/ Deliver(m) \/ AckArrives(m)
    \/ SocketDisconnected
    \/ Exit
    \/ Restart

(* What may happen now and then. *)
Outside ==
    \/ Crash /\ Spend("crash")
    \/ (\E g \in Groups : FiveMinutesPass(g)) /\ Spend("wait")
    \/ (\E g \in Groups : SendSyncRequest(g)) /\ Spend("request")

MCNext ==
    \/ WorkOff /\ UNCHANGED <<budget, scenario>>
    \/ Reconnect /\ Spend("session")
    \/ Outside

MCSpec == MCInit /\ [][MCNext]_mcVars

-----------------------------------------------------------------------------
(* Fairness for liveness.  The event loops run what is posted; the server  *)
(* delivers; the owner answers a sync request; whoever has a message posts *)
(* it; the user starts the program and connects it, and sessions last once *)
(* the budget for more of them is spent.                                   *)

LastSession == budget.session = 0

LiveNext ==
    \/ /\ WorkOff
       /\ LastSession /\ connected /\ app = "running" => connected'
       /\ UNCHANGED <<budget, scenario>>
    \/ Reconnect /\ Spend("session")
    \/ Reconnect /\ LastSession /\ UNCHANGED <<budget, scenario>>
    \/ Outside

Fairness ==
    /\ WF_vars(ExecuteStore)
    /\ WF_vars(CenterStep)
    /\ \A m \in Messages : WF_vars(Post(m)) /\ WF_vars(Deliver(m))
    /\ WF_vars(Reconnect)
    /\ WF_vars(Restart)

LiveSpec == MCInit /\ [][LiveNext]_mcVars /\ Fairness

(* Every message that the owner's answer makes welcome is stored in the    *)
(* end, also when it came before the group was known, unless a crash cut   *)
(* off a store.                                                            *)
MessagesAreKept ==
    \A m \in Messages :
        IsIn(posted, m) ~> IsIn(stored, m) \/ lost # {}
=============================================================================
