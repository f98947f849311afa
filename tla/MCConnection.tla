---------------------------- MODULE MCConnection ----------------------------
(***************************************************************************)
(* Connection with bounds for TLC: what the user and the other side may do *)
(* again and again spends from a budget.                                   *)
(***************************************************************************)
EXTENDS Connection

CONSTANTS
    MaxClicks,     \* clicks on the button
    MaxCloses,     \* connections that the other side closes
    MaxWarnings    \* CONNECTION_DUPLICATE packets

VARIABLE budget

mcVars == <<vars, budget>>

Spend(what) ==
    /\ budget[what] > 0
    /\ budget' = [budget EXCEPT ![what] = @ - 1]

MCInit ==
    /\ Init
    /\ budget = [click |-> MaxClicks, close |-> MaxCloses, warning |-> MaxWarnings]

WorkOff ==
    \/ UiStep
    \/ CallStep
    \/ AcceptServerHello
    \/ HandshakeFinished
    \/ HandshakeFails
    \/ SocketOnError
    \/ SocketConnected
    \/ SocketCloses
    \/ DecryptionFails
    \/ DismissBox

MCNext ==
    \/ WorkOff /\ UNCHANGED budget
    \/ ClickConnect /\ Spend("click")
    \/ ClickDisconnect /\ Spend("click")
    \/ RemoteCloses /\ Spend("close")
    \/ RemoteClosesInHandshake /\ Spend("close")
    \/ DuplicateConnection /\ Spend("warning")

(* Every thread runs its event loop, TCP and the handshake have timeouts,  *)
(* written data leaves and a closed socket closes; the user closes a       *)
(* message box, as nothing else can be done in front of one.               *)
Fairness ==
    /\ WF_vars(UiStep)
    /\ WF_vars(CallStep)
    /\ WF_vars(HandshakeStep)
    /\ WF_vars(SocketOnError \/ SocketConnected)
    /\ WF_vars(SocketCloses)
    /\ WF_vars(DismissBox)

MCSpec == MCInit /\ [][MCNext]_mcVars /\ Fairness
=============================================================================
