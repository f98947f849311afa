----------------------------- MODULE Connection -----------------------------
(***************************************************************************)
(* The connection to the chat server, from the button in the main window   *)
(* to the socket.                                                          *)
(*   - The user interface's thread (Client) reacts to clicks and to the    *)
(*     signals of the protocol client, which are queued for it.  Its       *)
(*     message boxes are modal and run an event loop of their own, so a    *)
(*     handler may be interrupted by the handlers of later signals.        *)
(*   - The network thread (ProtocolClient) owns the socket.  It runs the   *)
(*     calls posted to it and the socket's events; during the handshake it *)
(*     blocks, so that everything else waits.                              *)
(* Every click on Connect replaces the protocol client by a new one.       *)
(***************************************************************************)
EXTENDS Naturals, Sequences

CONSTANTS
    CountLimit,    \* the largest value of failedReconnectAttempts
    Options        \* the values RECONNECT_ON_CONNECTION_LOSS may have

ASSUME ConnectionAssumption ==
    /\ CountLimit \in Nat /\ CountLimit > 3
    /\ Options \subseteq BOOLEAN

VARIABLES
    app,           \* "running", or "quit" after an exception
    shown,         \* m_connectionState; STATE_CONNECTING is never assigned
    button,        \* text of btnConnect, and whether it is enabled
    boxes,         \* message boxes on the screen, the innermost last
    setup,         \* what the innermost setupProtocolClient waits for
    setups,        \* calls of setupProtocolClient that have not returned
    signals,       \* signals queued for the user interface
    calls,         \* calls posted to the protocol client
    client,        \* the protocol client: "none", "new" or "ready"
    listening,     \* its signals are connected to the user interface
    reconnects,    \* the option RECONNECT_ON_CONNECTION_LOSS
    socket,        \* state of m_socket
    handshake,     \* the answer socketConnected blocks for
    key,           \* whose short-term key the crypto box holds
    isConnected,   \* m_isConnected, which is also m_isAllowedToSend
    isDisconnecting,
    attempts,      \* failedReconnectAttempts
    redials,       \* automatic connects since a user's or a success (history)
    barred         \* a disconnect or a warning was handled since (history)

uiVars     == <<shown, button, boxes, setup, setups>>
linkVars   == <<socket, handshake, key>>
stateVars  == <<isConnected, isDisconnecting, attempts>>
history    == <<redials, barred>>
vars == <<app, uiVars, signals, calls, client, listening, reconnects,
          linkVars, stateVars, history>>

Texts == {"Connect", "Connecting...", "Disconnect", "Disconnecting..."}

Button(text, enabled) == [text |-> text, enabled |-> enabled]

MaxAttempts == 3

Add(n) == (n + 1) % (CountLimit + 1)

(* emit: what no slot is connected to is dropped. *)
Emit(some) == signals' = IF listening THEN signals \o some ELSE signals

-----------------------------------------------------------------------------
(* The network thread: losing a connection.                                *)

Retries ==
    /\ ~isDisconnecting
    /\ attempts < MaxAttempts
    /\ reconnects

(* The slot socketDisconnected, between the signals that come before and   *)
(* after it in the same step; failed: a failed handshake is counted after. *)
SocketDisconnected(before, after, failed) ==
    LET kept == IF attempts >= MaxAttempts THEN 0 ELSE attempts
    IN  /\ isConnected' = FALSE
        /\ attempts' = IF failed THEN Add(kept) ELSE kept
        /\ \/ /\ Retries
              /\ socket' = "connecting"
              /\ redials' = redials + 1
              /\ Emit(before \o after)
              /\ UNCHANGED isDisconnecting
           \/ /\ ~Retries
              /\ socket' = "unconnected"
              /\ Emit(before \o <<"lostConnection">> \o after)
              /\ UNCHANGED <<redials, isDisconnecting>>

(* The other side closes the connection outside of a handshake. *)
RemoteCloses ==
    /\ app = "running"
    /\ socket \in {"connected", "closing"}
    /\ handshake = "none"
    /\ SocketDisconnected(<<"failed">>, <<>>, FALSE)
    /\ UNCHANGED <<app, uiVars, calls, client, listening, reconnects,
                   handshake, key, barred>>

(* Mutated form of SocketCloses: the signal disconnected is not connected. *)
MutantSocketCloses ==
    /\ app = "running"
    /\ socket = "closing"
    /\ socket' = "unconnected"
    /\ isConnected' = FALSE
    /\ UNCHANGED <<app, uiVars, signals, calls, client, listening, reconnects,
                   handshake, key, isDisconnecting, attempts, history>>

(* What was still to be written is out, and the socket closes. *)
SocketCloses ==
    /\ app = "running"
    /\ socket = "closing"
    /\ SocketDisconnected(<<>>, <<>>, FALSE)
    /\ UNCHANGED <<app, uiVars, calls, client, listening, reconnects,
                   handshake, key, barred>>

-----------------------------------------------------------------------------
(* The network thread: connecting and the handshake.                       *)

(* A TCP connection that does not come about is reported, but it is not a  *)
(* disconnect and nothing is tried again.                                  *)
SocketOnError ==
    /\ app = "running"
    /\ socket = "connecting"
    /\ socket' = "unconnected"
    /\ Emit(<<"failed">>)
    /\ UNCHANGED <<app, uiVars, calls, client, listening, reconnects,
                   handshake, key, stateVars, history>>

(* socketConnected up to the wait for the server's hello.  The crypto box  *)
(* keeps the key of the last server until a hello brings a new one.        *)
SocketConnected ==
    /\ app = "running"
    /\ socket = "connecting"
    /\ socket' = "connected"
    /\ handshake' = "hello"
    /\ key' = IF key = "current" THEN "old" ELSE key
    /\ UNCHANGED <<app, uiVars, signals, calls, client, listening, reconnects,
                   stateVars, history>>

(* Mutated form of AcceptServerHello: the server's key is not taken over. *)
MutantAcceptServerHello ==
    /\ app = "running"
    /\ handshake = "hello"
    /\ handshake' = "authentication"
    /\ UNCHANGED <<app, uiVars, signals, calls, client, listening, reconnects,
                   socket, key, stateVars, history>>

(* The server's hello is good; our authentication packet is sent. *)
AcceptServerHello ==
    /\ app = "running"
    /\ handshake = "hello"
    /\ handshake' = "authentication"
    /\ key' = "current"
    /\ UNCHANGED <<app, uiVars, signals, calls, client, listening, reconnects,
                   socket, stateVars, history>>

HandshakeFinished ==
    /\ app = "running"
    /\ handshake = "authentication"
    /\ handshake' = "none"
    /\ attempts' = 0
    /\ isConnected' = TRUE
    /\ redials' = 0
    /\ Emit(<<"connected">>)
    /\ UNCHANGED <<app, uiVars, calls, client, listening, reconnects,
                   socket, key, isDisconnecting, barred>>

(* Nothing came within five seconds, which the socket reports too, or the  *)
(* answer is wrong; the nonce prefix in it is only compared once the key   *)
(* is taken over.  The socket stays open.                                  *)
HandshakeFails ==
    /\ app = "running"
    /\ handshake # "none"
    /\ handshake' = "none"
    /\ attempts' = Add(attempts)
    /\ \/ Emit(<<"failed">>) /\ key' \in {key, "current"}
       \/ Emit(<<"failed", "failed">>) /\ UNCHANGED key
    /\ UNCHANGED <<app, uiVars, calls, client, listening, reconnects,
                   socket, isConnected, isDisconnecting, history>>

(* The other side closes while socketConnected waits: socketDisconnected   *)
(* runs inside the wait, and the handshake goes on to fail afterwards.     *)
RemoteClosesInHandshake ==
    /\ app = "running"
    /\ handshake # "none"
    /\ handshake' = "none"
    /\ SocketDisconnected(<<"failed">>, <<"failed">>, TRUE)
    /\ UNCHANGED <<app, uiVars, calls, client, listening, reconnects,
                   key, barred>>

(* A box that cannot be opened throws, in the handshake or later; notify   *)
(* catches it and ends the program.                                        *)
DecryptionFails ==
    /\ app = "running"
    /\ handshake # "none" \/ (isConnected /\ socket = "connected")
    /\ app' = "quit"
    /\ UNCHANGED <<uiVars, signals, calls, client, listening, reconnects,
                   linkVars, stateVars, history>>

(* Mutated form of DuplicateConnection: one too many. *)
MutantDuplicateConnection ==
    /\ app = "running"
    /\ handshake = "none" /\ isConnected /\ socket = "connected"
    /\ attempts' = CountLimit + 1
    /\ barred' = TRUE
    /\ Emit(<<"duplicate">>)
    /\ UNCHANGED <<app, uiVars, calls, client, listening, reconnects,
                   linkVars, isConnected, isDisconnecting, redials>>

(* The packet CONNECTION_DUPLICATE: somebody else uses our identity. *)
DuplicateConnection ==
    /\ app = "running"
    /\ handshake = "none" /\ isConnected /\ socket = "connected"
    /\ attempts' = CountLimit
    /\ barred' = TRUE
    /\ Emit(<<"duplicate">>)
    /\ UNCHANGED <<app, uiVars, calls, client, listening, reconnects,
                   linkVars, isConnected, isDisconnecting, redials>>

-----------------------------------------------------------------------------
(* The network thread: calls posted by the user interface.  They wait for  *)
(* a handshake to end.                                                     *)

Take(call) ==
    /\ app = "running"
    /\ client = "ready" /\ handshake = "none"
    /\ calls # <<>> /\ Head(calls) = call
    /\ calls' = Tail(calls)

(* connectToServer: a connection that stands is closed, and the socket is  *)
(* aborted.  An open socket whose handshake failed makes abort() call      *)
(* socketDisconnected, which may have begun to connect already.            *)
ConnectToServer ==
    /\ Take("connectToServer")
    /\ isConnected' = FALSE
    /\ isDisconnecting' = FALSE
    /\ socket' = "connecting"
    /\ redials' = 0
    /\ barred' = FALSE
    /\ \/ /\ socket \in {"unconnected", "connecting"}
          /\ UNCHANGED <<attempts, signals>>
       \/ /\ socket \in {"connected", "closing"}
          /\ attempts' = IF attempts >= MaxAttempts THEN 0 ELSE attempts
          /\ Emit(IF ~isConnected /\ Retries THEN <<"failed">>
                  ELSE <<"lostConnection">>)
    /\ UNCHANGED <<app, uiVars, client, listening, reconnects, handshake, key>>

(* Mutated form of DisconnectFromServer: m_isDisconnecting is not set. *)
MutantDisconnectFromServer ==
    /\ Take("disconnectFromServer")
    /\ socket' = IF isConnected THEN "closing" ELSE socket
    /\ barred' = (barred \/ isConnected)
    /\ UNCHANGED <<app, uiVars, signals, client, listening, reconnects,
                   handshake, key, stateVars, redials>>

(* disconnectFromServer does nothing while the client is not connected. *)
DisconnectFromServer ==
    /\ Take("disconnectFromServer")
    /\ \/ /\ isConnected
          /\ isDisconnecting' = TRUE
          /\ socket' = "closing"
          /\ barred' = TRUE
       \/ /\ ~isConnected
          /\ UNCHANGED <<isDisconnecting, socket, barred>>
    /\ UNCHANGED <<app, uiVars, signals, client, listening, reconnects,
                   handshake, key, isConnected, attempts, redials>>

(* The protocol client of a new setupProtocolClient. *)
NewProtocolClient ==
    /\ client' = "new"
    /\ listening' = TRUE
    /\ socket' = "unconnected"
    /\ key' = "none"
    /\ isConnected' = FALSE
    /\ isDisconnecting' = FALSE
    /\ attempts' = 0

(* teardown and, as the user interface waits for it to return, the         *)
(* creation of the next protocol client.                                   *)
Teardown ==
    /\ Take("teardown")
    /\ NewProtocolClient
    /\ setup' = "setupDone"
    /\ UNCHANGED <<app, shown, button, boxes, setups, signals, reconnects,
                   handshake, history>>

(* The slot setup, with the signals readyConnect and setupDone. *)
Setup ==
    /\ app = "running"
    /\ client = "new"
    /\ client' = "ready"
    /\ Emit(<<"ready">>)
    /\ UNCHANGED <<app, uiVars, calls, listening, reconnects,
                   linkVars, stateVars, history>>

-----------------------------------------------------------------------------
(* The user interface.                                                     *)

(* The event loop runs, the main window or a message box has it. *)
UiRuns == app = "running" /\ setup # "teardown"

(* A click needs the main window's event loop, which an event loop told to *)
(* quit does not come back to.                                             *)
Clickable == UiRuns /\ boxes = <<>> /\ setup # "quit" /\ button.enabled

(* btnConnectOnClick while disconnected, with setupProtocolClient: the old *)
(* client's signals are cut off, and teardown is posted and waited for.    *)
(* Its event loop may still run handlers for the old client, and let the   *)
(* user click again.                                                       *)
ClickConnect ==
    /\ Clickable
    /\ shown = "disconnected"
    /\ button' = Button("Connecting...", FALSE)
    /\ setups' = setups + 1
    /\ \/ /\ client = "none"
          /\ NewProtocolClient
          /\ setup' = "setupDone"
          /\ UNCHANGED calls
       \/ /\ client # "none"
          /\ listening' = FALSE
          /\ isDisconnecting' = (isDisconnecting \/ isConnected)
          /\ socket' = IF isConnected THEN "closing" ELSE socket
          /\ calls' = Append(calls, "teardown")
          /\ setup' = "teardown"
          /\ UNCHANGED <<client, key, isConnected, attempts>>
    /\ UNCHANGED <<app, shown, boxes, signals, reconnects, handshake, history>>

(* btnConnectOnClick while connected. *)
ClickDisconnect ==
    /\ Clickable
    /\ shown = "connected"
    /\ button' = Button("Disconnecting...", FALSE)
    /\ calls' = Append(calls, "disconnectFromServer")
    /\ UNCHANGED <<app, shown, boxes, setup, setups, signals, client, listening,
                   reconnects, linkVars, stateVars, history>>

(* setupProtocolClient returns once its event loop was told to quit and no *)
(* message box holds it back, and with it the calls it interrupted.        *)
SetupReturns ==
    /\ UiRuns
    /\ setup = "quit" /\ boxes = <<>>
    /\ setup' = "none" /\ setups' = 0
    /\ calls' = calls \o [i \in 1 .. setups |-> "connectToServer"]
    /\ UNCHANGED <<app, shown, button, boxes, signals, client, listening,
                   reconnects, linkVars, stateVars, history>>

IsIn(x, seq) == \E i \in DOMAIN seq : seq[i] = x

Handle(signal) ==
    /\ UiRuns
    /\ signals # <<>> /\ Head(signals) = signal
    /\ signals' = Tail(signals)
    /\ UNCHANGED <<app, setups, calls, client, listening, reconnects,
                   linkVars, stateVars, history>>

(* protocolClientOnReadyConnect, and eventLoop.quit for the client that    *)
(* the innermost setupProtocolClient has made.                             *)
OnReadyConnect ==
    /\ Handle("ready")
    /\ shown' = "disconnected"
    /\ button' = Button("Connect", TRUE)
    /\ setup' = IF client = "ready" /\ ~IsIn("ready", Tail(signals)) THEN "quit"
                ELSE setup
    /\ UNCHANGED boxes

OnLostConnection ==
    /\ Handle("lostConnection")
    /\ shown' = "disconnected"
    /\ button' = Button("Connect", TRUE)
    /\ UNCHANGED <<boxes, setup>>

OnConnectToFinished ==
    /\ Handle("connected")
    /\ shown' = "connected"
    /\ button' = Button("Disconnect", TRUE)
    /\ UNCHANGED <<boxes, setup>>

(* Mutated form of OnConnectToFinishedFailed: the state is left alone. *)
MutantOnConnectToFinishedFailed ==
    /\ Handle("failed")
    /\ boxes' = Append(boxes, "failed")
    /\ UNCHANGED <<shown, button, setup>>

(* The handler for a failure sets the state, then shows a box, and sets    *)
(* the button when that is closed.                                         *)
OnConnectToFinishedFailed ==
    /\ Handle("failed")
    /\ shown' = "disconnected"
    /\ boxes' = Append(boxes, "failed")
    /\ UNCHANGED <<button, setup>>

OnDuplicateIdUsageDetected ==
    /\ Handle("duplicate")
    /\ boxes' = Append(boxes, "duplicate")
    /\ UNCHANGED <<shown, button, setup>>

Innermost == boxes[Len(boxes)]

DismissBox ==
    /\ UiRuns
    /\ boxes # <<>>
    /\ boxes' = SubSeq(boxes, 1, Len(boxes) - 1)
    /\ button' = IF Innermost = "failed" THEN Button("Connect", TRUE) ELSE button
    /\ UNCHANGED <<app, shown, setup, setups, signals, calls, client, listening,
                   reconnects, linkVars, stateVars, history>>

-----------------------------------------------------------------------------
Init ==
    /\ app = "running"
    /\ shown = "disconnected"
    /\ button = Button("Connect", TRUE)
    /\ boxes = <<>>
    /\ setup = "none" /\ setups = 0
    /\ signals = <<>> /\ calls = <<>>
    /\ client = "none" /\ listening = FALSE
    /\ reconnects \in Options
    /\ socket = "unconnected" /\ handshake = "none" /\ key = "none"
    /\ isConnected = FALSE /\ isDisconnecting = FALSE /\ attempts = 0
    /\ redials = 0 /\ barred = FALSE

UiStep ==
    \/ SetupReturns
    \/ OnReadyConnect
    \/ OnLostConnection
    \/ OnConnectToFinished
    \/ OnConnectToFinishedFailed
    \/ OnDuplicateIdUsageDetected

CallStep ==
    \/ ConnectToServer
    \/ DisconnectFromServer
    \/ Teardown
    \/ Setup

HandshakeStep ==
    \/ AcceptServerHello
    \/ HandshakeFinished
    \/ HandshakeFails
    \/ RemoteClosesInHandshake

Next ==
    \/ UiStep
    \/ CallStep
    \/ HandshakeStep
    \/ SocketOnError
    \/ SocketConnected
    \/ SocketCloses
    \/ RemoteCloses
    \/ DuplicateConnection
    \/ DecryptionFails
    \/ ClickConnect
    \/ ClickDisconnect
    \/ DismissBox

Spec == Init /\ [][Next]_vars

-----------------------------------------------------------------------------
(* Properties.                                                             *)

TypeOK ==
    /\ app \in {"running", "quit"}
    /\ shown \in {"disconnected", "connected"}
    /\ button \in [text: Texts, enabled: BOOLEAN]
    /\ boxes \in Seq({"failed", "duplicate"})
    /\ setup \in {"none", "teardown", "setupDone", "quit"}
    /\ setups \in Nat
    /\ signals \in Seq({"ready", "lostConnection", "connected", "failed", "duplicate"})
    /\ calls \in Seq({"connectToServer", "disconnectFromServer", "teardown"})
    /\ client \in {"none", "new", "ready"}
    /\ listening \in BOOLEAN /\ reconnects \in BOOLEAN
    /\ socket \in {"unconnected", "connecting", "connected", "closing"}
    /\ handshake \in {"none", "hello", "authentication"}
    /\ key \in {"none", "old", "current"}
    /\ isConnected \in BOOLEAN /\ isDisconnecting \in BOOLEAN
    /\ attempts \in 0 .. CountLimit
    /\ redials \in Nat /\ barred \in BOOLEAN

(* A client that calls itself connected has come through the handshake of  *)
(* the connection that stands now, holds that server's key and nobody      *)
(* else's, and is not in the middle of another handshake: stale replies    *)
(* and nested disconnects cannot make it send under an old key.            *)
ConnectedIsAuthenticated ==
    isConnected => /\ socket \in {"connected", "closing"}
                   /\ handshake = "none"
                   /\ key = "current"

(* Nothing is on its way between the threads, or from the network. *)
Settled ==
    /\ app = "running"
    /\ signals = <<>> /\ calls = <<>> /\ boxes = <<>> /\ setup = "none"
    /\ socket \in {"unconnected", "connected"} /\ handshake = "none"

(* Once everything is delivered and handled, the main window's state is    *)
(* the client's, although it only hears of it through signals that may     *)
(* come from a client already replaced, and that are cut off with it.      *)
SettledStateIsShown ==
    /\ TypeOK
    /\ Settled => (shown = "connected") = isConnected

(* The user is never left with a button that cannot be clicked: whatever a *)
(* click on it raced with, some later signal enables it again.             *)
ButtonComesBack == ~button.enabled ~> button.enabled \/ app = "quit"

(* The promise to the user; a connection whose handshake failed is still   *)
(* "trying" because losing it makes the client connect again.              *)
MaxRedials == 4

Phase ==
    IF isConnected THEN "online"
    ELSE IF socket \in {"connecting", "connected"} THEN "trying"
    ELSE "offline"

Promise == INSTANCE Session WITH Limit <- MaxRedials, phase <- Phase

(* Every step of the button, the client and the socket is a step of        *)
(* Session: no attempt that the user has not asked for after a disconnect  *)
(* or a warning about a second device, and no endless reconnecting.        *)
ImplementsSession == Promise!Spec
=============================================================================
