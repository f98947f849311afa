-------------------------- MODULE ConnectionProofs --------------------------
(***************************************************************************)
(* Connection keeps the promise of Session for every value of the          *)
(* constants.  An automatic attempt that has not ended in a success or a   *)
(* failed handshake is "under way"; the counter of the code is behind the  *)
(* attempts made by at most that one.  The second half follows the signals *)
(* from the client to the window: the last one queued says what the client *)
(* is, unless setupProtocolClient is still waiting for the next client.    *)
(***************************************************************************)
EXTENDS Connection, TLAPS

Sockets == {"unconnected", "connecting", "connected", "closing"}
Handshakes == {"none", "hello", "authentication"}
Keys == {"none", "old", "current"}
Signals == {"ready", "lostConnection", "connected", "failed", "duplicate"}
Calls == {"connectToServer", "disconnectFromServer", "teardown"}

(* The socket, the handshake and the client's flags fit together. *)
Coherent ==
    /\ ConnectedIsAuthenticated
    /\ handshake # "none" => socket = "connected"
    /\ handshake = "authentication" => key = "current"
    /\ socket = "closing" => isConnected /\ isDisconnecting

UnderWay == socket = "connecting" \/ handshake # "none"

Counted ==
    \/ redials = 0
    \/ socket = "unconnected"
    \/ /\ ~isConnected
       /\ \/ UnderWay /\ attempts <= 3 /\ redials <= attempts + 1
          \/ ~UnderWay /\ attempts <= 4 /\ redials <= attempts

(* Whoever put an end to the connection also keeps it from coming back. *)
StaysBarred ==
    barred => \/ socket = "unconnected"
              \/ isConnected /\ (isDisconnecting \/ attempts >= MaxAttempts)

Links ==
    /\ socket \in Sockets /\ handshake \in Handshakes /\ key \in Keys
    /\ isConnected \in BOOLEAN /\ isDisconnecting \in BOOLEAN
    /\ attempts \in 0 .. CountLimit
    /\ redials \in Nat /\ barred \in BOOLEAN

LinkInv == Links /\ Coherent /\ Counted /\ StaysBarred

LEMMA AddIsBounded ==
    ASSUME NEW n \in 0 .. CountLimit
    PROVE  /\ Add(n) \in 0 .. CountLimit
           /\ n < CountLimit => Add(n) = n + 1
<1>1. CountLimit \in Nat /\ CountLimit > 3
  BY ConnectionAssumption
<1>2. CASE n < CountLimit
  <2>1. n + 1 \in 0 .. CountLimit /\ (n + 1) % (CountLimit + 1) = n + 1
    BY <1>1, <1>2
  <2> QED
    BY <2>1, <1>2 DEF Add
<1>3. CASE n = CountLimit
  <2>1. (CountLimit + 1) % (CountLimit + 1) = 0
    BY <1>1
  <2> QED
    BY <1>1, <1>3, <2>1 DEF Add
<1> QED
  BY <1>1, <1>2, <1>3

LEMMA InitHasLinkInv == Init => LinkInv
<1> SUFFICES ASSUME Init
             PROVE  LinkInv
  OBVIOUS
<1>0. 0 \in 0 .. CountLimit /\ 0 \in Nat
  BY ConnectionAssumption
<1>1. Links
  <2>1. socket \in Sockets /\ handshake \in Handshakes /\ key \in Keys
    BY DEF Init, Sockets, Handshakes, Keys
  <2>2. attempts \in 0 .. CountLimit /\ redials \in Nat
    BY <1>0 DEF Init
  <2>3. isConnected \in BOOLEAN /\ isDisconnecting \in BOOLEAN /\ barred \in BOOLEAN
    BY DEF Init
  <2> QED
    BY <2>1, <2>2, <2>3 DEF Links
<1>2. Coherent
  BY DEF Init, Coherent, ConnectedIsAuthenticated
<1>3. Counted /\ StaysBarred
  BY DEF Init, Counted, StaysBarred
<1> QED
  BY <1>1, <1>2, <1>3 DEF LinkInv

-----------------------------------------------------------------------------
(* Losing a connection.                                                    *)

LEMMA DisconnectedTypes ==
    ASSUME LinkInv, NEW before, NEW after, NEW failed \in BOOLEAN,
           SocketDisconnected(before, after, failed),
           handshake' = "none", UNCHANGED <<key, barred>>
    PROVE  Links'
<1>1. attempts \in 0 .. CountLimit /\ redials \in Nat /\ 0 \in 0 .. CountLimit
  BY ConnectionAssumption DEF LinkInv, Links
<1>2. attempts' \in 0 .. CountLimit
  BY <1>1, AddIsBounded DEF SocketDisconnected
<1>3. redials' \in Nat /\ socket' \in Sockets /\ handshake' \in Handshakes
  BY <1>1 DEF SocketDisconnected, Sockets, Handshakes
<1>4. /\ isConnected' \in BOOLEAN /\ isDisconnecting' \in BOOLEAN
      /\ barred' \in BOOLEAN /\ key' \in Keys
  BY DEF SocketDisconnected, LinkInv, Links
<1> QED
  BY <1>2, <1>3, <1>4 DEF Links

LEMMA BarredDoesNotRetry ==
    ASSUME LinkInv, socket # "unconnected", Retries
    PROVE  ~barred
<1>1. attempts < 3 /\ ~isDisconnecting /\ attempts \in Nat
  BY ConnectionAssumption DEF Retries, MaxAttempts, LinkInv, Links
<1>2. ~(attempts >= 3)
  BY <1>1
<1> QED
  BY <1>1, <1>2 DEF LinkInv, StaysBarred, MaxAttempts

LEMMA DisconnectedCoherent ==
    ASSUME LinkInv, socket # "unconnected",
           NEW before, NEW after, NEW failed \in BOOLEAN,
           SocketDisconnected(before, after, failed),
           handshake' = "none", UNCHANGED <<key, barred>>
    PROVE  Coherent' /\ StaysBarred'
<1>1. isConnected' = FALSE /\ socket' \in {"connecting", "unconnected"}
  BY DEF SocketDisconnected
<1>2. Coherent'
  BY <1>1 DEF Coherent, ConnectedIsAuthenticated
<1>3. StaysBarred'
  <2>1. CASE Retries
    BY <2>1, BarredDoesNotRetry DEF StaysBarred
  <2>2. CASE ~Retries
    <3>1. socket' = "unconnected"
      BY <2>2 DEF SocketDisconnected
    <3> QED
      BY <3>1 DEF StaysBarred
  <2> QED
    BY <2>1, <2>2
<1> QED
  BY <1>2, <1>3

(* A retry finds fewer than three counted failures and adds at most one    *)
(* attempt to those under way.                                             *)
LEMMA RetryCounts ==
    ASSUME LinkInv, Retries, socket # "unconnected", socket # "connecting"
    PROVE  /\ redials < MaxRedials /\ redials + 1 \in Nat
           /\ handshake = "none" => redials + 1 <= attempts + 1
           /\ handshake # "none" => redials + 1 <= Add(attempts) + 1
           /\ attempts <= 3 /\ Add(attempts) <= 3
<1>1. /\ attempts \in Nat /\ attempts < 3 /\ redials \in Nat
      /\ attempts \in 0 .. CountLimit /\ attempts < CountLimit
  BY ConnectionAssumption DEF Retries, MaxAttempts, LinkInv, Links
<1>2. Add(attempts) = attempts + 1
  BY <1>1, AddIsBounded
<1>3. /\ redials <= attempts + 1
      /\ handshake = "none" => redials <= attempts
  BY <1>1 DEF LinkInv, Counted, UnderWay
<1> QED
  BY <1>1, <1>2, <1>3 DEF MaxRedials

LEMMA DisconnectedCounted ==
    ASSUME LinkInv, socket # "unconnected", socket # "connecting",
           NEW before, NEW after, NEW failed \in BOOLEAN,
           SocketDisconnected(before, after, failed),
           failed <=> handshake # "none", handshake' = "none"
    PROVE  Counted'
<1>1. CASE Retries
  <2>1. /\ isConnected' = FALSE /\ socket' = "connecting"
        /\ redials' = redials + 1
    BY <1>1 DEF SocketDisconnected
  <2>2. ~(attempts >= MaxAttempts)
    BY <1>1, ConnectionAssumption DEF Retries, MaxAttempts, LinkInv, Links
  <2>3. attempts' = IF failed THEN Add(attempts) ELSE attempts
    BY <2>2 DEF SocketDisconnected
  <2>4. attempts' <= 3 /\ redials' <= attempts' + 1
    BY <1>1, <2>1, <2>3, RetryCounts
  <2> QED
    BY <2>1, <2>4 DEF Counted, UnderWay
<1>2. CASE ~Retries
  <2>1. socket' = "unconnected"
    BY <1>2 DEF SocketDisconnected
  <2> QED
    BY <2>1 DEF Counted
<1> QED
  BY <1>1, <1>2

(* Losing a connection is a Redial or a HangUp. *)
LEMMA DisconnectedIsAbstractStep ==
    ASSUME LinkInv, socket # "unconnected", socket # "connecting",
           socket = "closing" => isConnected,
           NEW before, NEW after, NEW failed \in BOOLEAN,
           SocketDisconnected(before, after, failed), UNCHANGED barred
    PROVE  Promise!Next
<1>1. isConnected' = FALSE
  BY DEF SocketDisconnected
<1>2. CASE Retries
  <2>1. socket' = "connecting" /\ redials' = redials + 1
    BY <1>2 DEF SocketDisconnected
  <2>2. Phase' = "trying"
    BY <1>1, <2>1 DEF Phase
  <2>3. Phase # "offline"
    BY DEF Phase, LinkInv, Links, Sockets
  <2> QED
    BY <1>2, <2>1, <2>2, <2>3, RetryCounts, BarredDoesNotRetry
    DEF Promise!Next, Promise!Redial
<1>3. CASE ~Retries
  <2>1. socket' = "unconnected" /\ UNCHANGED redials
    BY <1>3 DEF SocketDisconnected
  <2>2. Phase' = "offline"
    BY <1>1, <2>1 DEF Phase
  <2> QED
    BY <2>1, <2>2 DEF Promise!Next, Promise!HangUp
<1> QED
  BY <1>2, <1>3

Good == LinkInv' /\ (Promise!Next \/ UNCHANGED <<Phase, redials, barred>>)

LEMMA QuietStep ==
    ASSUME LinkInv, UNCHANGED <<linkVars, stateVars, history>>
    PROVE  Good
<1>1. UNCHANGED <<socket, handshake, key, isConnected, isDisconnecting, attempts,
                  redials, barred>>
  BY DEF linkVars, stateVars, history
<1>2. Links'
  BY <1>1 DEF LinkInv, Links
<1>3. Coherent'
  BY <1>1 DEF LinkInv, Coherent, ConnectedIsAuthenticated
<1>4. Counted'
  BY <1>1 DEF LinkInv, Counted, UnderWay
<1>5. StaysBarred'
  BY <1>1 DEF LinkInv, StaysBarred
<1>6. UNCHANGED Phase
  BY <1>1 DEF Phase
<1> QED
  BY <1>1, <1>2, <1>3, <1>4, <1>5, <1>6 DEF Good, LinkInv

LEMMA Lost ==
    ASSUME LinkInv, socket \in {"connected", "closing"},
           NEW before, NEW after, NEW failed \in BOOLEAN,
           SocketDisconnected(before, after, failed),
           failed <=> handshake # "none",
           handshake' = "none", UNCHANGED <<key, barred>>
    PROVE  Good
<1>1. socket # "unconnected" /\ socket # "connecting"
  OBVIOUS
<1>2. socket = "closing" => isConnected
  BY DEF LinkInv, Coherent
<1>3. LinkInv'
  BY <1>1, DisconnectedTypes, DisconnectedCoherent, DisconnectedCounted
  DEF LinkInv
<1>4. Promise!Next
  BY <1>1, <1>2, DisconnectedIsAbstractStep
<1> QED
  BY <1>3, <1>4 DEF Good

LEMMA LossStep ==
    ASSUME LinkInv, RemoteCloses \/ SocketCloses \/ RemoteClosesInHandshake
    PROVE  Good
<1>1. CASE RemoteCloses
  BY <1>1, Lost DEF RemoteCloses
<1>2. CASE SocketCloses
  <2>1. handshake = "none" /\ UNCHANGED handshake
    BY <1>2 DEF SocketCloses, LinkInv, Coherent
  <2> QED
    BY <1>2, <2>1, Lost DEF SocketCloses
<1>3. CASE RemoteClosesInHandshake
  <2>1. socket = "connected"
    BY <1>3 DEF RemoteClosesInHandshake, LinkInv, Coherent
  <2> QED
    BY <1>3, <2>1, Lost DEF RemoteClosesInHandshake
<1> QED
  BY <1>1, <1>2, <1>3

-----------------------------------------------------------------------------
(* Connecting and the handshake.                                           *)

LEMMA SocketOnErrorStep ==
    ASSUME LinkInv, SocketOnError
    PROVE  Good
<1>1. /\ socket' = "unconnected"
      /\ UNCHANGED <<handshake, key, isConnected, isDisconnecting, attempts,
                     redials, barred>>
  BY DEF SocketOnError, stateVars, history
<1>2. socket = "connecting"
  BY DEF SocketOnError
<1>3. ~isConnected /\ handshake = "none"
  BY <1>2 DEF LinkInv, Coherent, ConnectedIsAuthenticated
<1>4. Links'
  BY <1>1 DEF LinkInv, Links, Sockets
<1>5. Coherent'
  BY <1>1, <1>3 DEF Coherent, ConnectedIsAuthenticated
<1>6. Counted' /\ StaysBarred'
  BY <1>1 DEF Counted, StaysBarred
<1>7. Phase' = "offline"
  BY <1>1, <1>3 DEF Phase
<1> QED
  BY <1>1, <1>4, <1>5, <1>6, <1>7
  DEF Good, LinkInv, Promise!Next, Promise!HangUp

LEMMA SocketConnectedStep ==
    ASSUME LinkInv, SocketConnected
    PROVE  Good
<1>1. /\ socket = "connecting" /\ socket' = "connected" /\ handshake' = "hello"
      /\ key' = IF key = "current" THEN "old" ELSE key
      /\ UNCHANGED <<isConnected, isDisconnecting, attempts, redials, barred>>
  BY DEF SocketConnected, stateVars, history
<1>2. ~isConnected
  BY <1>1 DEF LinkInv, Coherent, ConnectedIsAuthenticated
<1>3. Links'
  BY <1>1 DEF LinkInv, Links, Sockets, Handshakes, Keys
<1>4. Coherent'
  BY <1>1, <1>2 DEF Coherent, ConnectedIsAuthenticated
<1>5. Counted'
  BY <1>1 DEF LinkInv, Counted, UnderWay
<1>6. StaysBarred'
  BY <1>1, <1>2 DEF LinkInv, StaysBarred
<1>7. UNCHANGED Phase
  BY <1>1, <1>2 DEF Phase
<1> QED
  BY <1>1, <1>3, <1>4, <1>5, <1>6, <1>7 DEF Good, LinkInv

LEMMA InHandshake ==
    ASSUME LinkInv, handshake # "none"
    PROVE  socket = "connected" /\ ~isConnected /\ ~barred
<1>1. socket = "connected" /\ ~isConnected
  BY DEF LinkInv, Coherent, ConnectedIsAuthenticated
<1>2. ~barred
  BY <1>1 DEF LinkInv, StaysBarred
<1> QED
  BY <1>1, <1>2

LEMMA AcceptServerHelloStep ==
    ASSUME LinkInv, AcceptServerHello
    PROVE  Good
<1>1. /\ handshake = "hello" /\ handshake' = "authentication" /\ key' = "current"
      /\ UNCHANGED <<socket, isConnected, isDisconnecting, attempts, redials, barred>>
  BY DEF AcceptServerHello, stateVars, history
<1>2. socket = "connected" /\ ~isConnected /\ ~barred
  BY <1>1, InHandshake
<1>3. Links'
  BY <1>1 DEF LinkInv, Links, Handshakes, Keys
<1>4. Coherent'
  BY <1>1, <1>2 DEF Coherent, ConnectedIsAuthenticated
<1>5. Counted'
  BY <1>1 DEF LinkInv, Counted, UnderWay
<1>6. StaysBarred'
  BY <1>1, <1>2 DEF StaysBarred
<1>7. UNCHANGED Phase
  BY <1>1 DEF Phase
<1> QED
  BY <1>1, <1>3, <1>4, <1>5, <1>6, <1>7 DEF Good, LinkInv

LEMMA HandshakeFinishedStep ==
    ASSUME LinkInv, HandshakeFinished
    PROVE  Good
<1>1. /\ handshake = "authentication" /\ handshake' = "none"
      /\ attempts' = 0 /\ isConnected' = TRUE /\ redials' = 0
      /\ UNCHANGED <<socket, key, isDisconnecting, barred>>
  BY DEF HandshakeFinished
<1>2. socket = "connected" /\ ~isConnected /\ ~barred /\ key = "current"
  BY <1>1, InHandshake DEF LinkInv, Coherent
<1>3. Links'
  <2>1. attempts' \in 0 .. CountLimit /\ redials' \in Nat
    BY <1>1, ConnectionAssumption
  <2> QED
    BY <1>1, <2>1 DEF LinkInv, Links, Handshakes
<1>4. Coherent'
  BY <1>1, <1>2 DEF Coherent, ConnectedIsAuthenticated
<1>5. Counted'
  BY <1>1 DEF Counted
<1>6. StaysBarred'
  BY <1>1, <1>2 DEF StaysBarred
<1>7. Phase = "trying" /\ Phase' = "online"
  BY <1>1, <1>2 DEF Phase
<1> QED
  BY <1>1, <1>3, <1>4, <1>5, <1>6, <1>7
  DEF Good, LinkInv, Promise!Next, Promise!Answer

LEMMA HandshakeFailsStep ==
    ASSUME LinkInv, HandshakeFails
    PROVE  Good
<1>1. /\ handshake # "none" /\ handshake' = "none" /\ attempts' = Add(attempts)
      /\ key' \in {key, "current"}
      /\ UNCHANGED <<socket, isConnected, isDisconnecting, redials, barred>>
  BY DEF HandshakeFails, history
<1>2. socket = "connected" /\ ~isConnected /\ ~barred
  BY <1>1, InHandshake
<1>3. attempts \in 0 .. CountLimit /\ redials \in Nat
  BY DEF LinkInv, Links
<1>4. Links'
  <2>1. attempts' \in 0 .. CountLimit
    BY <1>1, <1>3, AddIsBounded
  <2> QED
    BY <1>1, <2>1 DEF LinkInv, Links, Handshakes, Keys
<1>5. Coherent'
  BY <1>1, <1>2 DEF Coherent, ConnectedIsAuthenticated
<1>6. Counted'
  <2>1. CASE redials = 0
    BY <1>1, <2>1 DEF Counted
  <2>2. CASE redials # 0
    <3>1. attempts <= 3 /\ redials <= attempts + 1
      BY <1>1, <1>2, <2>2 DEF LinkInv, Counted, UnderWay
    <3>2. Add(attempts) = attempts + 1
      BY <1>3, <3>1, AddIsBounded, ConnectionAssumption
    <3>3. attempts' <= 4 /\ redials' <= attempts'
      BY <1>1, <1>3, <3>1, <3>2
    <3>4. ~isConnected' /\ ~UnderWay'
      BY <1>1, <1>2 DEF UnderWay
    <3> QED
      BY <3>3, <3>4 DEF Counted
  <2> QED
    BY <2>1, <2>2
<1>7. StaysBarred'
  BY <1>1, <1>2 DEF StaysBarred
<1>8. UNCHANGED Phase
  BY <1>1 DEF Phase
<1> QED
  BY <1>1, <1>4, <1>5, <1>6, <1>7, <1>8 DEF Good, LinkInv

-----------------------------------------------------------------------------
(* Calls from the user interface.                                          *)

LEMMA ConnectToServerStep ==
    ASSUME LinkInv, ConnectToServer
    PROVE  Good
<1>1. /\ handshake = "none" /\ UNCHANGED <<handshake, key>>
      /\ isConnected' = FALSE /\ isDisconnecting' = FALSE
      /\ socket' = "connecting" /\ redials' = 0 /\ barred' = FALSE
  BY DEF ConnectToServer, Take
<1>2. Links'
  <2>1. attempts' \in 0 .. CountLimit /\ redials' \in Nat
    BY <1>1, ConnectionAssumption DEF ConnectToServer, LinkInv, Links
  <2> QED
    BY <1>1, <2>1 DEF LinkInv, Links, Sockets
<1>3. Coherent'
  BY <1>1 DEF Coherent, ConnectedIsAuthenticated
<1>4. Counted' /\ StaysBarred'
  BY <1>1 DEF Counted, StaysBarred
<1>5. Phase' = "trying"
  BY <1>1 DEF Phase
<1> QED
  BY <1>1, <1>2, <1>3, <1>4, <1>5
  DEF Good, LinkInv, Promise!Next, Promise!Dial

LEMMA DisconnectFromServerStep ==
    ASSUME LinkInv, DisconnectFromServer
    PROVE  Good
<1>1. UNCHANGED <<handshake, key, isConnected, attempts, redials>>
  BY DEF DisconnectFromServer
<1>2. CASE isConnected
  <2>1. isDisconnecting' = TRUE /\ socket' = "closing" /\ barred' = TRUE
    BY <1>2 DEF DisconnectFromServer
  <2>2. handshake = "none" /\ key = "current"
    BY <1>2 DEF LinkInv, Coherent, ConnectedIsAuthenticated
  <2>3. Links'
    BY <1>1, <2>1 DEF LinkInv, Links, Sockets
  <2>4. Coherent'
    BY <1>1, <1>2, <2>1, <2>2 DEF Coherent, ConnectedIsAuthenticated
  <2>5. redials = 0
    BY <1>2, <2>2 DEF LinkInv, Coherent, ConnectedIsAuthenticated, Counted
  <2>6. Counted' /\ StaysBarred'
    BY <1>1, <1>2, <2>1, <2>5 DEF Counted, StaysBarred
  <2>7. Phase = "online" /\ UNCHANGED Phase
    BY <1>1, <1>2 DEF Phase
  <2> QED
    BY <1>1, <2>1, <2>3, <2>4, <2>6, <2>7
    DEF Good, LinkInv, Promise!Next, Promise!Bar
<1>3. CASE ~isConnected
  <2>1. UNCHANGED <<linkVars, stateVars, history>>
    BY <1>1, <1>3 DEF DisconnectFromServer, linkVars, stateVars, history
  <2> QED
    BY <2>1, QuietStep
<1> QED
  BY <1>2, <1>3

LEMMA DuplicateConnectionStep ==
    ASSUME LinkInv, DuplicateConnection
    PROVE  Good
<1>1. /\ isConnected /\ socket = "connected" /\ handshake = "none"
      /\ attempts' = CountLimit /\ barred' = TRUE
      /\ UNCHANGED <<socket, handshake, key, isConnected, isDisconnecting, redials>>
  BY DEF DuplicateConnection, linkVars
<1>2. attempts' \in 0 .. CountLimit /\ attempts' >= MaxAttempts
  BY <1>1, ConnectionAssumption DEF MaxAttempts
<1>3. Links'
  BY <1>1, <1>2 DEF LinkInv, Links
<1>4. Coherent'
  BY <1>1 DEF LinkInv, Coherent, ConnectedIsAuthenticated
<1>5. redials = 0
  BY <1>1 DEF LinkInv, Counted
<1>6. Counted'
  BY <1>1, <1>5 DEF Counted
<1>7. StaysBarred'
  BY <1>1, <1>2 DEF StaysBarred
<1>8. Phase = "online" /\ UNCHANGED Phase
  BY <1>1 DEF Phase
<1> QED
  BY <1>1, <1>3, <1>4, <1>6, <1>7, <1>8
  DEF Good, LinkInv, Promise!Next, Promise!Bar

LEMMA NewProtocolClientStep ==
    ASSUME LinkInv, NewProtocolClient, handshake = "none",
           UNCHANGED <<handshake, history>>
    PROVE  Good
<1>1. /\ socket' = "unconnected" /\ key' = "none" /\ isConnected' = FALSE
      /\ isDisconnecting' = FALSE /\ attempts' = 0 /\ handshake' = "none"
      /\ UNCHANGED <<redials, barred>>
  BY DEF NewProtocolClient, history
<1>2. Links'
  <2>1. attempts' \in 0 .. CountLimit
    BY <1>1, ConnectionAssumption
  <2> QED
    BY <1>1, <2>1 DEF LinkInv, Links, Sockets, Handshakes, Keys
<1>3. Coherent' /\ Counted' /\ StaysBarred'
  BY <1>1 DEF Coherent, ConnectedIsAuthenticated, Counted, StaysBarred
<1>4. Phase' = "offline"
  BY <1>1 DEF Phase
<1> QED
  BY <1>1, <1>2, <1>3, <1>4 DEF Good, LinkInv, Promise!Next, Promise!HangUp

LEMMA TeardownStep ==
    ASSUME LinkInv, Teardown
    PROVE  Good
BY NewProtocolClientStep DEF Teardown, Take

-----------------------------------------------------------------------------
(* The user interface.                                                     *)

(* Nothing is connected before the first click. *)
Unused == client = "none" => socket = "unconnected"

LEMMA ClickConnectStep ==
    ASSUME LinkInv, Unused, ClickConnect
    PROVE  Good
<1>1. UNCHANGED <<handshake, history>>
  BY DEF ClickConnect
<1>2. CASE client = "none"
  <2>1. handshake = "none"
    BY <1>2 DEF Unused, LinkInv, Coherent
  <2> QED
    BY <1>1, <1>2, <2>1, NewProtocolClientStep DEF ClickConnect
<1>3. CASE client # "none" /\ ~isConnected
  <2>1. UNCHANGED <<key, isConnected, attempts>>
    BY <1>3 DEF ClickConnect
  <2>2. UNCHANGED <<socket, isDisconnecting>>
    BY <1>3 DEF ClickConnect, LinkInv, Links
  <2> QED
    BY <1>1, <2>1, <2>2, QuietStep DEF linkVars, stateVars
<1>4. CASE client # "none" /\ isConnected
  <2>1. /\ socket' = "closing" /\ isDisconnecting' = TRUE
        /\ UNCHANGED <<handshake, key, isConnected, attempts, redials, barred>>
    BY <1>1, <1>4 DEF ClickConnect, history
  <2>2. handshake = "none" /\ key = "current" /\ redials = 0
    BY <1>4 DEF LinkInv, Coherent, ConnectedIsAuthenticated, Counted
  <2>3. Links'
    BY <2>1 DEF LinkInv, Links, Sockets
  <2>4. Coherent'
    BY <1>4, <2>1, <2>2 DEF Coherent, ConnectedIsAuthenticated
  <2>5. Counted' /\ StaysBarred'
    BY <1>4, <2>1, <2>2 DEF Counted, StaysBarred
  <2>6. UNCHANGED Phase
    BY <1>4, <2>1 DEF Phase
  <2> QED
    BY <2>1, <2>3, <2>4, <2>5, <2>6 DEF Good, LinkInv
<1> QED
  BY <1>2, <1>3, <1>4

(* What only the user interface and the queues take part in. *)
LEMMA UiOnlyStep ==
    ASSUME LinkInv, Setup \/ UiStep \/ ClickDisconnect \/ DismissBox
                    \/ DecryptionFails \/ UNCHANGED vars
    PROVE  Good
<1>1. CASE Setup \/ SetupReturns \/ ClickDisconnect \/ DismissBox
           \/ DecryptionFails
  BY <1>1, QuietStep
  DEF Setup, SetupReturns, ClickDisconnect, DismissBox, DecryptionFails
<1>2. CASE OnReadyConnect \/ OnLostConnection \/ OnConnectToFinished
  BY <1>2, QuietStep
  DEF OnReadyConnect, OnLostConnection, OnConnectToFinished, Handle
<1>3. CASE OnConnectToFinishedFailed \/ OnDuplicateIdUsageDetected
  BY <1>3, QuietStep
  DEF OnConnectToFinishedFailed, OnDuplicateIdUsageDetected, Handle
<1>4. CASE UNCHANGED vars
  BY <1>4, QuietStep DEF vars
<1> QED
  BY <1>1, <1>2, <1>3, <1>4 DEF UiStep

LEMMA UnusedIsKept ==
    ASSUME LinkInv, Unused, [Next]_vars
    PROVE  Unused'
<1> SUFFICES ASSUME client' = "none"
             PROVE  socket' = "unconnected"
  BY DEF Unused
<1>1. CASE client # "none"
  <2>1. UNCHANGED client \/ client' # "none"
    BY DEF Next, UiStep, CallStep, HandshakeStep, SetupReturns, OnReadyConnect,
       OnLostConnection, OnConnectToFinished, OnConnectToFinishedFailed,
       OnDuplicateIdUsageDetected, Handle, ConnectToServer, DisconnectFromServer,
       Teardown, NewProtocolClient, Setup, AcceptServerHello, HandshakeFinished,
       HandshakeFails, RemoteClosesInHandshake, SocketOnError, SocketConnected,
       SocketCloses, RemoteCloses, DuplicateConnection, DecryptionFails,
       ClickConnect, ClickDisconnect, DismissBox, vars
  <2> QED
    BY <1>1, <2>1
<1>2. CASE client = "none"
  <2>1. socket = "unconnected" /\ handshake = "none" /\ ~isConnected
    BY <1>2 DEF Unused, LinkInv, Coherent, ConnectedIsAuthenticated
  <2>2. CASE UiStep \/ UNCHANGED vars
    BY <2>1, <2>2 DEF UiStep, SetupReturns, OnReadyConnect, OnLostConnection,
       OnConnectToFinished, OnConnectToFinishedFailed,
       OnDuplicateIdUsageDetected, Handle, vars, linkVars
  <2>3. CASE CallStep
    BY <1>2, <2>1, <2>3 DEF CallStep, ConnectToServer, DisconnectFromServer,
       Teardown, Setup, Take
  <2>4. CASE HandshakeStep
    BY <2>1, <2>4 DEF HandshakeStep, AcceptServerHello, HandshakeFinished,
       HandshakeFails, RemoteClosesInHandshake
  <2>5. CASE SocketOnError \/ SocketConnected \/ SocketCloses \/ RemoteCloses
             \/ DuplicateConnection \/ DecryptionFails
    BY <2>1, <2>5 DEF SocketOnError, SocketConnected, SocketCloses, RemoteCloses,
       DuplicateConnection, DecryptionFails
  <2>6. CASE ClickConnect \/ ClickDisconnect \/ DismissBox
    BY <1>2, <2>1, <2>6 DEF ClickConnect, NewProtocolClient, ClickDisconnect,
       DismissBox, linkVars
  <2> QED
    BY <2>2, <2>3, <2>4, <2>5, <2>6 DEF Next
<1> QED
  BY <1>1, <1>2

-----------------------------------------------------------------------------
LEMMA EveryStepIsGood ==
    ASSUME LinkInv, Unused, [Next]_vars
    PROVE  Good
<1>1. CASE RemoteCloses \/ SocketCloses \/ RemoteClosesInHandshake
  BY <1>1, LossStep
<1>2. CASE AcceptServerHello \/ HandshakeFinished \/ HandshakeFails
  BY <1>2, AcceptServerHelloStep, HandshakeFinishedStep, HandshakeFailsStep
<1>3. CASE SocketOnError \/ SocketConnected \/ DuplicateConnection
  BY <1>3, SocketOnErrorStep, SocketConnectedStep, DuplicateConnectionStep
<1>4. CASE ConnectToServer \/ DisconnectFromServer \/ Teardown
  BY <1>4, ConnectToServerStep, DisconnectFromServerStep, TeardownStep
<1>5. CASE ClickConnect
  BY <1>5, ClickConnectStep
<1>6. CASE Setup \/ UiStep \/ ClickDisconnect \/ DismissBox
           \/ DecryptionFails \/ UNCHANGED vars
  BY <1>6, UiOnlyStep
<1> QED
  BY <1>1, <1>2, <1>3, <1>4, <1>5, <1>6 DEF Next, CallStep, HandshakeStep

(* A client that calls itself connected has authenticated on the           *)
(* connection it has, whatever clicks, losses and replies came before      *)
(* (ProtocolClient::socketConnected, connectToServer, socketDisconnected). *)
THEOREM ConnectedIsAlwaysAuthenticated == Spec => []ConnectedIsAuthenticated
<1>1. Init => LinkInv /\ Unused
  BY InitHasLinkInv DEF Init, Unused
<1>2. LinkInv /\ Unused /\ [Next]_vars => LinkInv' /\ Unused'
  BY EveryStepIsGood, UnusedIsKept DEF Good
<1>3. LinkInv => ConnectedIsAuthenticated
  BY DEF LinkInv, Coherent
<1> QED
  BY <1>1, <1>2, <1>3, PTL DEF Spec

(* Clicks, reconnects after losses and the handshake together do no more   *)
(* than Session allows: at most four automatic attempts in a row, and none *)
(* after the user has hung up or the server has warned of a second device. *)
THEOREM ConnectionImplementsSession == Spec => ImplementsSession
<1>1. Init => LinkInv /\ Unused
  BY InitHasLinkInv DEF Init, Unused
<1>2. Init => Promise!Init
  BY DEF Init, Promise!Init, Phase
<1>3. LinkInv /\ Unused /\ [Next]_vars => LinkInv' /\ Unused'
  BY EveryStepIsGood, UnusedIsKept DEF Good
<1>4. LinkInv /\ Unused /\ [Next]_vars => [Promise!Next]_(Promise!vars)
  BY EveryStepIsGood DEF Good, Promise!vars
<1> QED
  BY <1>1, <1>2, <1>3, <1>4, PTL DEF Spec, ImplementsSession, Promise!Spec

-----------------------------------------------------------------------------
(* What the main window shows.  Every signal but "duplicate" says what is  *)
(* to be shown, and the last one in the queue decides.                     *)

WillShow(queue, now, online) ==
    \/ /\ \A i \in DOMAIN queue : queue[i] = "duplicate"
       /\ online = (now = "connected")
    \/ \E i \in DOMAIN queue :
          /\ queue[i] # "duplicate"
          /\ online = (queue[i] = "connected")
          /\ \A j \in DOMAIN queue : j > i => queue[j] = "duplicate"

(* A client that is ready and listened to has told all it is.  One that is *)
(* not listened to is about to be torn down, and a new one is going to say *)
(* that it is ready; both times setupProtocolClient is waiting for it.     *)
Told ==
    /\ client = "none" =>
          /\ signals = <<>> /\ shown = "disconnected" /\ ~isConnected
    /\ client = "new" =>
          /\ ~isConnected /\ socket = "unconnected"
          /\ setup \in {"setupDone", "teardown"}
    /\ client # "none" /\ ~listening => setup = "teardown"
    /\ client = "ready" /\ listening => WillShow(signals, shown, isConnected)

ShownInv == TypeOK /\ Told

LEMMA LastSignalDecides ==
    ASSUME NEW q \in Seq(Signals), NEW u \in Seq(Signals), NEW now,
           u # <<>>, u[Len(u)] # "duplicate"
    PROVE  /\ q \o u \in Seq(Signals)
           /\ WillShow(q \o u, now, u[Len(u)] = "connected")
<1>1. /\ q \o u \in Seq(Signals) /\ Len(q \o u) = Len(q) + Len(u)
      /\ Len(u) \in 1 .. Len(u) /\ Len(q) \in Nat /\ Len(u) \in Nat
  OBVIOUS
<1>2. (q \o u)[Len(q) + Len(u)] = u[Len(u)]
  BY <1>1
<1>3. DOMAIN (q \o u) = 1 .. (Len(q) + Len(u))
  BY <1>1
<1>4. Len(q) + Len(u) \in DOMAIN (q \o u)
  BY <1>1, <1>3
<1>5. \A j \in DOMAIN (q \o u) : ~(j > Len(q) + Len(u))
  BY <1>1, <1>3
<1> QED
  BY <1>1, <1>2, <1>4, <1>5 DEF WillShow

LEMMA WarningDecidesNothing ==
    ASSUME NEW q \in Seq(Signals), NEW now, NEW online,
           WillShow(q, now, online)
    PROVE  WillShow(q \o <<"duplicate">>, now, online)
<1> DEFINE r == q \o <<"duplicate">>
<1>1. /\ DOMAIN q = 1 .. Len(q) /\ DOMAIN r = 1 .. Len(q) + 1 /\ Len(q) \in Nat
      /\ r[Len(q) + 1] = "duplicate" /\ \A i \in 1 .. Len(q) : r[i] = q[i]
  OBVIOUS
<1> HIDE DEF r
<1>2. CASE (\A i \in DOMAIN q : q[i] = "duplicate") /\ online = (now = "connected")
  BY <1>1, <1>2 DEF WillShow
<1>3. CASE \E i \in DOMAIN q : /\ q[i] # "duplicate"
                               /\ online = (q[i] = "connected")
                               /\ \A j \in DOMAIN q : j > i => q[j] = "duplicate"
  <2>1. PICK i \in DOMAIN q : /\ q[i] # "duplicate"
                              /\ online = (q[i] = "connected")
                              /\ \A j \in DOMAIN q : j > i => q[j] = "duplicate"
    BY <1>3
  <2>2. i \in DOMAIN r /\ r[i] = q[i]
    BY <1>1, <2>1
  <2>3. \A j \in DOMAIN r : j > i => r[j] = "duplicate"
    BY <1>1, <2>1
  <2> QED
    BY <2>1, <2>2, <2>3 DEF WillShow
<1>4. \/ (\A i \in DOMAIN q : q[i] = "duplicate") /\ online = (now = "connected")
      \/ \E i \in DOMAIN q : /\ q[i] # "duplicate"
                             /\ online = (q[i] = "connected")
                             /\ \A j \in DOMAIN q : j > i => q[j] = "duplicate"
  BY DEF WillShow
<1> QED
  BY <1>2, <1>3, <1>4

LEMMA HandledSignal ==
    ASSUME NEW q \in Seq(Signals), q # <<>>, NEW now, NEW next, NEW online,
           Head(q) # "duplicate" => (next = "connected") = (Head(q) = "connected"),
           Head(q) = "duplicate" => next = now,
           WillShow(q, now, online)
    PROVE  WillShow(Tail(q), next, online)
<1>1. /\ DOMAIN q = 1 .. Len(q) /\ DOMAIN Tail(q) = 1 .. Len(q) - 1
      /\ Len(q) \in Nat /\ Len(q) > 0 /\ Head(q) = q[1]
      /\ \A i \in 1 .. Len(q) - 1 : Tail(q)[i] = q[i + 1]
  OBVIOUS
<1>2. CASE (\A i \in DOMAIN q : q[i] = "duplicate") /\ online = (now = "connected")
  <2>1. Head(q) = "duplicate" /\ next = now
    BY <1>1, <1>2
  <2>2. \A i \in DOMAIN Tail(q) : Tail(q)[i] = "duplicate"
    BY <1>1, <1>2
  <2> QED
    BY <1>2, <2>1, <2>2 DEF WillShow
<1>3. CASE \E i \in DOMAIN q : /\ q[i] # "duplicate"
                               /\ online = (q[i] = "connected")
                               /\ \A j \in DOMAIN q : j > i => q[j] = "duplicate"
  <2>1. PICK i \in DOMAIN q : /\ q[i] # "duplicate"
                              /\ online = (q[i] = "connected")
                              /\ \A j \in DOMAIN q : j > i => q[j] = "duplicate"
    BY <1>3
  <2>2. \A j \in DOMAIN Tail(q) : j > i - 1 => Tail(q)[j] = "duplicate"
    BY <1>1, <2>1
  <2>3. CASE i = 1
    <3>1. \A j \in DOMAIN Tail(q) : Tail(q)[j] = "duplicate"
      BY <1>1, <2>2, <2>3
    <3> QED
      BY <1>1, <2>1, <2>3, <3>1 DEF WillShow
  <2>4. CASE i # 1
    <3>1. i - 1 \in DOMAIN Tail(q) /\ Tail(q)[i - 1] = q[i]
      BY <1>1, <2>1, <2>4
    <3> QED
      BY <2>1, <2>2, <3>1 DEF WillShow
  <2> QED
    BY <2>3, <2>4
<1> QED
  BY <1>2, <1>3 DEF WillShow

LEMMA NothingQueued ==
    ASSUME NEW now, NEW online, WillShow(<<>>, now, online)
    PROVE  online = (now = "connected")
BY DEF WillShow

-----------------------------------------------------------------------------
(* Types of what the user interface and the queues hold.                   *)

UiTypes ==
    /\ app \in {"running", "quit"}
    /\ shown \in {"disconnected", "connected"}
    /\ button \in [text: Texts, enabled: BOOLEAN]
    /\ boxes \in Seq({"failed", "duplicate"})
    /\ setup \in {"none", "teardown", "setupDone", "quit"}
    /\ setups \in Nat
    /\ signals \in Seq(Signals)
    /\ calls \in Seq(Calls)
    /\ client \in {"none", "new", "ready"}
    /\ listening \in BOOLEAN /\ reconnects \in BOOLEAN

LEMMA TypesTogether == TypeOK <=> UiTypes /\ Links
BY DEF TypeOK, UiTypes, Links, Signals, Calls, Sockets, Handshakes, Keys

LEMMA ButtonTypes ==
    ASSUME NEW text \in Texts, NEW enabled \in BOOLEAN
    PROVE  Button(text, enabled) \in [text: Texts, enabled: BOOLEAN]
BY DEF Button

(* What a protocol client tells ends in what it is now; the signals of a   *)
(* client that is not listened to are dropped.                             *)
LEMMA TellingStep ==
    ASSUME UiTypes, Told, LinkInv, NEW some \in Seq(Signals), Emit(some),
           some # <<>>, some[Len(some)] # "duplicate",
           isConnected' = (some[Len(some)] = "connected"),
           client = "ready", UNCHANGED <<client, listening, shown, setup>>
    PROVE  signals' \in Seq(Signals) /\ Told'
<1>1. signals \in Seq(Signals)
  BY DEF UiTypes
<1>2. CASE listening
  <2>1. signals' = signals \o some
    BY <1>2 DEF Emit
  <2>2. signals' \in Seq(Signals) /\ WillShow(signals', shown, isConnected')
    BY <1>1, <2>1, LastSignalDecides
  <2> QED
    BY <1>2, <2>2 DEF Told
<1>3. CASE ~listening
  BY <1>1, <1>3 DEF Emit, Told, UiTypes
<1> QED
  BY <1>2, <1>3

LEMMA SilentStep ==
    ASSUME Told, UNCHANGED <<client, signals, shown, isConnected, setup, listening>>,
           client = "new" => socket' = "unconnected"
    PROVE  Told'
BY DEF Told

LEMMA ClientIsReady ==
    ASSUME UiTypes, Told, Unused, socket # "unconnected"
    PROVE  client = "ready"
BY DEF UiTypes, Told, Unused

LEMMA HandshakeNeedsSocket ==
    ASSUME LinkInv, handshake # "none" \/ isConnected
    PROVE  socket # "unconnected"
BY DEF LinkInv, Coherent, ConnectedIsAuthenticated

LEMMA NetworkTypes ==
    ASSUME UiTypes, UNCHANGED <<uiVars, client, listening, reconnects>>,
           app' \in {"running", "quit"}, signals' \in Seq(Signals),
           calls' \in Seq(Calls)
    PROVE  UiTypes'
BY DEF UiTypes, uiVars

-----------------------------------------------------------------------------
(* The network thread's steps.                                             *)

KeepsShown == UiTypes' /\ Told'

LEMMA TellingNetworkStep ==
    ASSUME UiTypes, Told, LinkInv, NEW some \in Seq(Signals), Emit(some),
           some # <<>>, some[Len(some)] # "duplicate",
           isConnected' = (some[Len(some)] = "connected"), client = "ready",
           UNCHANGED <<app, uiVars, client, listening, reconnects>>,
           calls' \in Seq(Calls)
    PROVE  KeepsShown
<1>1. signals' \in Seq(Signals) /\ Told'
  BY TellingStep DEF uiVars
<1>2. UiTypes'
  BY <1>1, NetworkTypes DEF UiTypes
<1> QED
  BY <1>1, <1>2 DEF KeepsShown

LEMMA DisconnectedTells ==
    ASSUME UiTypes, Told, LinkInv, client = "ready",
           NEW failed \in BOOLEAN,
           \/ SocketDisconnected(<<"failed">>, <<>>, failed)
           \/ SocketDisconnected(<<"failed">>, <<"failed">>, failed)
           \/ SocketDisconnected(<<>>, <<>>, failed) /\ isDisconnecting,
           UNCHANGED <<app, uiVars, calls, client, listening, reconnects>>
    PROVE  KeepsShown
<1>1. isConnected' = FALSE /\ calls' \in Seq(Calls)
  BY DEF SocketDisconnected, UiTypes
<1> DEFINE Ends(some) == /\ some \in Seq(Signals) /\ some # <<>>
                         /\ some[Len(some)] \in {"failed", "lostConnection"}
<1>2. \A some : Ends(some) /\ Emit(some) => KeepsShown
  <2> SUFFICES ASSUME NEW some, Ends(some), Emit(some)
               PROVE  KeepsShown
    OBVIOUS
  <2>1. some[Len(some)] # "duplicate" /\ isConnected' = (some[Len(some)] = "connected")
    BY <1>1
  <2> HIDE DEF KeepsShown
  <2> QED
    BY <1>1, <2>1, TellingNetworkStep
<1>3. /\ "failed" \in Signals /\ "lostConnection" \in Signals
      /\ <<"failed">> \in Seq(Signals) /\ <<"lostConnection">> \in Seq(Signals)
      /\ <<>> \in Seq(Signals)
  BY DEF Signals
<1>4. CASE SocketDisconnected(<<"failed">>, <<>>, failed)
  <2>1. Ends(<<"failed">> \o <<>>)
    BY <1>3
  <2>2. Ends(<<"failed">> \o <<"lostConnection">> \o <<>>)
    BY <1>3
  <2>3. \/ Emit(<<"failed">> \o <<>>)
        \/ Emit(<<"failed">> \o <<"lostConnection">> \o <<>>)
    BY <1>4 DEF SocketDisconnected
  <2> QED
    BY <1>2, <2>1, <2>2, <2>3
<1>5. CASE SocketDisconnected(<<"failed">>, <<"failed">>, failed)
  <2>1. Ends(<<"failed">> \o <<"failed">>)
    BY <1>3
  <2>2. Ends(<<"failed">> \o <<"lostConnection">> \o <<"failed">>)
    BY <1>3
  <2>3. \/ Emit(<<"failed">> \o <<"failed">>)
        \/ Emit(<<"failed">> \o <<"lostConnection">> \o <<"failed">>)
    BY <1>5 DEF SocketDisconnected
  <2> QED
    BY <1>2, <2>1, <2>2, <2>3
<1>6. CASE SocketDisconnected(<<>>, <<>>, failed) /\ isDisconnecting
  <2>1. Ends(<<>> \o <<"lostConnection">> \o <<>>)
    BY <1>3
  <2>2. Emit(<<>> \o <<"lostConnection">> \o <<>>)
    BY <1>6 DEF SocketDisconnected, Retries
  <2> QED
    BY <1>2, <2>1, <2>2
<1> QED
  BY <1>4, <1>5, <1>6

LEMMA LossKeepsShown ==
    ASSUME UiTypes, Told, LinkInv, Unused,
           RemoteCloses \/ SocketCloses \/ RemoteClosesInHandshake
    PROVE  KeepsShown
<1>1. socket # "unconnected"
  BY HandshakeNeedsSocket DEF RemoteCloses, SocketCloses, RemoteClosesInHandshake
<1>2. client = "ready"
  BY <1>1, ClientIsReady
<1>3. CASE RemoteCloses
  BY <1>2, <1>3, DisconnectedTells DEF RemoteCloses
<1>4. CASE SocketCloses
  <2>1. isDisconnecting
    BY <1>4 DEF SocketCloses, LinkInv, Coherent
  <2> QED
    BY <1>2, <1>4, <2>1, DisconnectedTells DEF SocketCloses
<1>5. CASE RemoteClosesInHandshake
  BY <1>2, <1>5, DisconnectedTells DEF RemoteClosesInHandshake
<1> QED
  BY <1>3, <1>4, <1>5

LEMMA OneSignal ==
    ASSUME NEW s \in Signals
    PROVE  /\ <<s>> \in Seq(Signals) /\ <<s>> # <<>> /\ <<s>>[Len(<<s>>)] = s
           /\ <<s, s>> \in Seq(Signals) /\ <<s, s>> # <<>> /\ <<s, s>>[Len(<<s, s>>)] = s
OBVIOUS

LEMMA SingleTellingStep ==
    ASSUME UiTypes, Told, LinkInv, NEW s \in {"failed", "lostConnection", "connected"},
           Emit(<<s>>) \/ Emit(<<s, s>>),
           isConnected' = (s = "connected"), client = "ready",
           UNCHANGED <<app, uiVars, client, listening, reconnects>>,
           calls' \in Seq(Calls)
    PROVE  KeepsShown
<1>1. s \in Signals /\ s # "duplicate"
  BY DEF Signals
<1> HIDE DEF KeepsShown
<1>2. CASE Emit(<<s>>)
  BY <1>1, <1>2, OneSignal, TellingNetworkStep
<1>3. CASE Emit(<<s, s>>)
  BY <1>1, <1>3, OneSignal, TellingNetworkStep
<1> QED
  BY <1>2, <1>3

LEMMA HandshakeKeepsShown ==
    ASSUME UiTypes, Told, LinkInv, Unused,
           SocketOnError \/ HandshakeFinished \/ HandshakeFails
    PROVE  KeepsShown
<1>1. socket # "unconnected"
  BY HandshakeNeedsSocket DEF SocketOnError, HandshakeFinished, HandshakeFails
<1>2. client = "ready"
  BY <1>1, ClientIsReady
<1>3. calls' \in Seq(Calls)
  BY DEF SocketOnError, HandshakeFinished, HandshakeFails, UiTypes
<1>4. CASE SocketOnError
  <2>1. isConnected' = FALSE
    BY <1>4 DEF SocketOnError, stateVars, LinkInv, Coherent, ConnectedIsAuthenticated,
       Links
  <2> QED
    BY <1>2, <1>3, <1>4, <2>1, SingleTellingStep DEF SocketOnError
<1>5. CASE HandshakeFinished
  BY <1>2, <1>3, <1>5, SingleTellingStep DEF HandshakeFinished
<1>6. CASE HandshakeFails
  <2>1. isConnected' = FALSE
    BY <1>6, InHandshake DEF HandshakeFails, LinkInv, Links
  <2> QED
    BY <1>2, <1>3, <1>6, <2>1, SingleTellingStep DEF HandshakeFails
<1> QED
  BY <1>4, <1>5, <1>6

LEMMA TakeTypes ==
    ASSUME UiTypes, NEW call, Take(call)
    PROVE  calls' \in Seq(Calls)
BY DEF UiTypes, Take

LEMMA ConnectToServerKeepsShown ==
    ASSUME UiTypes, Told, LinkInv, ConnectToServer
    PROVE  KeepsShown
<1>1. /\ client = "ready" /\ isConnected' = FALSE /\ calls' \in Seq(Calls)
      /\ UNCHANGED <<app, uiVars, client, listening, reconnects>>
  BY TakeTypes DEF ConnectToServer, Take
<1>2. CASE socket \in {"unconnected", "connecting"}
  <2>1. UNCHANGED signals
    BY <1>2 DEF ConnectToServer
  <2>2. isConnected = FALSE
    BY <1>2 DEF LinkInv, Coherent, ConnectedIsAuthenticated, Links
  <2>3. Told'
    BY <1>1, <2>1, <2>2, SilentStep DEF uiVars
  <2>4. UiTypes'
    BY <1>1, <2>1, NetworkTypes DEF UiTypes
  <2> QED
    BY <2>3, <2>4 DEF KeepsShown
<1>3. CASE socket \in {"connected", "closing"}
  <2>1. Emit(<<"failed">>) \/ Emit(<<"lostConnection">>)
    BY <1>3 DEF ConnectToServer
  <2> QED
    BY <1>1, <2>1, SingleTellingStep
<1> QED
  BY <1>2, <1>3 DEF ConnectToServer

LEMMA SilentKeepsShown ==
    ASSUME UiTypes, Told, LinkInv, Unused,
           SocketConnected \/ AcceptServerHello \/ DisconnectFromServer
           \/ DecryptionFails \/ UNCHANGED vars
    PROVE  KeepsShown
<1>1. /\ app' \in {"running", "quit"} /\ calls' \in Seq(Calls)
      /\ UNCHANGED <<uiVars, signals, client, listening, reconnects, isConnected>>
  BY TakeTypes DEF SocketConnected, AcceptServerHello, DisconnectFromServer,
     DecryptionFails, vars, stateVars, UiTypes
<1>2. client = "new" => socket' = "unconnected"
  BY ClientIsReady, HandshakeNeedsSocket
  DEF SocketConnected, AcceptServerHello, DisconnectFromServer, Take,
      DecryptionFails, vars, linkVars, Told
<1>3. UiTypes'
  BY <1>1, NetworkTypes DEF UiTypes
<1>4. Told'
  BY <1>1, <1>2, SilentStep DEF uiVars
<1> QED
  BY <1>3, <1>4 DEF KeepsShown

LEMMA WarningKeepsShown ==
    ASSUME UiTypes, Told, Unused, DuplicateConnection
    PROVE  KeepsShown
<1>1. /\ UNCHANGED <<app, uiVars, calls, client, listening, reconnects, isConnected>>
      /\ socket = "connected" /\ Emit(<<"duplicate">>)
  BY DEF DuplicateConnection
<1>2. signals \in Seq(Signals) /\ <<"duplicate">> \in Seq(Signals)
  BY DEF UiTypes, Signals
<1>3. signals' \in Seq(Signals)
  BY <1>1, <1>2 DEF Emit
<1>4. UiTypes'
  BY <1>1, <1>3, NetworkTypes DEF UiTypes
<1>5. Told'
  <2>1. CASE client = "ready" /\ listening
    <3>1. WillShow(signals, shown, isConnected)
      BY <2>1 DEF Told
    <3>2. signals' = signals \o <<"duplicate">>
      BY <1>1, <2>1 DEF Emit
    <3>3. WillShow(signals', shown, isConnected)
      BY <1>2, <3>1, <3>2, WarningDecidesNothing
    <3>4. UNCHANGED <<client, listening, shown, isConnected>>
      BY <1>1 DEF uiVars
    <3> QED
      BY <2>1, <3>3, <3>4 DEF Told
  <2>2. client = "ready"
    BY <1>1, ClientIsReady
  <2>3. CASE ~listening
    BY <1>1, <2>2, <2>3 DEF Told, uiVars
  <2> QED
    BY <2>1, <2>2, <2>3
<1> QED
  BY <1>4, <1>5 DEF KeepsShown

-----------------------------------------------------------------------------
(* Replacing the protocol client.                                          *)

LEMMA TeardownKeepsShown ==
    ASSUME UiTypes, Told, Teardown
    PROVE  KeepsShown
<1>1. /\ calls' \in Seq(Calls) /\ client' = "new" /\ listening' = TRUE
      /\ socket' = "unconnected" /\ isConnected' = FALSE /\ setup' = "setupDone"
      /\ UNCHANGED <<app, shown, button, boxes, setups, signals, reconnects>>
  BY TakeTypes DEF Teardown, NewProtocolClient
<1>2. UiTypes'
  BY <1>1 DEF UiTypes
<1>3. Told'
  BY <1>1 DEF Told
<1> QED
  BY <1>2, <1>3 DEF KeepsShown

LEMMA SetupKeepsShown ==
    ASSUME UiTypes, Told, Setup
    PROVE  KeepsShown
<1>1. /\ client = "new" /\ client' = "ready" /\ Emit(<<"ready">>)
      /\ UNCHANGED <<app, uiVars, calls, listening, reconnects, isConnected>>
  BY DEF Setup, stateVars
<1>2. "ready" \in Signals /\ signals \in Seq(Signals)
  BY DEF Signals, UiTypes
<1>3. signals' \in Seq(Signals)
  BY <1>1, <1>2, OneSignal DEF Emit
<1>4. UiTypes'
  BY <1>1, <1>3 DEF UiTypes, uiVars
<1>5. Told'
  <2>1. CASE listening
    <3>1. signals' = signals \o <<"ready">>
      BY <1>1, <2>1 DEF Emit
    <3>2. WillShow(signals', shown, FALSE)
      BY <1>2, <3>1, OneSignal, LastSignalDecides
    <3>3. isConnected' = FALSE /\ shown' = shown
      BY <1>1 DEF Told, uiVars
    <3> QED
      BY <1>1, <2>1, <3>2, <3>3 DEF Told
  <2>2. CASE ~listening
    <3>1. setup = "teardown"
      BY <1>1, <2>2 DEF Told
    <3> QED
      BY <1>1, <2>2, <3>1 DEF Told, uiVars
  <2> QED
    BY <2>1, <2>2 DEF UiTypes
<1> QED
  BY <1>4, <1>5 DEF KeepsShown

LEMMA ClickConnectKeepsShown ==
    ASSUME UiTypes, Told, ClickConnect
    PROVE  KeepsShown
<1>1. /\ button' = Button("Connecting...", FALSE) /\ setups' = setups + 1
      /\ UNCHANGED <<app, shown, boxes, signals, reconnects>>
  BY DEF ClickConnect
<1>2. button' \in [text: Texts, enabled: BOOLEAN] /\ setups' \in Nat
  <2>1. "Connecting..." \in Texts /\ FALSE \in BOOLEAN
    BY DEF Texts
  <2>2. button' \in [text: Texts, enabled: BOOLEAN]
    BY <1>1, <2>1, ButtonTypes
  <2>3. setups' \in Nat
    BY <1>1 DEF UiTypes
  <2> QED
    BY <2>2, <2>3
<1>3. CASE client = "none"
  <2>1. /\ client' = "new" /\ listening' = TRUE /\ socket' = "unconnected"
        /\ isConnected' = FALSE /\ setup' = "setupDone" /\ UNCHANGED calls
    BY <1>3 DEF ClickConnect, NewProtocolClient
  <2> QED
    BY <1>1, <1>2, <2>1 DEF KeepsShown, UiTypes, Told
<1>4. CASE client # "none"
  <2>1. /\ listening' = FALSE /\ setup' = "teardown"
        /\ UNCHANGED <<client, isConnected>>
        /\ client = "new" => UNCHANGED socket
    BY <1>4 DEF ClickConnect, Told
  <2>2. calls' \in Seq(Calls)
    <3>1. calls \in Seq(Calls) /\ "teardown" \in Calls
      BY DEF UiTypes, Calls
    <3>2. calls' = Append(calls, "teardown")
      BY <1>4 DEF ClickConnect
    <3> QED
      BY <3>1, <3>2
  <2>3. UiTypes'
    BY <1>1, <1>2, <2>1, <2>2 DEF UiTypes
  <2>4. Told'
    BY <1>1, <1>4, <2>1 DEF Told
  <2> QED
    BY <2>3, <2>4 DEF KeepsShown
<1> QED
  BY <1>3, <1>4

-----------------------------------------------------------------------------
(* The user interface's steps.                                             *)

LEMMA HandledTypes ==
    ASSUME UiTypes, NEW s, Handle(s),
           shown' \in {"disconnected", "connected"},
           button' \in [text: Texts, enabled: BOOLEAN],
           boxes' \in Seq({"failed", "duplicate"}),
           setup' \in {"none", "teardown", "setupDone", "quit"}
    PROVE  UiTypes'
<1>1. signals' \in Seq(Signals)
  BY DEF Handle, UiTypes
<1> QED
  BY <1>1 DEF Handle, UiTypes

LEMMA HandledIsShown ==
    ASSUME UiTypes, Told, NEW s \in Signals, Handle(s),
           s # "duplicate" => (shown' = "connected") = (s = "connected"),
           s = "duplicate" => UNCHANGED shown,
           \/ UNCHANGED setup
           \/ client = "ready" /\ setup' = "quit"
    PROVE  Told'
<1>1. /\ signals \in Seq(Signals) /\ signals # <<>> /\ Head(signals) = s
      /\ signals' = Tail(signals) /\ setup # "teardown"
      /\ UNCHANGED <<client, listening, isConnected, socket>>
  BY DEF UiTypes, Handle, UiRuns, linkVars, stateVars
<1>2. client # "none"
  BY <1>1 DEF Told
<1>3. client \in {"new", "ready"}
  BY <1>2 DEF UiTypes
<1>4. CASE client = "new"
  BY <1>1, <1>4 DEF Told
<1>5. CASE client = "ready"
  <2>1. listening
    BY <1>1, <1>2 DEF Told, UiTypes
  <2>2. WillShow(signals, shown, isConnected)
    BY <1>5, <2>1 DEF Told
  <2>3. WillShow(Tail(signals), shown', isConnected)
    BY <1>1, <2>2, HandledSignal
  <2> QED
    BY <1>1, <1>5, <2>1, <2>3 DEF Told
<1> QED
  BY <1>3, <1>4, <1>5

LEMMA HandlersKeepShown ==
    ASSUME UiTypes, Told,
           \/ OnReadyConnect \/ OnLostConnection \/ OnConnectToFinished
           \/ OnConnectToFinishedFailed \/ OnDuplicateIdUsageDetected
    PROVE  KeepsShown
<1>1. /\ button \in [text: Texts, enabled: BOOLEAN]
      /\ boxes \in Seq({"failed", "duplicate"})
      /\ setup \in {"none", "teardown", "setupDone", "quit"}
      /\ shown \in {"disconnected", "connected"}
  BY DEF UiTypes
<1>2. CASE OnReadyConnect
  <2>1. /\ Handle("ready") /\ "ready" \in Signals /\ shown' = "disconnected"
        /\ UNCHANGED boxes /\ button' = Button("Connect", TRUE)
        /\ UNCHANGED setup \/ (client = "ready" /\ setup' = "quit")
    BY <1>2 DEF OnReadyConnect, Signals
  <2>2. button' \in [text: Texts, enabled: BOOLEAN]
    BY <2>1, ButtonTypes DEF Texts
  <2>3. UiTypes'
    BY <1>1, <2>1, <2>2, HandledTypes
  <2>4. Told'
    BY <2>1, HandledIsShown
  <2> QED
    BY <2>3, <2>4 DEF KeepsShown
<1>3. CASE OnLostConnection
  <2>1. /\ Handle("lostConnection") /\ "lostConnection" \in Signals
        /\ shown' = "disconnected"
        /\ UNCHANGED <<boxes, setup>> /\ button' = Button("Connect", TRUE)
    BY <1>3 DEF OnLostConnection, Signals
  <2>2. button' \in [text: Texts, enabled: BOOLEAN]
    BY <2>1, ButtonTypes DEF Texts
  <2>3. UiTypes'
    BY <1>1, <2>1, <2>2, HandledTypes
  <2>4. Told'
    BY <2>1, HandledIsShown
  <2> QED
    BY <2>3, <2>4 DEF KeepsShown
<1>4. CASE OnConnectToFinished
  <2>1. /\ Handle("connected") /\ "connected" \in Signals /\ shown' = "connected"
        /\ UNCHANGED <<boxes, setup>> /\ button' = Button("Disconnect", TRUE)
    BY <1>4 DEF OnConnectToFinished, Signals
  <2>2. button' \in [text: Texts, enabled: BOOLEAN]
    BY <2>1, ButtonTypes DEF Texts
  <2>3. UiTypes'
    BY <1>1, <2>1, <2>2, HandledTypes
  <2>4. Told'
    BY <2>1, HandledIsShown
  <2> QED
    BY <2>3, <2>4 DEF KeepsShown
<1>5. CASE OnConnectToFinishedFailed
  <2>1. /\ Handle("failed") /\ "failed" \in Signals /\ shown' = "disconnected"
        /\ UNCHANGED <<button, setup>> /\ boxes' = Append(boxes, "failed")
    BY <1>5 DEF OnConnectToFinishedFailed, Signals
  <2>2. UiTypes'
    BY <1>1, <2>1, HandledTypes
  <2>3. Told'
    BY <2>1, HandledIsShown
  <2> QED
    BY <2>2, <2>3 DEF KeepsShown
<1>6. CASE OnDuplicateIdUsageDetected
  <2>1. /\ Handle("duplicate") /\ "duplicate" \in Signals
        /\ UNCHANGED <<shown, button, setup>> /\ boxes' = Append(boxes, "duplicate")
    BY <1>6 DEF OnDuplicateIdUsageDetected, Signals
  <2>2. UiTypes'
    BY <1>1, <2>1, HandledTypes
  <2>3. Told'
    BY <2>1, HandledIsShown
  <2> QED
    BY <2>2, <2>3 DEF KeepsShown
<1> QED
  BY <1>2, <1>3, <1>4, <1>5, <1>6

LEMMA OtherUiStepsKeepShown ==
    ASSUME UiTypes, Told, SetupReturns \/ ClickDisconnect \/ DismissBox
    PROVE  KeepsShown
<1>1. /\ UNCHANGED <<client, signals, shown, isConnected, socket, listening>>
      /\ UNCHANGED setup \/ (setup = "quit" /\ setup' = "none")
  BY DEF SetupReturns, ClickDisconnect, DismissBox, stateVars, linkVars
<1>2. Told'
  BY <1>1 DEF Told
<1>3. CASE SetupReturns
  <2>1. calls' \in Seq(Calls)
    <3>1. /\ setups \in Nat /\ calls \in Seq(Calls) /\ "connectToServer" \in Calls
      BY DEF UiTypes, Calls
    <3>2. [i \in 1 .. setups |-> "connectToServer"] \in Seq(Calls)
      BY <3>1
    <3> QED
      BY <1>3, <3>1, <3>2 DEF SetupReturns
  <2> QED
    BY <1>2, <1>3, <2>1 DEF SetupReturns, UiTypes, KeepsShown
<1>4. CASE ClickDisconnect
  <2>1. calls' \in Seq(Calls)
    BY <1>4 DEF ClickDisconnect, UiTypes, Calls
  <2>2. button' \in [text: Texts, enabled: BOOLEAN]
    BY <1>4, ButtonTypes DEF ClickDisconnect, Texts
  <2> QED
    BY <1>2, <1>4, <2>1, <2>2 DEF ClickDisconnect, UiTypes, KeepsShown
<1>5. CASE DismissBox
  <2>1. boxes' \in Seq({"failed", "duplicate"})
    BY <1>5 DEF DismissBox, UiTypes
  <2>2. button' \in [text: Texts, enabled: BOOLEAN]
    BY <1>5, ButtonTypes DEF DismissBox, Texts, UiTypes
  <2> QED
    BY <1>2, <1>5, <2>1, <2>2 DEF DismissBox, UiTypes, KeepsShown
<1> QED
  BY <1>3, <1>4, <1>5

-----------------------------------------------------------------------------
LEMMA EveryStepKeepsShown ==
    ASSUME LinkInv, Unused, UiTypes, Told, [Next]_vars
    PROVE  KeepsShown
<1>1. CASE RemoteCloses \/ SocketCloses \/ RemoteClosesInHandshake
  BY <1>1, LossKeepsShown
<1>2. CASE SocketOnError \/ HandshakeFinished \/ HandshakeFails
  BY <1>2, HandshakeKeepsShown
<1>3. CASE \/ SocketConnected \/ AcceptServerHello \/ DisconnectFromServer
           \/ DecryptionFails \/ UNCHANGED vars
  BY <1>3, SilentKeepsShown
<1>4. CASE ConnectToServer \/ DuplicateConnection
  BY <1>4, ConnectToServerKeepsShown, WarningKeepsShown
<1>5. CASE Teardown \/ Setup \/ ClickConnect
  BY <1>5, TeardownKeepsShown, SetupKeepsShown, ClickConnectKeepsShown
<1>6. CASE UiStep \/ ClickDisconnect \/ DismissBox
  BY <1>6, HandlersKeepShown, OtherUiStepsKeepShown DEF UiStep
<1> QED
  BY <1>1, <1>2, <1>3, <1>4, <1>5, <1>6 DEF Next, CallStep, HandshakeStep

LEMMA InitHasShownInv == Init => UiTypes /\ Told
<1> SUFFICES ASSUME Init
             PROVE  UiTypes /\ Told
  OBVIOUS
<1>1. reconnects \in BOOLEAN
  BY ConnectionAssumption DEF Init
<1>2. button \in [text: Texts, enabled: BOOLEAN]
  BY ButtonTypes DEF Init, Texts
<1>3. /\ boxes \in Seq({"failed", "duplicate"}) /\ signals \in Seq(Signals)
      /\ calls \in Seq(Calls)
  BY DEF Init
<1> QED
  BY <1>1, <1>2, <1>3 DEF Init, UiTypes, Told

(* When every signal is handled and every call made, the window shows what *)
(* the client is: no signal that says so is cut off with a client that     *)
(* stays, and the signals of a replaced client come before the new one's   *)
(* readyConnect (Client::setupProtocolClient, ProtocolClient's emits).     *)
THEOREM SettledStateIsAlwaysShown == Spec => []SettledStateIsShown
<1> DEFINE Inv == LinkInv /\ Unused /\ UiTypes /\ Told
<1>1. Init => Inv
  BY InitHasLinkInv, InitHasShownInv DEF Init, Unused
<1>2. Inv /\ [Next]_vars => Inv'
  BY EveryStepIsGood, UnusedIsKept, EveryStepKeepsShown DEF Good, KeepsShown
<1>3. Inv => SettledStateIsShown
  <2> SUFFICES ASSUME Inv
               PROVE  SettledStateIsShown
    OBVIOUS
  <2>1. TypeOK
    BY TypesTogether DEF LinkInv
  <2>2. ASSUME Settled
        PROVE  (shown = "connected") = isConnected
    <3>1. signals = <<>> /\ setup = "none"
      BY <2>2 DEF Settled
    <3>2. CASE client = "none"
      BY <3>2 DEF Told, LinkInv, Links
    <3>3. CASE client = "ready"
      <4>1. listening
        BY <3>1, <3>3 DEF Told, UiTypes
      <4>2. WillShow(<<>>, shown, isConnected)
        BY <3>1, <3>3, <4>1 DEF Told
      <4> QED
        BY <4>2, NothingQueued
    <3>4. client \in {"none", "ready"}
      BY <3>1 DEF Told, UiTypes
    <3> QED
      BY <3>2, <3>3, <3>4
  <2> QED
    BY <2>1, <2>2 DEF SettledStateIsShown
<1> QED
  BY <1>1, <1>2, <1>3, PTL DEF Spec
=============================================================================
