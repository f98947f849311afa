---------------------------- MODULE PacketStream ----------------------------
(***************************************************************************)
(* The connection to the chat server as the protocol client uses it once   *)
(* the socket is there: a stream of bytes that carries packets, each two   *)
(* length bytes and an encrypted body, in both directions.                 *)
(*                                                                         *)
(* A packet's body can only be opened with the nonce counter it was made   *)
(* with, so a packet that is lost, split wrongly, handled twice or out of  *)
(* order ends the program: the exception leaves the slot.  The client's    *)
(* part runs in one thread; the server and the network are external.       *)
(***************************************************************************)
EXTENDS Envelope

CONSTANTS
    Messages,      \* a message of each class, for us
    MaxSessions,   \* connections made
    MaxPackets,    \* packets the server writes in a session
    MaxEnqueued    \* packets other parts of the client send

ASSUME BoundsAssumption ==
    /\ MaxSessions \in Nat \ {0}
    /\ MaxPackets \in Nat
    /\ MaxEnqueued \in Nat

(* A message is complete: it has a value for each field of its layout, a   *)
(* tail as long as it has to be, and the owner of its group is who the     *)
(* layout says. *)
ASSUME MessagesAssumption ==
    \A class \in DOMAIN Messages :
        LET m == Messages[class]
            l == LayoutOf[class]
        IN  /\ class \in DOMAIN LayoutOf /\ m.class = class
            /\ m.fields \in [{l.writes[i][1] : i \in DOMAIN l.writes} -> Nat]
            /\ m.tail \in Seq(Nat)
            /\ l.tail = "none" => m.tail = <<>>
            /\ Len(m.tail) * (IF l.tail = "ids" THEN IdWidth ELSE 1) >= l.least
            /\ m.owner = CASE l.owner = "payload"  -> m.fields.owner
                           [] l.owner = "sender"   -> m.from
                           [] l.owner = "receiver" -> m.to
                           [] OTHER                -> 0

VARIABLES
    session,       \* connections made so far; the server's key of each differs
    link,          \* "down", "connecting", "handshake" or "up" (m_isConnected)
    key,           \* m_serverShortTermKey: the session it is of
    serverNonce,   \* m_serverNonceGenerator's counter
    clientNonce,   \* m_clientNonceGenerator's counter
    written,       \* what the server has written in this session
    transit,       \* bytes on their way to us
    socket,        \* bytes that have arrived and were not read
    buffer,        \* m_readyReadRemainingData
    wake,          \* socketOnReadyRead is going to be called
    reading,       \* its loop is at work on a packet that is complete
    handled,       \* packets opened and dispatched in this session
    received,      \* outcomes of the messages opened in the last step
    outgoing,      \* outgoingMessages
    sender,        \* outgoingMessagesTimer runs
    keepAlive,     \* keepAliveTimer runs
    wire,          \* what we have written in this session
    pings,         \* keep-alives sent in this session
    enqueued,      \* packets other parts have sent
    quit           \* an exception has ended the program

incoming  == <<written, transit, socket, buffer, reading, handled>>
ours      == <<outgoing, sender, wire>>
vars == <<session, link, key, serverNonce, clientNonce, incoming, received, wake, ours,
          keepAlive, pings, enqueued, quit>>

(* What the server writes is a message or else a request to answer; of     *)
(* acknowledgments and notices nothing here would tell them from messages. *)
Kinds == {"message", "request"}

(* What may be found in a message: one of some class, as a client has made *)
(* it. *)
Contents == [class : DOMAIN Messages, held : BOOLEAN, drawn : Drawn]

Envelope(content) == ToPacket(Messages[content.class], content.held, content.drawn)

(* What becomes of a message: a header with unknown flags, or a box that   *)
(* does not open, throws; a payload we cannot make sense of is dropped. *)
Outcome(content) ==
    LET message == Messages[content.class]
        packet  == Envelope(content)
    IN  IF HeaderRefused(packet) \/ ~Opens(packet, message.to) THEN "throws"
        ELSE IF Refused(Payload(packet)) THEN "dropped"
        ELSE IF SameButForReceipt(ReadMessage(packet), Meant(message)) THEN "as meant"
        ELSE "misread"

(* The class is kept only of those that did not come out as meant. *)
Outcomes ==
    {[outcome |-> Outcome(c), class |-> IF Outcome(c) = "as meant" THEN "any" ELSE c.class] :
        c \in Contents}

(* The lengths are chosen small and different. *)
BodySize(kind) == IF kind = "message" THEN 2 ELSE 1

(* The bytes of the server's packet with that nonce; the first two are its *)
(* length. *)
Bytes(kind, nonce) ==
    [i \in 1 .. 2 + BodySize(kind) |->
        [session |-> session, nonce |-> nonce, at |-> i,
         value |-> CASE i = 1 -> BodySize(kind) % 256
                     [] i = 2 -> BodySize(kind) \div 256
                     [] OTHER -> 0]]

TypeOK ==
    /\ session \in 0 .. MaxSessions /\ key \in 0 .. session
    /\ link \in {"down", "connecting", "handshake", "up"}
    /\ serverNonce \in Nat \ {0} /\ clientNonce \in Nat \ {0}
    /\ Len(written) <= MaxPackets
    /\ received \subseteq
          [outcome : {"as meant", "dropped", "misread"}, class : {"any"} \cup DOMAIN Messages]
    /\ \A i \in DOMAIN outgoing : outgoing[i].nonce < clientNonce
    /\ \A i \in DOMAIN wire : wire[i].key <= key
    /\ {wake, reading, sender, keepAlive, quit} \subseteq BOOLEAN
    /\ reading => link = "up"
    /\ keepAlive = (link = "up")
    /\ pings \in 0 .. 1 /\ enqueued \in 0 .. MaxEnqueued

Init ==
    /\ session = 0 /\ link = "down" /\ key = 0
    /\ serverNonce = 1 /\ clientNonce = 1
    /\ written = <<>> /\ transit = <<>> /\ socket = <<>> /\ buffer = <<>>
    /\ handled = <<>> /\ received = {}
    /\ wake = FALSE /\ reading = FALSE /\ outgoing = <<>> /\ sender = FALSE /\ keepAlive = FALSE
    /\ wire = <<>> /\ pings = 0 /\ enqueued = 0 /\ quit = FALSE

-----------------------------------------------------------------------------
(* Sending. *)

(* encryptForServer takes the next nonce. *)
Encrypted(kind, nonce) == [key |-> key, nonce |-> nonce, kind |-> kind]

(* A queue that has something in it is taken to have its timer running. *)
MutantEncryptAndSend(kinds) ==
    /\ outgoing' = outgoing \o [i \in DOMAIN kinds |-> Encrypted(kinds[i], clientNonce + i - 1)]
    /\ clientNonce' = clientNonce + Len(kinds)
    /\ sender' = (sender \/ (outgoing = <<>> /\ kinds # <<>>))

(* encryptAndSendDataPacketToServer, for the packets of these kinds. *)
EncryptAndSend(kinds) ==
    /\ outgoing' = outgoing \o [i \in DOMAIN kinds |-> Encrypted(kinds[i], clientNonce + i - 1)]
    /\ clientNonce' = clientNonce + Len(kinds)
    /\ sender' = (sender \/ kinds # <<>>)

(* The handler of the connected() signal blocks the thread, and so does     *)
(* each slot while it runs. *)
LoopRuns == ~quit /\ ~reading /\ link # "handshake"

(* Another part of the client sends something, connected or not. *)
Enqueue ==
    /\ LoopRuns
    /\ session > 0
    /\ enqueued < MaxEnqueued
    /\ enqueued' = enqueued + 1
    /\ EncryptAndSend(<<"message">>)
    /\ received' = {}
    /\ UNCHANGED <<session, link, key, serverNonce, incoming, wake, wire, keepAlive, pings, quit>>

MutantOutgoingTimer ==
    /\ LoopRuns
    /\ sender
    /\ wire' = wire \o outgoing
    /\ outgoing' = <<>>
    /\ sender' = FALSE
    /\ received' = {}
    /\ UNCHANGED <<session, link, key, serverNonce, clientNonce, incoming, wake, keepAlive, pings,
                   enqueued, quit>>

(* outgoingMessagesTimerOnTimer: as long as there is no connection the     *)
(* timer only runs on. *)
OutgoingTimer ==
    /\ LoopRuns
    /\ sender
    /\ IF link # "up"
       THEN /\ sender' = (outgoing # <<>>)
            /\ UNCHANGED <<outgoing, wire>>
       ELSE /\ wire' = wire \o outgoing
            /\ outgoing' = <<>>
            /\ sender' = FALSE
    /\ received' = {}
    /\ UNCHANGED <<session, link, key, serverNonce, clientNonce, incoming, wake, keepAlive, pings,
                   enqueued, quit>>

(* keepAliveTimerOnTimer; one keep-alive in a session is enough here. *)
KeepAliveTimer ==
    /\ LoopRuns
    /\ keepAlive
    /\ pings = 0
    /\ pings' = 1
    /\ EncryptAndSend(<<"ping">>)
    /\ received' = {}
    /\ UNCHANGED <<session, link, key, serverNonce, incoming, wake, wire, keepAlive, enqueued, quit>>

-----------------------------------------------------------------------------
(* The connection. *)

(* connectToServer aborts what the socket was doing; what waits to be sent *)
(* stays, encrypted for the server's last key. *)
Connect ==
    /\ LoopRuns
    /\ link = "down"
    /\ session < MaxSessions
    /\ session' = session + 1
    /\ link' = "connecting"
    /\ socket' = <<>>
    /\ received' = {}
    /\ UNCHANGED <<key, serverNonce, clientNonce, written, transit, buffer, reading, handled, wake, ours,
                   keepAlive, pings, enqueued, quit>>

(* socketConnected up to the authentication packet: the server's hello     *)
(* starts its counter again and brings its key; ours goes on. *)
Authenticate ==
    /\ LoopRuns
    /\ link = "connecting"
    /\ link' = "handshake"
    /\ key' = session
    /\ serverNonce' = 2
    /\ clientNonce' = clientNonce + 1
    /\ wire' = Append(wire, [key |-> session, nonce |-> clientNonce, kind |-> "auth"])
    /\ received' = {}
    /\ UNCHANGED <<session, incoming, wake, outgoing, sender, keepAlive, pings, enqueued, quit>>

MutantHandshakeFinishes ==
    /\ ~quit
    /\ link = "handshake"
    /\ link' = "up"
    /\ serverNonce' = serverNonce + 1
    /\ keepAlive' = TRUE
    /\ wake' = (wake \/ socket # <<>>)
    /\ received' = {}
    /\ UNCHANGED <<session, key, clientNonce, incoming, ours, pings, enqueued, quit>>

MutantHandshakeFinishesUnwoken ==
    /\ ~quit
    /\ link = "handshake"
    /\ link' = "up"
    /\ serverNonce' = serverNonce + 1
    /\ buffer' = <<>>
    /\ keepAlive' = TRUE
    /\ received' = {}
    /\ UNCHANGED <<session, key, clientNonce, written, transit, socket, reading, handled, ours, wake, pings, enqueued,
                   quit>>

(* socketConnected from the server's acknowledgment on: what has arrived   *)
(* since is looked at by a call of our own. *)
HandshakeFinishes ==
    /\ ~quit
    /\ link = "handshake"
    /\ link' = "up"
    /\ serverNonce' = serverNonce + 1
    /\ buffer' = <<>>
    /\ keepAlive' = TRUE
    /\ wake' = (wake \/ socket # <<>>)
    /\ received' = {}
    /\ UNCHANGED <<session, key, clientNonce, written, transit, socket, reading, handled, ours, pings, enqueued,
                   quit>>

MutantConnectionLost ==
    /\ ~quit /\ ~reading
    /\ link # "down"
    /\ link' = "down"
    /\ transit' = <<>>
    /\ written' = <<>> /\ handled' = <<>> /\ wire' = <<>> /\ pings' = 0
    /\ sender' = FALSE
    /\ received' = {}
    /\ UNCHANGED <<session, key, serverNonce, clientNonce, socket, buffer, reading, wake, outgoing, keepAlive,
                   enqueued, quit>>

(* socketDisconnected: the timers stop, the queue stays.  What was on its   *)
(* way is lost, and with it the session's record. *)
ConnectionLost ==
    /\ ~quit /\ ~reading
    /\ link # "down"
    /\ link' = "down"
    /\ transit' = <<>>
    /\ written' = <<>> /\ handled' = <<>> /\ wire' = <<>> /\ pings' = 0
    /\ keepAlive' = FALSE
    /\ sender' = FALSE
    /\ received' = {}
    /\ UNCHANGED <<session, key, serverNonce, clientNonce, socket, buffer, reading, wake, outgoing, enqueued,
                   quit>>

-----------------------------------------------------------------------------
(* Receiving. *)

(* The server has let us in and writes a packet; its own counter was at 3. *)
ServerWrites ==
    /\ link \in {"handshake", "up"}
    /\ Len(written) < MaxPackets
    /\ \E kind \in Kinds :
          /\ written' = Append(written, [nonce |-> Len(written) + 3, kind |-> kind])
          /\ transit' = transit \o Bytes(kind, Len(written) + 3)
    /\ received' = {}
    /\ UNCHANGED <<session, link, key, serverNonce, clientNonce, socket, buffer, reading, wake,
                   handled, ours, keepAlive, pings, enqueued, quit>>

(* Some bytes arrive, perhaps in the middle of a packet; the socket takes  *)
(* them when no slot is at work, or when the handshake waits for them. *)
Arrive ==
    /\ ~reading
    /\ link \in {"handshake", "up"}
    /\ \E n \in 1 .. Len(transit) :
          /\ socket' = socket \o SubSeq(transit, 1, n)
          /\ transit' = SubSeq(transit, n + 1, Len(transit))
    /\ wake' = TRUE
    /\ received' = {}
    /\ UNCHANGED <<session, link, key, serverNonce, clientNonce, written, buffer, reading, handled, ours,
                   keepAlive, pings, enqueued, quit>>

(* How long the packet at the head of the bytes is, its length included. *)
PacketLength(bytes) == 2 + bytes[1].value + 256 * bytes[2].value

Complete(bytes) == Len(bytes) >= 2 /\ Len(bytes) >= PacketLength(bytes)

(* The packet a body is of, if decryptFromServer opens it: it must be the  *)
(* whole body of one made in this session and with the nonce we are at. *)
IsOf(body, packet) ==
    /\ key = session
    /\ body = SubSeq(Bytes(packet.kind, packet.nonce), 3, 2 + BodySize(packet.kind))

Decrypts(body, nonce) == \E i \in DOMAIN written : written[i].nonce = nonce /\ IsOf(body, written[i])

(* socketOnReadyRead reads all that has arrived. *)
OnReadyRead ==
    /\ ~quit /\ ~reading
    /\ wake
    /\ wake' = FALSE
    /\ IF link = "up"
       THEN /\ buffer' = buffer \o socket
            /\ socket' = <<>>
            /\ reading' = Complete(buffer')
       ELSE UNCHANGED <<buffer, socket, reading>>
    /\ received' = {}
    /\ UNCHANGED <<session, link, key, serverNonce, clientNonce, written, transit, handled, ours,
                   keepAlive, pings, enqueued, quit>>

(* An exception leaves the slot, and the program ends. *)
Throw ==
    /\ quit' = TRUE
    /\ received' = {}
    /\ reading' = FALSE
    /\ UNCHANGED <<serverNonce, clientNonce, handled, ours>>

(* A packet that was opened is dispatched: a keep-alive is answered at     *)
(* once, a message has the given outcome. *)
Dispatch(packet, outcomes) ==
    /\ received' = outcomes
    /\ IF packet.kind = "request" THEN EncryptAndSend(<<"answer">>)
                                  ELSE UNCHANGED <<outgoing, clientNonce, sender>>
    /\ handled' = Append(handled, packet)
    /\ serverNonce' = serverNonce + 1
    /\ reading' = Complete(buffer')
    /\ UNCHANGED <<wire, quit>>

(* One round of its loop: the next packet is taken out of the buffer,      *)
(* opened and dispatched; a message is one of those a client may have      *)
(* made. *)
ReadPacket ==
    /\ reading
    /\ LET length == PacketLength(buffer)
           body   == SubSeq(buffer, 3, length)
           packet == written[serverNonce - 2]
       IN  /\ buffer' = SubSeq(buffer, length + 1, Len(buffer))
           /\ IF ~Decrypts(body, serverNonce) THEN Throw
              ELSE IF packet.kind = "request" THEN Dispatch(packet, {})
              ELSE \E m \in Outcomes :
                      IF m.outcome = "throws" THEN Throw ELSE Dispatch(packet, {m})
    /\ UNCHANGED <<session, link, key, written, transit, socket, wake, keepAlive, pings, enqueued>>

-----------------------------------------------------------------------------
(* What is due in the event loop, and on a connection that lasts. *)
Due == HandshakeFinishes \/ Arrive \/ OutgoingTimer \/ KeepAliveTimer \/ OnReadyRead \/ ReadPacket

Next == Due \/ Enqueue \/ Connect \/ Authenticate \/ ConnectionLost \/ ServerWrites

Spec == Init /\ [][Next]_vars

(* The event loop does not rest while something is due. *)
LiveSpec == Spec /\ WF_vars(Due)

-----------------------------------------------------------------------------
(* Whatever pieces the bytes arrive in, and although each session starts   *)
(* the server's counter again while pieces of the last one may be left     *)
(* over, the packets are handled once each and in the order the server     *)
(* wrote them, and none of them ends the program. *)
InOrderOnce ==
    /\ TypeOK
    /\ ~quit
    /\ IsPrefix(handled, written)

(* The server can follow what we write in a session: it begins with the    *)
(* authentication packet, the packets made with the session's key come in  *)
(* order and without a gap in their nonces whatever was left over, and no  *)
(* nonce comes twice. *)
ServerCanFollow ==
    LET fresh == {i \in DOMAIN wire : wire[i].key = session}
    IN  /\ wire # <<>> => 1 \in fresh /\ wire[1].kind = "auth"
        /\ \A i, j \in fresh : i < j => wire[i].nonce < wire[j].nonce
        /\ \A i \in fresh \ {1} : \E j \in fresh : wire[j].nonce = wire[i].nonce - 1
        /\ \A i, j \in DOMAIN wire : wire[i].nonce = wire[j].nonce => i = j

(* A message is read as it was meant, whatever the uninitialised flag and  *)
(* the random padding were; only a group's photo is never understood. *)
ReadAsWritten ==
    /\ \A m \in received : m.outcome = "as meant" \/ m.class = "GroupSetPhoto"
    /\ \A m \in received : m.class = "GroupSetPhoto" => m.outcome = "dropped"

(* While the connection lasts every packet the server writes is handled,   *)
(* those too that arrived together with the end of the handshake. *)
EveryPacketIsHandled ==
    \A n \in 1 .. MaxPackets :
        (link = "up" /\ Len(written) >= n) ~> (Len(handled) >= n \/ link = "down")

(* What waits to be sent when a connection is made is sent while it lasts, *)
(* although nothing looks at the queue then: the keep-alive does it. *)
QueueIsWritten == (link = "up" /\ outgoing # <<>>) ~> (outgoing = <<>> \/ link = "down")

(* Nothing is left lying on a connection that lasts, in either direction. *)
NothingIsLeftLying == EveryPacketIsHandled /\ QueueIsWritten
=============================================================================
