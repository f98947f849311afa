--------------------------- MODULE MCPacketStream ---------------------------
(***************************************************************************)
(* Contact 101 is us, contact 102 writes to us.                            *)
(***************************************************************************)
EXTENDS PacketStream

Us == 101
Peer == 102

Values == [group |-> 501, blob |-> 502, cover |-> 503, key |-> 504, nonce |-> 505,
           size |-> 506, coverSize |-> 507, seconds |-> 508, type |-> 509]

Tails == [none |-> <<>>, text |-> <<601, 602>>, ids |-> <<603, 604>>, json |-> <<605, 606>>]

(* Only an owner sends a group's control messages, and only an owner is    *)
(* asked to send them again. *)
OwnerOf(class) ==
    CASE LayoutOf[class].owner = "none" -> 0
      [] LayoutOf[class].owner = "receiver" -> Us
      [] OTHER -> Peer

MessageOf(class) ==
    LET names == {LayoutOf[class].writes[i][1] : i \in DOMAIN LayoutOf[class].writes}
    IN  [class |-> class, from |-> Peer, to |-> Us, id |-> 301, time |-> 302, pushFrom |-> 303,
         owner |-> OwnerOf(class),
         fields |-> [f \in names |-> IF f = "owner" THEN OwnerOf(class) ELSE Values[f]],
         tail |-> Tails[LayoutOf[class].tail]]

MCMessages == [class \in DOMAIN LayoutOf |-> MessageOf(class)]

MCDrawn == {0, 2}
=============================================================================
