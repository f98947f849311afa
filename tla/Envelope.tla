------------------------------ MODULE Envelope ------------------------------
(***************************************************************************)
(* The packet around the payload of a message: the flags the factory gives *)
(* a class of message, the header, the padding and the box, and how the    *)
(* receiver takes them apart again.  As in Payloads a packet is a sequence *)
(* of parts <<width, value>>; values are numbers, contacts too.            *)
(***************************************************************************)
EXTENDS Payloads

CONSTANT Drawn     \* the bytes the padding's random generator may draw

ASSUME DrawnAssumption == Drawn \subseteq 0 .. 255

-----------------------------------------------------------------------------
(* MessageFlags. *)

Bit == [pushMessage |-> 1, noQueuing |-> 2, noAckExpected |-> 4, alreadyDelivered |-> 8,
        groupMessage |-> 16, callMessage |-> 32, noDeliveryReceipt |-> 128]

UnknownBit == 64

FlagNames == DOMAIN Bit

Only(set) == [f \in FlagNames |-> f \in set]

ContactMessageFlags      == Only({"pushMessage"})
GroupTextMessageFlags    == Only({"pushMessage", "groupMessage"})
GroupControlMessageFlags == Only({"groupMessage"})
TypingStatusMessageFlags == Only({"noQueuing", "noAckExpected"})
ReceiptMessageFlags      == Only({})

GroupControlClasses == {"GroupLeave", "GroupCreation", "GroupSetTitle", "GroupSync", "GroupSetPhoto"}

(* The flags the factory gives a message. *)
FlagsOf(class) ==
    CASE class = "UserTyping" -> TypingStatusMessageFlags
      [] class = "Receipt" -> ReceiptMessageFlags
      [] class \in GroupControlClasses -> GroupControlMessageFlags
      [] class \notin GroupControlClasses /\ LayoutOf[class].owner # "none" -> GroupTextMessageFlags
      [] OTHER -> ContactMessageFlags

(* A copy of flags: the copy constructor forgets one of them, which is     *)
(* then whatever the memory held. *)
CopyOf(flags, held) == [flags EXCEPT !.noDeliveryReceipt = held]

GetFlags(flags) ==
    LET bit(f) == IF flags[f] THEN Bit[f] ELSE 0
    IN  bit("pushMessage") + bit("noQueuing") + bit("noAckExpected") + bit("alreadyDelivered")
          + bit("groupMessage") + bit("callMessage") + bit("noDeliveryReceipt")

(* The byte is refused if it has the bit that means nothing. *)
Has(byte, bit) == (byte \div bit) % 2 = 1
FlagsRefused(byte) == Has(byte, UnknownBit)
FlagsFrom(byte) == [f \in FlagNames |-> Has(byte, Bit[f])]

-----------------------------------------------------------------------------
(* The padding: as many bytes as each of them says, at least one. *)

MutantPaddingCount(drawn) == drawn

PaddingCount(drawn) == IF drawn = 0 THEN 1 ELSE drawn

EncodePkcs7(parts, drawn) ==
    parts \o [i \in 1 .. PaddingCount(drawn) |-> <<1, PaddingCount(drawn)>>]

DecodePkcs7(parts) ==
    SubSeq(parts, 1, Len(parts) - parts[Len(parts)][2])

-----------------------------------------------------------------------------
(* The packet. *)

Header(message, flags) ==
    << <<8, message.from>>, <<8, message.to>>, <<8, message.id>>, <<4, message.time>>,
       <<1, GetFlags(flags)>>, <<3, 0>>, <<32, message.pushFrom>> >>

HeaderStart  == 4
NonceStart   == HeaderStart + 64
PayloadStart == NonceStart + 24

(* encrypt and toPacket; the flags reach the header through copies of      *)
(* copies.  What is in a box opens with the nonce it was made with, for    *)
(* the two contacts that know its key. *)
ToPacket(message, held, drawn) ==
    LET payload == ToPacketPayload(message.class, message.fields, message.tail)
        nonce   == 700
        box     == [between |-> {message.from, message.to}, nonce |-> nonce,
                    signature |-> payload.signature,
                    parts |-> EncodePkcs7(payload.parts, drawn)]
    IN  [parts |-> << <<4, 1>> >> \o Header(message, CopyOf(FlagsOf(message.class), held))
                   \o << <<24, nonce>> >>,
         box   |-> box]

(* fromPacket and fromHeaderData. *)
ReadHeader(packet) ==
    LET field(at, width) == Mid(packet.parts, HeaderStart + at, width)
    IN  [from |-> field(0, 8), to |-> field(8, 8), id |-> field(16, 8), time |-> field(24, 4),
         flags |-> FlagsFrom(field(28, 1)), pushFrom |-> field(32, 32)]

HeaderRefused(packet) ==
    \/ Size(packet.parts) < PayloadStart
    \/ FlagsRefused(Mid(packet.parts, HeaderStart + 28, 1))

(* decrypt, and the payload as parseMessageWithPayloadToMessage sees it. *)
Opens(packet, us) ==
    /\ packet.box.between = {ReadHeader(packet).from, us}
    /\ packet.box.nonce = Mid(packet.parts, NonceStart, 24)

Payload(packet) == [signature |-> packet.box.signature, parts |-> DecodePkcs7(packet.box.parts)]

(* The group's owner as the class takes it: from the payload or, where     *)
(* that only names the group, from the header.                             *)
Owner(header, content) ==
    LET by == LayoutOf[content.class].owner
    IN  CASE by = "payload"  -> content.fields.owner
          [] by = "sender"   -> header.from
          [] by = "receiver" -> header.to
          [] OTHER           -> 0

ReadMessage(packet) ==
    LET header == ReadHeader(packet)
        content == FromPacketPayload(Payload(packet))
    IN  [header |-> header, class |-> content.class, fields |-> content.fields,
         tail |-> content.tail, owner |-> Owner(header, content)]

(* The message a user meant, in the same form. *)
Meant(message) ==
    [header |-> [from |-> message.from, to |-> message.to, id |-> message.id,
                 time |-> message.time, flags |-> FlagsOf(message.class),
                 pushFrom |-> message.pushFrom],
     class |-> message.class, fields |-> message.fields, tail |-> message.tail,
     owner |-> message.owner]

(* Equal but for the flag that copies forget. *)
SameButForReceipt(a, b) ==
    LET plain(m) == [m EXCEPT !.header.flags.noDeliveryReceipt = FALSE]
    IN  plain(a) = plain(b)
=============================================================================
