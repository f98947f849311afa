------------------------------ MODULE Payloads ------------------------------
(***************************************************************************)
(* The payload of a message: how each class of content that travels is     *)
(* written and read.  After the signature byte come fields of fixed width, *)
(* then perhaps a tail: a text, a list of identifiers, or a JSON object.   *)
(*   writes   the fields toPacketPayload appends, <<name, width>>          *)
(*   reads    the fields fromPacketPayload takes, <<name, width, by>>,     *)
(*            "by" being how far it moves on for the next field            *)
(*   tail     what follows the fields: "none", "text", "ids" or "json"     *)
(*   least    how long the tail must be                                    *)
(*   exact    whether a longer payload is refused                          *)
(*   owner    where the owner of the group comes from                      *)
(* Values are opaque: a field holds one value, and a reader who is off by  *)
(* some bytes gets Garbage.                                                *)
(***************************************************************************)
EXTENDS Integers, Sequences, SequencesExt

Garbage == "garbage"

(* The width of a field in bytes. *)
Width == [group   |-> 8,  owner |-> 8,  blob |-> 16, cover  |-> 16, key    |-> 32,
          nonce   |-> 24, size  |-> 4,  coverSize |-> 4, seconds |-> 2, type |-> 1]

IdWidth == 8

Writes(names) == [i \in 1 .. Len(names) |-> <<names[i], Width[names[i]]>>]
Reads(names)  == [i \in 1 .. Len(names) |-> <<names[i], Width[names[i]], Width[names[i]]>>]

(* The usual class, which reads what it writes. *)
Layout(names, tail, least, exact, owner) ==
    [writes |-> Writes(names), reads |-> Reads(names),
     tail |-> tail, least |-> least, exact |-> exact, owner |-> owner]

Fixed(names, owner) == Layout(names, "none", 0, TRUE, owner)

-----------------------------------------------------------------------------
(* To contacts. *)

ContactText       == Layout(<<>>, "text", 1, FALSE, "none")
ContactLocation   == Layout(<<>>, "text", 1, FALSE, "none")
Receipt           == Layout(<<"type">>, "ids", IdWidth, FALSE, "none")
UserTyping        == Fixed(<<"type">>, "none")
ContactImage      == Fixed(<<"blob", "size", "nonce">>, "none")
ContactAudio      == Fixed(<<"seconds", "blob", "size", "key">>, "none")
ContactVideo      == Fixed(<<"seconds", "blob", "size", "cover", "coverSize", "key">>, "none")
ContactFile       == Layout(<<>>, "json", 1, FALSE, "none")

(* To groups.  Content names the group and its owner; control messages     *)
(* only name the group, and the reader takes its owner from the header.    *)

GroupText         == Layout(<<"owner", "group">>, "text", 1, FALSE, "payload")
GroupLocation     == Layout(<<"owner", "group">>, "text", 1, FALSE, "payload")
GroupImage        == Fixed(<<"owner", "group", "blob", "size", "key">>, "payload")
GroupAudio        == Fixed(<<"owner", "group", "seconds", "blob", "size", "key">>, "payload")
GroupVideo        == Fixed(<<"owner", "group", "seconds", "blob", "size", "cover", "coverSize",
                             "key">>, "payload")
GroupFile         == Layout(<<"owner", "group">>, "json", 1, FALSE, "payload")
GroupLeave        == Layout(<<"owner", "group">>, "none", 0, FALSE, "payload")
GroupCreation     == Layout(<<"group">>, "ids", 0, FALSE, "sender")
GroupSetTitle     == Layout(<<"group">>, "text", 0, FALSE, "sender")
GroupSync         == Fixed(<<"group">>, "receiver")

(* A photo's payload has the 8 bytes of the group's number; the reader     *)
(* moves on by the 16 bytes that number and owner would take.              *)
GroupSetPhoto ==
    [Fixed(<<"group", "blob", "size", "key">>, "none") EXCEPT
        !.reads = [@ EXCEPT ![1] = <<"group", Width.group, Width.owner + Width.group>>]]

(* The class by the signature byte. *)
LayoutOf == [
    ContactText |-> ContactText, ContactLocation |-> ContactLocation, Receipt |-> Receipt,
    UserTyping |-> UserTyping, ContactImage |-> ContactImage, ContactAudio |-> ContactAudio,
    ContactVideo |-> ContactVideo, ContactFile |-> ContactFile, GroupText |-> GroupText,
    GroupLocation |-> GroupLocation, GroupImage |-> GroupImage, GroupAudio |-> GroupAudio,
    GroupVideo |-> GroupVideo, GroupFile |-> GroupFile, GroupLeave |-> GroupLeave,
    GroupCreation |-> GroupCreation, GroupSetTitle |-> GroupSetTitle, GroupSync |-> GroupSync,
    GroupSetPhoto |-> GroupSetPhoto]

-----------------------------------------------------------------------------
(* Writing and reading.  A payload's parts are <<width, value>>.           *)

(* fields gives the values of the fixed fields, tail is a sequence of      *)
(* values: the letters of a text, the identifiers, the entries of an       *)
(* object.                                                                 *)
ToPacketPayload(class, fields, tail) ==
    LET l == LayoutOf[class]
        width == IF l.tail = "ids" THEN IdWidth ELSE 1
    IN  [signature |-> class,
         parts |-> [i \in DOMAIN l.writes |-> <<l.writes[i][2], fields[l.writes[i][1]]>>]
                   \o [i \in DOMAIN tail |-> <<width, tail[i]>>]]

(* Where each element of a sequence begins if its i-th element is w[i] long. *)
Starts(w) == LET start[i \in 1 .. Len(w) + 1] == IF i = 1 THEN 0 ELSE start[i - 1] + w[i - 1]
             IN  start

Size(parts) == Starts([i \in DOMAIN parts |-> parts[i][1]])[Len(parts) + 1]

(* The value in the given bytes. *)
Mid(parts, from, width) ==
    LET start == Starts([i \in DOMAIN parts |-> parts[i][1]])
        here  == {i \in DOMAIN parts : start[i] = from /\ parts[i][1] = width}
    IN  IF here = {} THEN Garbage ELSE parts[CHOOSE i \in here : TRUE][2]

(* verifyPayloadMinSizeAndSignatureByte, and what the classes check of the *)
(* tail. *)
VerifyPayload(l, parts) ==
    LET fixed == Starts([i \in DOMAIN l.writes |-> l.writes[i][2]])[Len(l.writes) + 1]
    IN  /\ Size(parts) >= fixed + l.least
        /\ l.exact => Size(parts) = fixed
        /\ l.tail = "ids" => (Size(parts) - fixed) % IdWidth = 0

(* A field that reaches past the end is too short for a key or an integer. *)
PastTheEnd(l, parts) ==
    LET start == Starts([i \in DOMAIN l.reads |-> l.reads[i][3]])
    IN  \E i \in DOMAIN l.reads : start[i] + l.reads[i][2] > Size(parts)

Refused(payload) ==
    LET l == LayoutOf[payload.signature]
    IN  ~VerifyPayload(l, payload.parts) \/ PastTheEnd(l, payload.parts)

FromPacketPayload(payload) ==
    LET l == LayoutOf[payload.signature]
        start == Starts([i \in DOMAIN l.reads |-> l.reads[i][3]])
        names == {l.reads[i][1] : i \in DOMAIN l.reads}
        field(f) == LET i == CHOOSE j \in DOMAIN l.reads : l.reads[j][1] = f
                    IN  Mid(payload.parts, start[i], l.reads[i][2])
        before == Len(l.writes)
    IN  [class  |-> payload.signature,
         fields |-> [f \in names |-> field(f)],
         tail   |-> [i \in 1 .. Len(payload.parts) - before |-> payload.parts[before + i][2]]]

=============================================================================
