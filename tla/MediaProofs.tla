----------------------------- MODULE MediaProofs -----------------------------
(***************************************************************************)
(* Proofs about MediaTransfer for all kinds of media, any number of        *)
(* receivers, attempts, slots and faults.  A class of content says in what *)
(* form its parts are: plain, in a box, or as the id of a blob.  All that  *)
(* is on its way belongs to an attempt, and its parts are those of that    *)
(* attempt in the form its class says; each step of a chain changes the    *)
(* form of one part, whichever class it is (PreSendSteps,                  *)
(* PostReceiveSteps).                                                      *)
(***************************************************************************)
EXTENDS MediaTransfer, FiniteSetTheorems, TLAPS

Parts == {"main", "cover"}
Table == Classes!ContentClass

WithCover == {"ContactVideo", "GroupVideo", "ContactFile", "GroupFile"}

(* What each class is a form of, and the forms of its main part and its    *)
(* cover. *)
Is(family, main, cover) == [family |-> family, main |-> main, cover |-> cover]

Form == [
    ContactImage |-> Is("ContactImage", "plain", "plain"),
    ContactEncryptedImageAndKey |-> Is("ContactImage", "boxed", "plain"),
    ContactEncryptedImageAndKeyAndImageId |-> Is("ContactImage", "boxed", "plain"),
    ContactImageIdAndKey |-> Is("ContactImage", "id", "plain"),
    ContactAudio |-> Is("ContactAudio", "plain", "plain"),
    ContactEncryptedAudioAndKey |-> Is("ContactAudio", "boxed", "plain"),
    ContactEncryptedAudioAndKeyAndAudioId |-> Is("ContactAudio", "boxed", "plain"),
    ContactAudioIdAndKey |-> Is("ContactAudio", "id", "plain"),
    ContactVideo |-> Is("ContactVideo", "plain", "plain"),
    ContactEncryptedVideoAndImageAndKey |-> Is("ContactVideo", "boxed", "plain"),
    ContactEncryptedVideoAndEncryptedImageAndKey |-> Is("ContactVideo", "boxed", "boxed"),
    ContactEncryptedVideoAndImageIdAndKey |-> Is("ContactVideo", "boxed", "id"),
    ContactVideoIdAndImageIdAndKey |-> Is("ContactVideo", "id", "id"),
    ContactFile |-> Is("ContactFile", "plain", "plain"),
    ContactEncryptedFileAndImageAndKey |-> Is("ContactFile", "boxed", "plain"),
    ContactEncryptedFileAndEncryptedImageAndKey |-> Is("ContactFile", "boxed", "boxed"),
    ContactEncryptedFileAndImageIdAndKey |-> Is("ContactFile", "boxed", "id"),
    ContactFileIdAndImageIdAndKey |-> Is("ContactFile", "id", "id"),
    GroupImage |-> Is("GroupImage", "plain", "plain"),
    GroupEncryptedImageAndKey |-> Is("GroupImage", "boxed", "plain"),
    GroupImageIdAndKey |-> Is("GroupImage", "id", "plain"),
    GroupAudio |-> Is("GroupAudio", "plain", "plain"),
    GroupEncryptedAudioAndKey |-> Is("GroupAudio", "boxed", "plain"),
    GroupAudioIdAndKey |-> Is("GroupAudio", "id", "plain"),
    GroupSetPhoto |-> Is("GroupSetPhoto", "plain", "plain"),
    GroupEncryptedGroupPhotoAndKey |-> Is("GroupSetPhoto", "boxed", "plain"),
    GroupGroupPhotoIdAndKey |-> Is("GroupSetPhoto", "id", "plain"),
    GroupVideo |-> Is("GroupVideo", "plain", "plain"),
    GroupEncryptedVideoAndImageAndKey |-> Is("GroupVideo", "boxed", "plain"),
    GroupEncryptedVideoAndEncryptedImageAndKey |-> Is("GroupVideo", "boxed", "boxed"),
    GroupEncryptedVideoAndImageIdAndKey |-> Is("GroupVideo", "boxed", "id"),
    GroupVideoIdAndImageIdAndKey |-> Is("GroupVideo", "id", "id"),
    GroupFile |-> Is("GroupFile", "plain", "plain"),
    GroupEncryptedFileAndImageAndKey |-> Is("GroupFile", "boxed", "plain"),
    GroupEncryptedFileAndEncryptedImageAndKey |-> Is("GroupFile", "boxed", "boxed"),
    GroupEncryptedFileAndImageIdAndKey |-> Is("GroupFile", "boxed", "id"),
    GroupFileIdAndImageIdAndKey |-> Is("GroupFile", "id", "id")]

(* The nonce a part is put into a box with. *)
NonceOf(family, part) == IF part = "cover" THEN 2 ELSE IF family = "ContactImage" THEN 0 ELSE 1

(* Whether a content of this family may come with a cover or without. *)
Fits(family, h) == (family \in {"ContactVideo", "GroupVideo"} => h) /\ (h => family \in WithCover)

(* Class n has the forms of class c but for one part, which goes from one  *)
(* form to another; without a cover only the main part has one. *)
Moves(c, n, part, from, to, h) ==
    /\ n \in DOMAIN Form /\ Form[n].family = Form[c].family
    /\ part \in Parts /\ (~h => part = "main")
    /\ part = "main" => /\ Form[c].main = from /\ Form[n].main = to
                        /\ h => Form[n].cover = Form[c].cover
    /\ part = "cover" => /\ Form[c].cover = from /\ Form[n].cover = to
                         /\ Form[n].main = Form[c].main

(* Without a cover no task on a cover comes up. *)
OnWayOut(c, h) == ~h => Table[c].preSend.part = "main"
OnWayIn(c, h)  == ~h => Table[c].postReceive.part = "main"

(* What a task before sending does, and the first class to go without one. *)
PreSendIsRight(c, h) ==
    LET step == Table[c].preSend
        next == step.next[h]
    IN  /\ step.task \in {"none", "encrypt", "upload"}
        /\ step.task = "encrypt" =>
              /\ Moves(c, next, step.part, "plain", "boxed", h) /\ OnWayOut(next, h)
              /\ step.nonce = NonceOf(Form[c].family, step.part)
              /\ Table[next].preSend.task # "none"
        /\ step.task = "upload" =>
              /\ Moves(c, next, step.part, "boxed", "id", h) /\ OnWayOut(next, h)
              /\ Table[next].preSend.task = "none" =>
                    step.part = "main" /\ next \in DOMAIN LayoutName

(* What a task after receiving does; of what was deleted there is a box. *)
PostReceiveIsRight(c, h) ==
    LET step == Table[c].postReceive
        next == step.next[h]
        family == Form[c].family
    IN  /\ step.task \in {"none", "download", "delete", "decrypt"}
        /\ step.task = "none" => c = family
        /\ step.task = "download" =>
              Moves(c, next, step.part, "id", "boxed", h) /\ OnWayIn(next, h)
        /\ step.task = "delete" =>
              /\ Moves(c, next, step.part, "boxed", "boxed", h) /\ OnWayIn(next, h)
              /\ step.part = "main" /\ family \in {"ContactImage", "ContactAudio"}
              /\ Table[next].postReceive.task = "decrypt"
        /\ step.task = "decrypt" =>
              /\ Moves(c, next, step.part, "boxed", "plain", h) /\ OnWayIn(next, h)
              /\ step.nonce = NonceOf(family, step.part)
              /\ family \in {"ContactImage", "ContactAudio"} =>
                    step.part = "main" /\ Table[next].postReceive.task = "none"

(* What the tables of the classes come to. *)
TablesAreRight ==
    /\ DOMAIN Table = DOMAIN Form
    /\ \A c \in DOMAIN Form, h \in BOOLEAN : Fits(Form[c].family, h) =>
          /\ OnWayOut(c, h) => PreSendIsRight(c, h)
          /\ OnWayIn(c, h) => PostReceiveIsRight(c, h)
    /\ \A c \in DOMAIN LayoutName :
          /\ c \in DOMAIN Form /\ LayoutName[c] = Form[c].family /\ Form[c].main = "id"
          /\ Table[c].preSend.task = "none" /\ \A h \in BOOLEAN : OnWayIn(c, h)
    /\ \A k \in ContactKinds \cup GroupKinds :
          /\ k \in DOMAIN Form /\ Form[k] = Is(k, "plain", "plain")
          /\ Table[k].preSend.task # "none" /\ \A h \in BOOLEAN : OnWayOut(k, h)

-----------------------------------------------------------------------------
(* The invariant.                                                          *)

Key(a, part)   == <<"key", a, part>>
Id(a, part)    == <<"blob", a, part>>
Original(part)    == IF part = "main" THEN <<"media">> ELSE <<"cover">>
BoxOf(k, a, p) == Classes!Box(Original(p), Key(a, p), NonceOf(k[1], p))

InForm(k, a, part, form) ==
    CASE form = "plain" -> Original(part)
      [] form = "boxed" -> BoxOf(k, a, part)
      [] form = "id"    -> Id(a, part)

Keys == {Classes!Empty} \cup {Key(a, p) : a \in Attempts, p \in Parts}
Ids  == {Classes!Empty} \cup {Id(a, p) : a \in Attempts, p \in Parts}

(* A content of the a-th attempt. *)
Whole(k, a, c) ==
    /\ c = [class |-> c.class, main |-> c.main, cover |-> c.cover, key |-> c.key, blob |-> c.blob]
    /\ c.key \in Keys /\ c.blob \in Ids
    /\ c.class \in DOMAIN Form /\ Form[c.class].family = k[1]
    /\ c.main = InForm(k, a, "main", Form[c.class].main)
    /\ c.cover = IF k[2] THEN InForm(k, a, "cover", Form[c.class].cover) ELSE Classes!Empty
    /\ (~k[2] /\ Form[c.class].main # "plain") => c.key = Key(a, "main")

(* One that is on its way out, and one that is on its way in. *)
Leaving(k, a, c)  == Whole(k, a, c) /\ OnWayOut(c.class, k[2]) /\ PreSend(c).task # "none"
Arriving(k, a, c) ==
    /\ Whole(k, a, c) /\ OnWayIn(c.class, k[2])
    /\ Form[c.class].main = "boxed" => c.blob # Classes!Empty

(* One that has arrived. *)
Arrived(k) ==
    [class : {k[1]}, main : {Original("main")}, cover : {IF k[2] THEN Original("cover") ELSE Classes!Empty},
     key : Keys, blob : Ids]

(* A message with an attempt's content. *)
OfAttempt(k, m) ==
    /\ m = [attempt |-> m.attempt, content |-> m.content] /\ m.attempt \in Attempts
    /\ Whole(k, m.attempt, m.content) /\ m.content.class \in DOMAIN LayoutName

(* In this slot there is a content whose blob may be gone: all that is     *)
(* left to do is to open it. *)
Past(c) == Form[c.class].family \in {"ContactImage", "ContactAudio"} /\ PostReceive(c).task = "decrypt"

Held(r) ==
    /\ kind[1] \in ContactKinds
    /\ \/ r \in hurt \/ kept[r] # {} \/ calls[r] # <<>>
       \/ \E s \in Slots : opening[r][s] # Nothing /\ Past(opening[r][s])

Counts ==
    /\ kind \in Kinds
    /\ attempts \in 0 .. MaxAttempts[kind[1]] /\ faults \in 0 .. MaxFaults /\ hurt \subseteq Receivers

Sender ==
    /\ sending = [a \in Attempts |-> sending[a]]
    /\ \A a \in Attempts : sending[a] # Nothing => a <= attempts /\ Leaving(kind, a, sending[a])

(* What the server has for a receiver: it can still be fetched, or what it *)
(* stands for is with the receiver.                                        *)
Mail(r) ==
    /\ delivered[r] \subseteq mailbox[r]
    /\ r \notin Recipients => mailbox[r] = {}
    /\ \A m \in mailbox[r] :
        /\ OfAttempt(kind, m)
        /\ Stored(Id(m.attempt, "main")) # {} \/ Held(r)

IsBlob(k, b) == \E a \in Attempts, p \in Parts : b = [id |-> Id(a, p), data |-> BoxOf(k, a, p)]

Server ==
    /\ \A b \in blobs : IsBlob(kind, b)
    /\ mailbox = [r \in Receivers |-> mailbox[r]] /\ delivered = [r \in Receivers |-> delivered[r]]
    /\ \A r \in Receivers : Mail(r)

AtWorkOn(k, c) == PostReceive(c).task # "none" /\ \E a \in Attempts : Arriving(k, a, c)

AtReceiver(r) ==
    /\ opening[r] = [s \in Slots |-> opening[r][s]]
    /\ \A s \in Slots : opening[r][s] # Nothing => AtWorkOn(kind, opening[r][s])
    /\ calls[r] \in Seq(Arrived(kind))
    /\ \A k \in kept[r] : k.content \in Arrived(kind) /\ k = Storable(k.content)
    /\ r \notin Recipients =>
          (\A s \in Slots : opening[r][s] = Nothing) /\ calls[r] = <<>> /\ kept[r] = {}

Receiver ==
    /\ opening = [r \in Receivers |-> opening[r]]
    /\ calls = [r \in Receivers |-> calls[r]] /\ kept = [r \in Receivers |-> kept[r]]
    /\ \A r \in Receivers : AtReceiver(r)

MediaInv == Counts /\ Sender /\ Server /\ Receiver

-----------------------------------------------------------------------------
(* The tables.                                                             *)

Row(class, steps, form) == class \in DOMAIN Form /\ Table[class] = steps /\ Form[class] = form

LEMMA NextClass ==
    ASSUME NEW x, NEW y, NEW h \in BOOLEAN
    PROVE  Classes!Always(x)[h] = x /\ Classes!ByCover(x, y)[h] = IF h THEN x ELSE y
  BY DEF Classes!Always, Classes!ByCover

StepsAreRight(c, h) ==
    /\ OnWayOut(c, h) => PreSendIsRight(c, h)
    /\ OnWayIn(c, h) => PostReceiveIsRight(c, h)

(* The chains, class by class: the rows first, then what their steps do.   *)
LEMMA ChainsAreRight ==
    ASSUME NEW c \in DOMAIN Form, NEW h \in BOOLEAN, Fits(Form[c].family, h)
    PROVE  StepsAreRight(c, h)
<1>1. Row("ContactImage", Classes!ContactImage,
          Is("ContactImage", "plain", "plain"))
  BY DEF Row, Table, Form, Classes!ContentClass
<1>2. Row("ContactEncryptedImageAndKey", Classes!ContactEncryptedImageAndKey,
          Is("ContactImage", "boxed", "plain"))
  BY DEF Row, Table, Form, Classes!ContentClass
<1>3. Row("ContactEncryptedImageAndKeyAndImageId",
          Classes!ContactEncryptedImageAndKeyAndImageId,
          Is("ContactImage", "boxed", "plain"))
  BY DEF Row, Table, Form, Classes!ContentClass
<1>4. Row("ContactImageIdAndKey", Classes!ContactImageIdAndKey,
          Is("ContactImage", "id", "plain"))
  BY DEF Row, Table, Form, Classes!ContentClass
<1>5. Row("ContactAudio", Classes!ContactAudio,
          Is("ContactAudio", "plain", "plain"))
  BY DEF Row, Table, Form, Classes!ContentClass
<1>6. Row("ContactEncryptedAudioAndKey", Classes!ContactEncryptedAudioAndKey,
          Is("ContactAudio", "boxed", "plain"))
  BY DEF Row, Table, Form, Classes!ContentClass
<1>7. Row("ContactEncryptedAudioAndKeyAndAudioId",
          Classes!ContactEncryptedAudioAndKeyAndAudioId,
          Is("ContactAudio", "boxed", "plain"))
  BY DEF Row, Table, Form, Classes!ContentClass
<1>8. Row("ContactAudioIdAndKey", Classes!ContactAudioIdAndKey,
          Is("ContactAudio", "id", "plain"))
  BY DEF Row, Table, Form, Classes!ContentClass
<1>9. Row("ContactVideo", Classes!ContactVideo,
          Is("ContactVideo", "plain", "plain"))
  BY DEF Row, Table, Form, Classes!ContentClass
<1>10. Row("ContactEncryptedVideoAndImageAndKey",
          Classes!ContactEncryptedVideoAndImageAndKey,
          Is("ContactVideo", "boxed", "plain"))
  BY DEF Row, Table, Form, Classes!ContentClass
<1>11. Row("ContactEncryptedVideoAndEncryptedImageAndKey",
          Classes!ContactEncryptedVideoAndEncryptedImageAndKey,
          Is("ContactVideo", "boxed", "boxed"))
  BY DEF Row, Table, Form, Classes!ContentClass
<1>12. Row("ContactEncryptedVideoAndImageIdAndKey",
          Classes!ContactEncryptedVideoAndImageIdAndKey,
          Is("ContactVideo", "boxed", "id"))
  BY DEF Row, Table, Form, Classes!ContentClass
<1>13. Row("ContactVideoIdAndImageIdAndKey", Classes!ContactVideoIdAndImageIdAndKey,
          Is("ContactVideo", "id", "id"))
  BY DEF Row, Table, Form, Classes!ContentClass
<1>14. Row("ContactFile", Classes!ContactFile,
          Is("ContactFile", "plain", "plain"))
  BY DEF Row, Table, Form, Classes!ContentClass
<1>15. Row("ContactEncryptedFileAndImageAndKey", Classes!ContactEncryptedFileAndImageAndKey,
          Is("ContactFile", "boxed", "plain"))
  BY DEF Row, Table, Form, Classes!ContentClass
<1>16. Row("ContactEncryptedFileAndEncryptedImageAndKey",
          Classes!ContactEncryptedFileAndEncryptedImageAndKey,
          Is("ContactFile", "boxed", "boxed"))
  BY DEF Row, Table, Form, Classes!ContentClass
<1>17. Row("ContactEncryptedFileAndImageIdAndKey",
          Classes!ContactEncryptedFileAndImageIdAndKey,
          Is("ContactFile", "boxed", "id"))
  BY DEF Row, Table, Form, Classes!ContentClass
<1>18. Row("ContactFileIdAndImageIdAndKey", Classes!ContactFileIdAndImageIdAndKey,
          Is("ContactFile", "id", "id"))
  BY DEF Row, Table, Form, Classes!ContentClass
<1>19. Row("GroupImage", Classes!GroupImage,
          Is("GroupImage", "plain", "plain"))
  BY DEF Row, Table, Form, Classes!ContentClass
<1>20. Row("GroupEncryptedImageAndKey", Classes!GroupEncryptedImageAndKey,
          Is("GroupImage", "boxed", "plain"))
  BY DEF Row, Table, Form, Classes!ContentClass
<1>21. Row("GroupImageIdAndKey", Classes!GroupImageIdAndKey,
          Is("GroupImage", "id", "plain"))
  BY DEF Row, Table, Form, Classes!ContentClass
<1>22. Row("GroupAudio", Classes!GroupAudio,
          Is("GroupAudio", "plain", "plain"))
  BY DEF Row, Table, Form, Classes!ContentClass
<1>23. Row("GroupEncryptedAudioAndKey", Classes!GroupEncryptedAudioAndKey,
          Is("GroupAudio", "boxed", "plain"))
  BY DEF Row, Table, Form, Classes!ContentClass
<1>24. Row("GroupAudioIdAndKey", Classes!GroupAudioIdAndKey,
          Is("GroupAudio", "id", "plain"))
  BY DEF Row, Table, Form, Classes!ContentClass
<1>25. Row("GroupSetPhoto", Classes!GroupSetPhoto,
          Is("GroupSetPhoto", "plain", "plain"))
  BY DEF Row, Table, Form, Classes!ContentClass
<1>26. Row("GroupEncryptedGroupPhotoAndKey", Classes!GroupEncryptedGroupPhotoAndKey,
          Is("GroupSetPhoto", "boxed", "plain"))
  BY DEF Row, Table, Form, Classes!ContentClass
<1>27. Row("GroupGroupPhotoIdAndKey", Classes!GroupGroupPhotoIdAndKey,
          Is("GroupSetPhoto", "id", "plain"))
  BY DEF Row, Table, Form, Classes!ContentClass
<1>28. Row("GroupVideo", Classes!GroupVideo,
          Is("GroupVideo", "plain", "plain"))
  BY DEF Row, Table, Form, Classes!ContentClass
<1>29. Row("GroupEncryptedVideoAndImageAndKey", Classes!GroupEncryptedVideoAndImageAndKey,
          Is("GroupVideo", "boxed", "plain"))
  BY DEF Row, Table, Form, Classes!ContentClass
<1>30. Row("GroupEncryptedVideoAndEncryptedImageAndKey",
          Classes!GroupEncryptedVideoAndEncryptedImageAndKey,
          Is("GroupVideo", "boxed", "boxed"))
  BY DEF Row, Table, Form, Classes!ContentClass
<1>31. Row("GroupEncryptedVideoAndImageIdAndKey",
          Classes!GroupEncryptedVideoAndImageIdAndKey,
          Is("GroupVideo", "boxed", "id"))
  BY DEF Row, Table, Form, Classes!ContentClass
<1>32. Row("GroupVideoIdAndImageIdAndKey", Classes!GroupVideoIdAndImageIdAndKey,
          Is("GroupVideo", "id", "id"))
  BY DEF Row, Table, Form, Classes!ContentClass
<1>33. Row("GroupFile", Classes!GroupFile,
          Is("GroupFile", "plain", "plain"))
  BY DEF Row, Table, Form, Classes!ContentClass
<1>34. Row("GroupEncryptedFileAndImageAndKey", Classes!GroupEncryptedFileAndImageAndKey,
          Is("GroupFile", "boxed", "plain"))
  BY DEF Row, Table, Form, Classes!ContentClass
<1>35. Row("GroupEncryptedFileAndEncryptedImageAndKey",
          Classes!GroupEncryptedFileAndEncryptedImageAndKey,
          Is("GroupFile", "boxed", "boxed"))
  BY DEF Row, Table, Form, Classes!ContentClass
<1>36. Row("GroupEncryptedFileAndImageIdAndKey", Classes!GroupEncryptedFileAndImageIdAndKey,
          Is("GroupFile", "boxed", "id"))
  BY DEF Row, Table, Form, Classes!ContentClass
<1>37. Row("GroupFileIdAndImageIdAndKey", Classes!GroupFileIdAndImageIdAndKey,
          Is("GroupFile", "id", "id"))
  BY DEF Row, Table, Form, Classes!ContentClass
<1>38. DOMAIN Form = {"ContactImage", "ContactEncryptedImageAndKey", "ContactEncryptedImageAndKeyAndImageId",
        "ContactImageIdAndKey", "ContactAudio", "ContactEncryptedAudioAndKey",
        "ContactEncryptedAudioAndKeyAndAudioId", "ContactAudioIdAndKey", "ContactVideo",
        "ContactEncryptedVideoAndImageAndKey",
        "ContactEncryptedVideoAndEncryptedImageAndKey",
        "ContactEncryptedVideoAndImageIdAndKey", "ContactVideoIdAndImageIdAndKey",
        "ContactFile", "ContactEncryptedFileAndImageAndKey",
        "ContactEncryptedFileAndEncryptedImageAndKey",
        "ContactEncryptedFileAndImageIdAndKey", "ContactFileIdAndImageIdAndKey",
        "GroupImage", "GroupEncryptedImageAndKey", "GroupImageIdAndKey", "GroupAudio",
        "GroupEncryptedAudioAndKey", "GroupAudioIdAndKey", "GroupSetPhoto",
        "GroupEncryptedGroupPhotoAndKey", "GroupGroupPhotoIdAndKey", "GroupVideo",
        "GroupEncryptedVideoAndImageAndKey",
        "GroupEncryptedVideoAndEncryptedImageAndKey",
        "GroupEncryptedVideoAndImageIdAndKey", "GroupVideoIdAndImageIdAndKey",
        "GroupFile", "GroupEncryptedFileAndImageAndKey",
        "GroupEncryptedFileAndEncryptedImageAndKey",
        "GroupEncryptedFileAndImageIdAndKey", "GroupFileIdAndImageIdAndKey"}
  BY DEF Form
<1> USE DEF Row, StepsAreRight, OnWayOut, OnWayIn, PreSendIsRight, PostReceiveIsRight, Moves, Parts,
            Fits, WithCover, NonceOf, Is, Classes!Step, Classes!NoStep, Classes!Encrypt,
            Classes!Decrypt, Classes!Upload, Classes!Download, Classes!DeleteBlob,
            Classes!FixedNonce, Classes!DrawnNonce
<1>39. CASE c = "ContactImage"
  BY <1>39, <1>1, <1>2, NextClass
     DEF Classes!ContactImage, Classes!ContactEncryptedImageAndKey
<1>40. CASE c = "ContactEncryptedImageAndKey"
  BY <1>40, <1>2, <1>1, <1>4, NextClass
     DEF LayoutName, Classes!ContactEncryptedImageAndKey, Classes!ContactImage,
         Classes!ContactImageIdAndKey
<1>41. CASE c = "ContactEncryptedImageAndKeyAndImageId"
  BY <1>41, <1>3, <1>2, NextClass
     DEF Classes!ContactEncryptedImageAndKeyAndImageId, Classes!ContactEncryptedImageAndKey
<1>42. CASE c = "ContactImageIdAndKey"
  BY <1>42, <1>4, <1>3, NextClass
     DEF LayoutName, Classes!ContactImageIdAndKey,
         Classes!ContactEncryptedImageAndKeyAndImageId
<1>43. CASE c = "ContactAudio"
  BY <1>43, <1>5, <1>6, NextClass
     DEF Classes!ContactAudio, Classes!ContactEncryptedAudioAndKey
<1>44. CASE c = "ContactEncryptedAudioAndKey"
  BY <1>44, <1>6, <1>5, <1>8, NextClass
     DEF LayoutName, Classes!ContactEncryptedAudioAndKey, Classes!ContactAudio,
         Classes!ContactAudioIdAndKey
<1>45. CASE c = "ContactEncryptedAudioAndKeyAndAudioId"
  BY <1>45, <1>7, <1>6, NextClass
     DEF Classes!ContactEncryptedAudioAndKeyAndAudioId, Classes!ContactEncryptedAudioAndKey
<1>46. CASE c = "ContactAudioIdAndKey"
  BY <1>46, <1>8, <1>7, NextClass
     DEF LayoutName, Classes!ContactAudioIdAndKey,
         Classes!ContactEncryptedAudioAndKeyAndAudioId
<1>47. CASE c = "ContactVideo"
  <2>1. h
    BY <1>47, <1>9
  <2>2. Moves("ContactVideo", "ContactEncryptedVideoAndImageAndKey",
             "main", "plain", "boxed", h)
    BY <1>9, <1>10, <2>1
  <2>3. Table["ContactVideo"].preSend.next[h] =
             "ContactEncryptedVideoAndImageAndKey"
    BY <1>9, NextClass DEF Classes!ContactVideo
  <2>4. PreSendIsRight("ContactVideo", h)
    BY <2>1, <2>2, <2>3, <1>9, <1>10
       DEF Classes!ContactVideo, Classes!ContactEncryptedVideoAndImageAndKey
  <2>5. PostReceiveIsRight("ContactVideo", h)
    BY <2>1, <1>9
       DEF Classes!ContactVideo
  <2> HIDE DEF PreSendIsRight, PostReceiveIsRight
  <2> QED
    BY <1>47, <2>4, <2>5
<1>48. CASE c = "ContactEncryptedVideoAndImageAndKey"
  <2>1. h
    BY <1>48, <1>10
  <2>2. Moves("ContactEncryptedVideoAndImageAndKey", "ContactEncryptedVideoAndEncryptedImageAndKey",
             "cover", "plain", "boxed", h)
    BY <1>10, <1>11, <2>1
  <2>3. Table["ContactEncryptedVideoAndImageAndKey"].preSend.next[h] =
             "ContactEncryptedVideoAndEncryptedImageAndKey"
    BY <1>10, NextClass DEF Classes!ContactEncryptedVideoAndImageAndKey
  <2>4. PreSendIsRight("ContactEncryptedVideoAndImageAndKey", h)
    BY <2>1, <2>2, <2>3, <1>10, <1>11
       DEF Classes!ContactEncryptedVideoAndImageAndKey,
           Classes!ContactEncryptedVideoAndEncryptedImageAndKey
  <2>5. Moves("ContactEncryptedVideoAndImageAndKey", "ContactVideo",
             "main", "boxed", "plain", h)
    BY <1>10, <1>9, <2>1
  <2>6. Table["ContactEncryptedVideoAndImageAndKey"].postReceive.next[h] =
             "ContactVideo"
    BY <1>10, NextClass DEF Classes!ContactEncryptedVideoAndImageAndKey
  <2>7. PostReceiveIsRight("ContactEncryptedVideoAndImageAndKey", h)
    BY <2>1, <2>5, <2>6, <1>10, <1>9
       DEF Classes!ContactEncryptedVideoAndImageAndKey, Classes!ContactVideo
  <2> HIDE DEF PreSendIsRight, PostReceiveIsRight
  <2> QED
    BY <1>48, <2>4, <2>7
<1>49. CASE c = "ContactEncryptedVideoAndEncryptedImageAndKey"
  <2>1. h
    BY <1>49, <1>11
  <2>2. Moves("ContactEncryptedVideoAndEncryptedImageAndKey", "ContactEncryptedVideoAndImageIdAndKey",
             "cover", "boxed", "id", h)
    BY <1>11, <1>12, <2>1
  <2>3. Table["ContactEncryptedVideoAndEncryptedImageAndKey"].preSend.next[h] =
             "ContactEncryptedVideoAndImageIdAndKey"
    BY <1>11, NextClass DEF Classes!ContactEncryptedVideoAndEncryptedImageAndKey
  <2>4. PreSendIsRight("ContactEncryptedVideoAndEncryptedImageAndKey", h)
    BY <2>1, <2>2, <2>3, <1>11, <1>12
       DEF LayoutName, Classes!ContactEncryptedVideoAndEncryptedImageAndKey,
           Classes!ContactEncryptedVideoAndImageIdAndKey
  <2>5. Moves("ContactEncryptedVideoAndEncryptedImageAndKey", "ContactEncryptedVideoAndImageAndKey",
             "cover", "boxed", "plain", h)
    BY <1>11, <1>10, <2>1
  <2>6. Table["ContactEncryptedVideoAndEncryptedImageAndKey"].postReceive.next[h] =
             "ContactEncryptedVideoAndImageAndKey"
    BY <1>11, NextClass DEF Classes!ContactEncryptedVideoAndEncryptedImageAndKey
  <2>7. PostReceiveIsRight("ContactEncryptedVideoAndEncryptedImageAndKey", h)
    BY <2>1, <2>5, <2>6, <1>11, <1>10
       DEF Classes!ContactEncryptedVideoAndEncryptedImageAndKey,
           Classes!ContactEncryptedVideoAndImageAndKey
  <2> HIDE DEF PreSendIsRight, PostReceiveIsRight
  <2> QED
    BY <1>49, <2>4, <2>7
<1>50. CASE c = "ContactEncryptedVideoAndImageIdAndKey"
  <2>1. h
    BY <1>50, <1>12
  <2>2. Moves("ContactEncryptedVideoAndImageIdAndKey", "ContactVideoIdAndImageIdAndKey",
             "main", "boxed", "id", h)
    BY <1>12, <1>13, <2>1
  <2>3. Table["ContactEncryptedVideoAndImageIdAndKey"].preSend.next[h] =
             "ContactVideoIdAndImageIdAndKey"
    BY <1>12, NextClass DEF Classes!ContactEncryptedVideoAndImageIdAndKey
  <2>4. PreSendIsRight("ContactEncryptedVideoAndImageIdAndKey", h)
    BY <2>1, <2>2, <2>3, <1>12, <1>13
       DEF LayoutName, Classes!ContactEncryptedVideoAndImageIdAndKey,
           Classes!ContactVideoIdAndImageIdAndKey
  <2>5. Moves("ContactEncryptedVideoAndImageIdAndKey", "ContactEncryptedVideoAndEncryptedImageAndKey",
             "cover", "id", "boxed", h)
    BY <1>12, <1>11, <2>1
  <2>6. Table["ContactEncryptedVideoAndImageIdAndKey"].postReceive.next[h] =
             "ContactEncryptedVideoAndEncryptedImageAndKey"
    BY <1>12, NextClass DEF Classes!ContactEncryptedVideoAndImageIdAndKey
  <2>7. PostReceiveIsRight("ContactEncryptedVideoAndImageIdAndKey", h)
    BY <2>1, <2>5, <2>6, <1>12, <1>11
       DEF Classes!ContactEncryptedVideoAndImageIdAndKey,
           Classes!ContactEncryptedVideoAndEncryptedImageAndKey
  <2> HIDE DEF PreSendIsRight, PostReceiveIsRight
  <2> QED
    BY <1>50, <2>4, <2>7
<1>51. CASE c = "ContactVideoIdAndImageIdAndKey"
  <2>1. h
    BY <1>51, <1>13
  <2>2. PreSendIsRight("ContactVideoIdAndImageIdAndKey", h)
    BY <2>1, <1>13
       DEF Classes!ContactVideoIdAndImageIdAndKey
  <2>3. Moves("ContactVideoIdAndImageIdAndKey", "ContactEncryptedVideoAndImageIdAndKey",
             "main", "id", "boxed", h)
    BY <1>13, <1>12, <2>1
  <2>4. Table["ContactVideoIdAndImageIdAndKey"].postReceive.next[h] =
             "ContactEncryptedVideoAndImageIdAndKey"
    BY <1>13, NextClass DEF Classes!ContactVideoIdAndImageIdAndKey
  <2>5. PostReceiveIsRight("ContactVideoIdAndImageIdAndKey", h)
    BY <2>1, <2>3, <2>4, <1>13, <1>12
       DEF LayoutName, Classes!ContactVideoIdAndImageIdAndKey,
           Classes!ContactEncryptedVideoAndImageIdAndKey
  <2> HIDE DEF PreSendIsRight, PostReceiveIsRight
  <2> QED
    BY <1>51, <2>2, <2>5
<1>52. CASE c = "ContactFile"
  BY <1>52, <1>14, <1>15, <1>17, NextClass
     DEF LayoutName, Classes!ContactFile, Classes!ContactEncryptedFileAndImageAndKey,
         Classes!ContactEncryptedFileAndImageIdAndKey
<1>53. CASE c = "ContactEncryptedFileAndImageAndKey"
  BY <1>53, <1>15, <1>14, <1>16, NextClass
     DEF Classes!ContactEncryptedFileAndImageAndKey, Classes!ContactFile,
         Classes!ContactEncryptedFileAndEncryptedImageAndKey
<1>54. CASE c = "ContactEncryptedFileAndEncryptedImageAndKey"
  BY <1>54, <1>16, <1>15, <1>17, NextClass
     DEF LayoutName, Classes!ContactEncryptedFileAndEncryptedImageAndKey,
         Classes!ContactEncryptedFileAndImageAndKey,
         Classes!ContactEncryptedFileAndImageIdAndKey
<1>55. CASE c = "ContactEncryptedFileAndImageIdAndKey"
  BY <1>55, <1>17, <1>16, <1>18, NextClass
     DEF LayoutName, Classes!ContactEncryptedFileAndImageIdAndKey,
         Classes!ContactEncryptedFileAndEncryptedImageAndKey,
         Classes!ContactFileIdAndImageIdAndKey
<1>56. CASE c = "ContactFileIdAndImageIdAndKey"
  BY <1>56, <1>18, <1>15, <1>17, NextClass
     DEF LayoutName, Classes!ContactFileIdAndImageIdAndKey,
         Classes!ContactEncryptedFileAndImageAndKey,
         Classes!ContactEncryptedFileAndImageIdAndKey
<1>57. CASE c = "GroupImage"
  BY <1>57, <1>19, <1>20, NextClass
     DEF Classes!GroupImage, Classes!GroupEncryptedImageAndKey
<1>58. CASE c = "GroupEncryptedImageAndKey"
  BY <1>58, <1>20, <1>19, <1>21, NextClass
     DEF LayoutName, Classes!GroupEncryptedImageAndKey, Classes!GroupImage,
         Classes!GroupImageIdAndKey
<1>59. CASE c = "GroupImageIdAndKey"
  BY <1>59, <1>21, <1>20, NextClass
     DEF Classes!GroupImageIdAndKey, Classes!GroupEncryptedImageAndKey
<1>60. CASE c = "GroupAudio"
  BY <1>60, <1>22, <1>23, NextClass
     DEF Classes!GroupAudio, Classes!GroupEncryptedAudioAndKey
<1>61. CASE c = "GroupEncryptedAudioAndKey"
  BY <1>61, <1>23, <1>22, <1>24, NextClass
     DEF LayoutName, Classes!GroupEncryptedAudioAndKey, Classes!GroupAudio,
         Classes!GroupAudioIdAndKey
<1>62. CASE c = "GroupAudioIdAndKey"
  BY <1>62, <1>24, <1>23, NextClass
     DEF Classes!GroupAudioIdAndKey, Classes!GroupEncryptedAudioAndKey
<1>63. CASE c = "GroupSetPhoto"
  BY <1>63, <1>25, <1>26, NextClass
     DEF Classes!GroupSetPhoto, Classes!GroupEncryptedGroupPhotoAndKey
<1>64. CASE c = "GroupEncryptedGroupPhotoAndKey"
  BY <1>64, <1>26, <1>25, <1>27, NextClass
     DEF LayoutName, Classes!GroupEncryptedGroupPhotoAndKey, Classes!GroupSetPhoto,
         Classes!GroupGroupPhotoIdAndKey
<1>65. CASE c = "GroupGroupPhotoIdAndKey"
  BY <1>65, <1>27, <1>26, NextClass
     DEF Classes!GroupGroupPhotoIdAndKey, Classes!GroupEncryptedGroupPhotoAndKey
<1>66. CASE c = "GroupVideo"
  <2>1. h
    BY <1>66, <1>28
  <2>2. Moves("GroupVideo", "GroupEncryptedVideoAndImageAndKey",
             "main", "plain", "boxed", h)
    BY <1>28, <1>29, <2>1
  <2>3. Table["GroupVideo"].preSend.next[h] =
             "GroupEncryptedVideoAndImageAndKey"
    BY <1>28, NextClass DEF Classes!GroupVideo
  <2>4. PreSendIsRight("GroupVideo", h)
    BY <2>1, <2>2, <2>3, <1>28, <1>29
       DEF Classes!GroupVideo, Classes!GroupEncryptedVideoAndImageAndKey
  <2>5. PostReceiveIsRight("GroupVideo", h)
    BY <2>1, <1>28
       DEF Classes!GroupVideo
  <2> HIDE DEF PreSendIsRight, PostReceiveIsRight
  <2> QED
    BY <1>66, <2>4, <2>5
<1>67. CASE c = "GroupEncryptedVideoAndImageAndKey"
  <2>1. h
    BY <1>67, <1>29
  <2>2. Moves("GroupEncryptedVideoAndImageAndKey", "GroupEncryptedVideoAndEncryptedImageAndKey",
             "cover", "plain", "boxed", h)
    BY <1>29, <1>30, <2>1
  <2>3. Table["GroupEncryptedVideoAndImageAndKey"].preSend.next[h] =
             "GroupEncryptedVideoAndEncryptedImageAndKey"
    BY <1>29, NextClass DEF Classes!GroupEncryptedVideoAndImageAndKey
  <2>4. PreSendIsRight("GroupEncryptedVideoAndImageAndKey", h)
    BY <2>1, <2>2, <2>3, <1>29, <1>30
       DEF Classes!GroupEncryptedVideoAndImageAndKey,
           Classes!GroupEncryptedVideoAndEncryptedImageAndKey
  <2>5. Moves("GroupEncryptedVideoAndImageAndKey", "GroupVideo",
             "main", "boxed", "plain", h)
    BY <1>29, <1>28, <2>1
  <2>6. Table["GroupEncryptedVideoAndImageAndKey"].postReceive.next[h] =
             "GroupVideo"
    BY <1>29, NextClass DEF Classes!GroupEncryptedVideoAndImageAndKey
  <2>7. PostReceiveIsRight("GroupEncryptedVideoAndImageAndKey", h)
    BY <2>1, <2>5, <2>6, <1>29, <1>28
       DEF Classes!GroupEncryptedVideoAndImageAndKey, Classes!GroupVideo
  <2> HIDE DEF PreSendIsRight, PostReceiveIsRight
  <2> QED
    BY <1>67, <2>4, <2>7
<1>68. CASE c = "GroupEncryptedVideoAndEncryptedImageAndKey"
  <2>1. h
    BY <1>68, <1>30
  <2>2. Moves("GroupEncryptedVideoAndEncryptedImageAndKey", "GroupEncryptedVideoAndImageIdAndKey",
             "cover", "boxed", "id", h)
    BY <1>30, <1>31, <2>1
  <2>3. Table["GroupEncryptedVideoAndEncryptedImageAndKey"].preSend.next[h] =
             "GroupEncryptedVideoAndImageIdAndKey"
    BY <1>30, NextClass DEF Classes!GroupEncryptedVideoAndEncryptedImageAndKey
  <2>4. PreSendIsRight("GroupEncryptedVideoAndEncryptedImageAndKey", h)
    BY <2>1, <2>2, <2>3, <1>30, <1>31
       DEF LayoutName, Classes!GroupEncryptedVideoAndEncryptedImageAndKey,
           Classes!GroupEncryptedVideoAndImageIdAndKey
  <2>5. Moves("GroupEncryptedVideoAndEncryptedImageAndKey", "GroupEncryptedVideoAndImageAndKey",
             "cover", "boxed", "plain", h)
    BY <1>30, <1>29, <2>1
  <2>6. Table["GroupEncryptedVideoAndEncryptedImageAndKey"].postReceive.next[h] =
             "GroupEncryptedVideoAndImageAndKey"
    BY <1>30, NextClass DEF Classes!GroupEncryptedVideoAndEncryptedImageAndKey
  <2>7. PostReceiveIsRight("GroupEncryptedVideoAndEncryptedImageAndKey", h)
    BY <2>1, <2>5, <2>6, <1>30, <1>29
       DEF Classes!GroupEncryptedVideoAndEncryptedImageAndKey,
           Classes!GroupEncryptedVideoAndImageAndKey
  <2> HIDE DEF PreSendIsRight, PostReceiveIsRight
  <2> QED
    BY <1>68, <2>4, <2>7
<1>69. CASE c = "GroupEncryptedVideoAndImageIdAndKey"
  <2>1. h
    BY <1>69, <1>31
  <2>2. Moves("GroupEncryptedVideoAndImageIdAndKey", "GroupVideoIdAndImageIdAndKey",
             "main", "boxed", "id", h)
    BY <1>31, <1>32, <2>1
  <2>3. Table["GroupEncryptedVideoAndImageIdAndKey"].preSend.next[h] =
             "GroupVideoIdAndImageIdAndKey"
    BY <1>31, NextClass DEF Classes!GroupEncryptedVideoAndImageIdAndKey
  <2>4. PreSendIsRight("GroupEncryptedVideoAndImageIdAndKey", h)
    BY <2>1, <2>2, <2>3, <1>31, <1>32
       DEF LayoutName, Classes!GroupEncryptedVideoAndImageIdAndKey,
           Classes!GroupVideoIdAndImageIdAndKey
  <2>5. Moves("GroupEncryptedVideoAndImageIdAndKey", "GroupEncryptedVideoAndEncryptedImageAndKey",
             "cover", "id", "boxed", h)
    BY <1>31, <1>30, <2>1
  <2>6. Table["GroupEncryptedVideoAndImageIdAndKey"].postReceive.next[h] =
             "GroupEncryptedVideoAndEncryptedImageAndKey"
    BY <1>31, NextClass DEF Classes!GroupEncryptedVideoAndImageIdAndKey
  <2>7. PostReceiveIsRight("GroupEncryptedVideoAndImageIdAndKey", h)
    BY <2>1, <2>5, <2>6, <1>31, <1>30
       DEF Classes!GroupEncryptedVideoAndImageIdAndKey,
           Classes!GroupEncryptedVideoAndEncryptedImageAndKey
  <2> HIDE DEF PreSendIsRight, PostReceiveIsRight
  <2> QED
    BY <1>69, <2>4, <2>7
<1>70. CASE c = "GroupVideoIdAndImageIdAndKey"
  <2>1. h
    BY <1>70, <1>32
  <2>2. PreSendIsRight("GroupVideoIdAndImageIdAndKey", h)
    BY <2>1, <1>32
       DEF Classes!GroupVideoIdAndImageIdAndKey
  <2>3. Moves("GroupVideoIdAndImageIdAndKey", "GroupEncryptedVideoAndImageIdAndKey",
             "main", "id", "boxed", h)
    BY <1>32, <1>31, <2>1
  <2>4. Table["GroupVideoIdAndImageIdAndKey"].postReceive.next[h] =
             "GroupEncryptedVideoAndImageIdAndKey"
    BY <1>32, NextClass DEF Classes!GroupVideoIdAndImageIdAndKey
  <2>5. PostReceiveIsRight("GroupVideoIdAndImageIdAndKey", h)
    BY <2>1, <2>3, <2>4, <1>32, <1>31
       DEF LayoutName, Classes!GroupVideoIdAndImageIdAndKey,
           Classes!GroupEncryptedVideoAndImageIdAndKey
  <2> HIDE DEF PreSendIsRight, PostReceiveIsRight
  <2> QED
    BY <1>70, <2>2, <2>5
<1>71. CASE c = "GroupFile"
  BY <1>71, <1>33, <1>34, <1>36, NextClass
     DEF LayoutName, Classes!GroupFile, Classes!GroupEncryptedFileAndImageAndKey,
         Classes!GroupEncryptedFileAndImageIdAndKey
<1>72. CASE c = "GroupEncryptedFileAndImageAndKey"
  BY <1>72, <1>34, <1>33, <1>35, NextClass
     DEF Classes!GroupEncryptedFileAndImageAndKey, Classes!GroupFile,
         Classes!GroupEncryptedFileAndEncryptedImageAndKey
<1>73. CASE c = "GroupEncryptedFileAndEncryptedImageAndKey"
  BY <1>73, <1>35, <1>34, <1>36, NextClass
     DEF LayoutName, Classes!GroupEncryptedFileAndEncryptedImageAndKey,
         Classes!GroupEncryptedFileAndImageAndKey,
         Classes!GroupEncryptedFileAndImageIdAndKey
<1>74. CASE c = "GroupEncryptedFileAndImageIdAndKey"
  BY <1>74, <1>36, <1>35, <1>37, NextClass
     DEF LayoutName, Classes!GroupEncryptedFileAndImageIdAndKey,
         Classes!GroupEncryptedFileAndEncryptedImageAndKey,
         Classes!GroupFileIdAndImageIdAndKey
<1>75. CASE c = "GroupFileIdAndImageIdAndKey"
  BY <1>75, <1>37, <1>34, <1>36, NextClass
     DEF LayoutName, Classes!GroupFileIdAndImageIdAndKey,
         Classes!GroupEncryptedFileAndImageAndKey,
         Classes!GroupEncryptedFileAndImageIdAndKey
<1> QED
  BY <1>38, <1>39, <1>40, <1>41, <1>42, <1>43, <1>44, <1>45, <1>46, <1>47, <1>48, <1>49,
     <1>50, <1>51, <1>52, <1>53, <1>54, <1>55, <1>56, <1>57, <1>58, <1>59, <1>60, <1>61,
     <1>62, <1>63, <1>64, <1>65, <1>66, <1>67, <1>68, <1>69, <1>70, <1>71, <1>72, <1>73,
     <1>74, <1>75

(* The classes that travel, and those a message begins and ends with.      *)
LEMMA LayoutsAre ==
    ASSUME NEW c \in DOMAIN LayoutName
    PROVE  /\ c \in DOMAIN Form /\ LayoutName[c] = Form[c].family /\ Form[c].main = "id"
           /\ Table[c].preSend.task = "none" /\ \A h \in BOOLEAN : OnWayIn(c, h)
<1> DEFINE Travels(x) ==
             /\ x \in DOMAIN Form /\ LayoutName[x] = Form[x].family /\ Form[x].main = "id"
             /\ Table[x].preSend.task = "none" /\ Table[x].postReceive.part = "main"
<1> USE DEF LayoutName, Form, Is, Table, Classes!ContentClass, Classes!Step, Classes!NoStep,
            Classes!Download
<1>1. Travels("ContactImageIdAndKey")
  BY DEF Classes!ContactImageIdAndKey
<1>2. Travels("ContactAudioIdAndKey")
  BY DEF Classes!ContactAudioIdAndKey
<1>3. Travels("ContactVideoIdAndImageIdAndKey")
  BY DEF Classes!ContactVideoIdAndImageIdAndKey
<1>4. Travels("ContactFileIdAndImageIdAndKey")
  BY DEF Classes!ContactFileIdAndImageIdAndKey
<1>5. Travels("GroupImageIdAndKey")
  BY DEF Classes!GroupImageIdAndKey
<1>6. Travels("GroupAudioIdAndKey")
  BY DEF Classes!GroupAudioIdAndKey
<1>7. Travels("GroupVideoIdAndImageIdAndKey")
  BY DEF Classes!GroupVideoIdAndImageIdAndKey
<1>8. Travels("GroupFileIdAndImageIdAndKey")
  BY DEF Classes!GroupFileIdAndImageIdAndKey
<1>9. Travels("GroupGroupPhotoIdAndKey")
  BY DEF Classes!GroupGroupPhotoIdAndKey
<1>10. c \in {"ContactImageIdAndKey", "ContactAudioIdAndKey", "ContactVideoIdAndImageIdAndKey",
              "ContactFileIdAndImageIdAndKey", "GroupImageIdAndKey", "GroupAudioIdAndKey",
              "GroupVideoIdAndImageIdAndKey", "GroupFileIdAndImageIdAndKey",
              "GroupGroupPhotoIdAndKey"}
  OBVIOUS
<1> HIDE DEF Travels, LayoutName, Form, Table
<1>11. Travels(c)
  BY <1>1, <1>2, <1>3, <1>4, <1>5, <1>6, <1>7, <1>8, <1>9, <1>10
<1> QED
  BY <1>11 DEF Travels, OnWayIn

LEMMA KindsAreClasses ==
    ASSUME NEW c \in ContactKinds \cup GroupKinds
    PROVE  /\ c \in DOMAIN Form /\ Form[c] = Is(c, "plain", "plain")
           /\ Table[c].preSend.task # "none" /\ \A h \in BOOLEAN : OnWayOut(c, h)
<1> DEFINE Begins(x) ==
             /\ x \in DOMAIN Form /\ Form[x] = Is(x, "plain", "plain")
             /\ Table[x].preSend.task # "none" /\ Table[x].preSend.part = "main"
<1> USE DEF Form, Table, Classes!ContentClass, Classes!Step, Classes!Encrypt
<1>1. Begins("ContactImage")
  BY DEF Classes!ContactImage
<1>2. Begins("ContactAudio")
  BY DEF Classes!ContactAudio
<1>3. Begins("ContactVideo")
  BY DEF Classes!ContactVideo
<1>4. Begins("ContactFile")
  BY DEF Classes!ContactFile
<1>5. Begins("GroupImage")
  BY DEF Classes!GroupImage
<1>6. Begins("GroupAudio")
  BY DEF Classes!GroupAudio
<1>7. Begins("GroupVideo")
  BY DEF Classes!GroupVideo
<1>8. Begins("GroupFile")
  BY DEF Classes!GroupFile
<1>9. Begins("GroupSetPhoto")
  BY DEF Classes!GroupSetPhoto
<1> HIDE DEF Begins, Form, Table
<1>10. Begins(c)
  BY <1>1, <1>2, <1>3, <1>4, <1>5, <1>6, <1>7, <1>8, <1>9 DEF ContactKinds, GroupKinds
<1> QED
  BY <1>10 DEF Begins, OnWayOut

LEMMA FormsAre ==
    ASSUME NEW c \in DOMAIN Form
    PROVE  Form[c].main \in {"plain", "boxed", "id"} /\ Form[c].cover \in {"plain", "boxed", "id"}
  BY DEF Form, Is

LEMMA KindFits ==
    ASSUME NEW k \in Kinds
    PROVE  k[1] \in ContactKinds \cup GroupKinds /\ k[2] \in BOOLEAN /\ Fits(k[1], k[2])
<1>1. /\ k[1] \in ContactKinds \cup GroupKinds /\ k[2] \in BOOLEAN
      /\ k[1] \in {"ContactVideo", "GroupVideo"} => k[2]
      /\ k[2] => k[1] \in {"ContactVideo", "GroupVideo", "ContactFile", "GroupFile"}
  BY MediaTransferAssumption
<1> QED
  BY <1>1 DEF Fits, WithCover

-----------------------------------------------------------------------------
(* One content and one step.                                               *)

Content(class, main, cover, key, blob) ==
    [class |-> class, main |-> main, cover |-> cover, key |-> key, blob |-> blob]

WithMain(c, n, x) == [c EXCEPT !.class = n, !.main = x]
WithCoverAs(c, n, x) == [c EXCEPT !.class = n, !.cover = x]
WithKey(c, x) == [c EXCEPT !.key = x]
WithBlob(c, x) == [c EXCEPT !.blob = x]

LEMMA ContentExcept ==
    ASSUME NEW class, NEW main, NEW cover, NEW key, NEW blob, NEW n, NEW x,
           NEW c, c = Content(class, main, cover, key, blob)
    PROVE  /\ WithMain(c, n, x) = Content(n, x, cover, key, blob)
           /\ WithCoverAs(c, n, x) = Content(n, main, x, key, blob)
<1>2. [c EXCEPT !.class = n, !.main = x] = Content(n, x, cover, key, blob)
  <2> DEFINE e == [c EXCEPT !.class = n, !.main = x]
  <2>1. DOMAIN e = {"class", "main", "cover", "key", "blob"}
    BY DEF Content
  <2>2. e.class = n /\ e.main = x /\ e.key = key /\ e.blob = blob
    BY DEF Content
  <2>3. e.cover = cover
    BY DEF Content
  <2>4. e = [i \in DOMAIN e |-> e[i]]
    OBVIOUS
  <2> HIDE DEF e
  <2>5. e = Content(e.class, e.main, e.cover, e.key, e.blob)
    BY <2>1, <2>4 DEF Content
  <2>6. e = Content(n, x, cover, key, blob)
    BY <2>2, <2>3, <2>5
  <2> QED
    BY <2>6 DEF e
<1>3. [c EXCEPT !.class = n, !.cover = x] = Content(n, main, x, key, blob)
  <2> DEFINE e == [c EXCEPT !.class = n, !.cover = x]
  <2>1. DOMAIN e = {"class", "main", "cover", "key", "blob"}
    BY DEF Content
  <2>2. e.class = n /\ e.cover = x /\ e.key = key /\ e.blob = blob
    BY DEF Content
  <2>3. e.main = main
    BY DEF Content
  <2>4. e = [i \in DOMAIN e |-> e[i]]
    OBVIOUS
  <2> HIDE DEF e
  <2>5. e = Content(e.class, e.main, e.cover, e.key, e.blob)
    BY <2>1, <2>4 DEF Content
  <2>6. e = Content(n, main, x, key, blob)
    BY <2>2, <2>3, <2>5
  <2> QED
    BY <2>6 DEF e
<1> QED
  BY <1>2, <1>3 DEF WithMain, WithCoverAs

(* The content whose class is n and whose part has become x.               *)
Changed(c, n, part, x, key, blob) ==
    Content(n, IF part = "main" THEN x ELSE c.main, IF part = "main" THEN c.cover ELSE x, key, blob)

LEMMA ChangedIs ==
    ASSUME NEW c, NEW n, NEW part, NEW x, NEW key, NEW blob, NEW y,
           NEW d, d = Changed(c, n, part, x, key, blob)
    PROVE  /\ WithKey(d, y) = Changed(c, n, part, x, y, blob)
           /\ WithBlob(d, y) = Changed(c, n, part, x, key, y)
           /\ d.class = n /\ d.key = key /\ d.blob = blob
<1> DEFINE main  == IF part = "main" THEN x ELSE c.main
           cover == IF part = "main" THEN c.cover ELSE x
<1>1. /\ d = Content(n, main, cover, key, blob)
      /\ Changed(c, n, part, x, y, blob) = Content(n, main, cover, y, blob)
      /\ Changed(c, n, part, x, key, y) = Content(n, main, cover, key, y)
  BY DEF Changed
<1> HIDE DEF main, cover
<1>2. WithKey(d, y) = Content(n, main, cover, y, blob)
  BY <1>1 DEF WithKey, Content
<1>3. WithBlob(d, y) = Content(n, main, cover, key, y)
  BY <1>1 DEF WithBlob, Content
<1>4. d.class = n /\ d.key = key /\ d.blob = blob
  BY <1>1 DEF Content
<1> QED
  BY <1>1, <1>2, <1>3, <1>4

LEMMA WholeContent ==
    ASSUME NEW k, NEW a, NEW c, Whole(k, a, c)
    PROVE  /\ c = Content(c.class, c.main, c.cover, c.key, c.blob)
           /\ c.key \in Keys /\ c.blob \in Ids
           /\ c.class \in DOMAIN Form /\ Form[c.class].family = k[1]
           /\ c.main = InForm(k, a, "main", Form[c.class].main)
           /\ k[2] => c.cover = InForm(k, a, "cover", Form[c.class].cover)
           /\ ~k[2] => c.cover = Classes!Empty
           /\ (~k[2] /\ Form[c.class].main # "plain") => c.key = Key(a, "main")
  BY DEF Whole, Content

LEMMA FormsOfParts ==
    ASSUME NEW k, NEW a, NEW p
    PROVE  /\ InForm(k, a, p, "plain") = Original(p) /\ InForm(k, a, p, "boxed") = BoxOf(k, a, p)
           /\ InForm(k, a, p, "id") = Id(a, p)
  BY DEF InForm

LEMMA NoPartIsEmpty ==
    ASSUME NEW k, NEW a, NEW p \in Parts
    PROVE  /\ Original(p) # Classes!Empty /\ BoxOf(k, a, p) # Classes!Empty
           /\ Id(a, p) # Classes!Empty
<1>1. Original(p) # Classes!Empty
  BY DEF Original, Classes!Empty
<1>2. BoxOf(k, a, p) # Classes!Empty
  BY DEF BoxOf, Classes!Box, Classes!Empty
<1>3. Id(a, p) # Classes!Empty
  BY DEF Id, Classes!Empty
<1> QED
  BY <1>1, <1>2, <1>3

LEMMA CoverTells ==
    ASSUME NEW k \in Kinds, NEW a, NEW c, Whole(k, a, c)
    PROVE  (c.cover # Classes!Empty) = k[2]
<1>1. k[2] \in BOOLEAN
  BY KindFits
<1>2. c.class \in DOMAIN Form
  BY WholeContent
<1>3. InForm(k, a, "cover", Form[c.class].cover) # Classes!Empty
  <2>1. "cover" \in Parts
    BY DEF Parts
  <2>2. Form[c.class].cover \in {"plain", "boxed", "id"}
    BY <1>2, FormsAre
  <2> QED
    BY <2>1, <2>2, FormsOfParts, NoPartIsEmpty
<1>4. CASE k[2] = TRUE
  <2>1. c.cover # Classes!Empty
    BY <1>3, <1>4, WholeContent
  <2> QED
    BY <2>1, <1>4, Zenon
<1>5. CASE k[2] = FALSE
  <2>1. c.cover = Classes!Empty
    BY <1>5, WholeContent
  <2> QED
    BY <2>1, <1>5, Zenon
<1> QED
  BY <1>1, <1>4, <1>5

(* The part a task works on.                                               *)
LEMMA PartIs ==
    ASSUME NEW k \in Kinds, NEW a, NEW c, Whole(k, a, c), NEW step, NEW n, NEW from, NEW to,
           Moves(c.class, n, step.part, from, to, k[2])
    PROVE  step.part \in Parts /\ (~k[2] => step.part = "main")
           /\ Part(c, step) = InForm(k, a, step.part, from)
<1>1. step.part \in Parts /\ (~k[2] => step.part = "main")
  BY DEF Moves
<1>2. CASE step.part = "main"
  <2>1. Form[c.class].main = from
    BY <1>2 DEF Moves
  <2> QED
    BY <2>1, <1>1, <1>2, WholeContent DEF Part
<1>3. CASE step.part = "cover"
  <2>1. Form[c.class].cover = from /\ k[2]
    BY <1>1, <1>3 DEF Moves
  <2> QED
    BY <2>1, <1>1, <1>3, WholeContent DEF Part
<1> QED
  BY <1>1, <1>2, <1>3 DEF Parts

LEMMA BecomesIs ==
    ASSUME NEW k \in Kinds, NEW a, NEW c, Whole(k, a, c), NEW step, NEW x
    PROVE  Becomes(c, step, x) =
             Changed(c, step.next[k[2]], step.part, x, c.key, c.blob)
<1>1. c = Content(c.class, c.main, c.cover, c.key, c.blob)
  BY WholeContent
<1>2. (c.cover # Classes!Empty) = k[2]
  BY CoverTells
<1> DEFINE n == step.next[k[2]]
<1>3. Becomes(c, step, x) = IF step.part = "main" THEN [c EXCEPT !.class = n, !.main = x]
                                                ELSE [c EXCEPT !.class = n, !.cover = x]
  BY <1>2 DEF Becomes
<1> HIDE DEF n
<1>4. /\ WithMain(c, n, x) = Content(n, x, c.cover, c.key, c.blob)
      /\ WithCoverAs(c, n, x) = Content(n, c.main, x, c.key, c.blob)
  BY <1>1, ContentExcept
<1>5. Becomes(c, step, x) = IF step.part = "main" THEN WithMain(c, n, x) ELSE WithCoverAs(c, n, x)
  BY <1>3, Zenon DEF WithMain, WithCoverAs
<1> QED
  BY <1>4, <1>5 DEF n, Changed

(* A content stays whole when one of its parts takes another form and its  *)
(* class says so.                                                          *)
LEMMA MovesKeepWhole ==
    ASSUME NEW k \in Kinds, NEW a \in Attempts, NEW c, Whole(k, a, c),
           NEW n, NEW part, NEW from, NEW to, Moves(c.class, n, part, from, to, k[2]),
           NEW key \in Keys, NEW blob \in Ids,
           (~k[2] /\ Form[n].main # "plain") => key = Key(a, "main"),
           NEW x, x = InForm(k, a, part, to)
    PROVE  Whole(k, a, Changed(c, n, part, x, key, blob))
<1> DEFINE d == Changed(c, n, part, x, key, blob)
<1>1. /\ d = Content(d.class, d.main, d.cover, d.key, d.blob)
      /\ d.class = n /\ d.main = (IF part = "main" THEN x ELSE c.main)
      /\ d.cover = (IF part = "main" THEN c.cover ELSE x) /\ d.key = key /\ d.blob = blob
  BY DEF Content, Changed
<1> HIDE DEF d
<1>2. n \in DOMAIN Form /\ Form[n].family = k[1] /\ part \in Parts /\ (~k[2] => part = "main")
  BY WholeContent DEF Moves
<1>3. d.main = InForm(k, a, "main", Form[n].main)
  <2>1. CASE part = "main"
    BY <2>1, <1>1 DEF Moves
  <2>2. CASE part = "cover"
    <3>1. Form[n].main = Form[c.class].main
      BY <2>2 DEF Moves
    <3> QED
      BY <3>1, <2>2, <1>1, WholeContent
  <2> QED
    BY <2>1, <2>2, <1>2 DEF Parts
<1>4. CASE k[2]
  <2>1. d.cover = InForm(k, a, "cover", Form[n].cover)
    <3>1. CASE part = "main"
      <4>1. Form[n].cover = Form[c.class].cover
        BY <3>1, <1>4 DEF Moves
      <4> QED
        BY <4>1, <3>1, <1>1, <1>4, WholeContent
    <3>2. CASE part = "cover"
      BY <3>2, <1>1 DEF Moves
    <3> QED
      BY <3>1, <3>2, <1>2 DEF Parts
  <2> QED
    BY <2>1, <1>1, <1>2, <1>3, <1>4 DEF Whole, Content, d
<1>5. CASE ~k[2]
  <2>1. d.cover = Classes!Empty
    BY <1>1, <1>2, <1>5, WholeContent
  <2> QED
    BY <2>1, <1>1, <1>2, <1>3, <1>5 DEF Whole, Content, d
<1> QED
  BY <1>4, <1>5

(* What the tables say of the steps of a content under way.                *)
LEMMA TablesOfAContent ==
    ASSUME NEW k \in Kinds, NEW a, NEW c, Whole(k, a, c)
    PROVE  /\ OnWayOut(c.class, k[2]) => PreSendIsRight(c.class, k[2])
           /\ OnWayIn(c.class, k[2]) => PostReceiveIsRight(c.class, k[2])
<1>1. c.class \in DOMAIN Form /\ Form[c.class].family = k[1]
  BY WholeContent
<1>2. k[2] \in BOOLEAN /\ Fits(k[1], k[2])
  BY KindFits
<1>3. StepsAreRight(c.class, k[2])
  BY <1>1, <1>2, ChainsAreRight
<1> QED
  BY <1>3, Zenon DEF StepsAreRight

(* The tasks before sending.                                               *)
LEMMA PostedLeaves ==
    ASSUME NEW k \in Kinds, kind = k, NEW a \in Attempts
    PROVE  Leaving(k, a, Posted)
<1>1. k[1] \in ContactKinds \cup GroupKinds /\ k[2] \in BOOLEAN
  BY KindFits
<1>2. /\ k[1] \in DOMAIN Form /\ Form[k[1]] = Is(k[1], "plain", "plain")
      /\ Table[k[1]].preSend.task # "none" /\ OnWayOut(k[1], k[2])
  BY <1>1, KindsAreClasses
<1>3. Posted = Content(k[1], Original("main"), IF k[2] THEN Original("cover") ELSE Classes!Empty,
                       Classes!Empty, Classes!Empty)
  BY DEF Posted, Content, Original
<1>4. Form[k[1]].family = k[1] /\ Form[k[1]].main = "plain" /\ Form[k[1]].cover = "plain"
  BY <1>2 DEF Is
<1> DEFINE c == Posted
<1>5. /\ c = Content(c.class, c.main, c.cover, c.key, c.blob)
      /\ c.class = k[1] /\ c.main = Original("main")
      /\ c.cover = (IF k[2] THEN Original("cover") ELSE Classes!Empty)
      /\ c.key = Classes!Empty /\ c.blob = Classes!Empty
  BY <1>3 DEF Content
<1>6. Classes!Empty \in Keys /\ Classes!Empty \in Ids
  BY DEF Keys, Ids
<1> HIDE DEF c
<1>7. Whole(k, a, c)
  BY <1>2, <1>4, <1>5, <1>6, FormsOfParts DEF Whole, Content
<1>8. Leaving(k, a, c)
  BY <1>2, <1>5, <1>7 DEF Leaving, PreSend, Table
<1> QED
  BY <1>8 DEF c

LEMMA EncryptStep ==
    ASSUME NEW k \in Kinds, NEW a \in Attempts, NEW c, Whole(k, a, c), OnWayOut(c.class, k[2]),
           PreSend(c).task = "encrypt"
    PROVE  Leaving(k, a, Encrypted(c, PreSend(c), a))
<1> DEFINE step == PreSend(c)
           n    == step.next[k[2]]
           key  == Key(a, step.part)
           x    == Classes!Box(Part(c, step), key, step.nonce)
           d    == Becomes(c, step, x)
           e    == Encrypted(c, step, a)
<1>1. /\ Moves(c.class, n, step.part, "plain", "boxed", k[2]) /\ OnWayOut(n, k[2])
      /\ step.nonce = NonceOf(Form[c.class].family, step.part)
      /\ Table[n].preSend.task # "none"
  BY TablesOfAContent DEF PreSendIsRight, PreSend, Table
<1> HIDE DEF step, n
<1>2. step.part \in Parts /\ (~k[2] => step.part = "main")
      /\ Part(c, step) = Original(step.part)
  BY <1>1, PartIs, FormsOfParts
<1>3. x = InForm(k, a, step.part, "boxed")
  BY <1>1, <1>2, WholeContent, FormsOfParts DEF BoxOf
<1>4. Fresh("key", a, step) = key
  BY DEF Fresh, Key
<1>5. e = WithKey(d, key)
  BY <1>4, Zenon DEF Encrypted, WithKey
<1> HIDE DEF x, d, e
<1>6. d = Changed(c, n, step.part, x, c.key, c.blob)
  BY BecomesIs DEF d, n
<1>7. e = Changed(c, n, step.part, x, key, c.blob)
  BY <1>5, <1>6, ChangedIs
<1>8. key \in Keys
  BY <1>2 DEF Keys
<1>9. c.blob \in Ids
  BY WholeContent
<1>10. Whole(k, a, e)
  BY <1>1, <1>2, <1>3, <1>7, <1>8, <1>9, MovesKeepWhole
<1>11. e.class = n
  BY <1>7, ChangedIs
<1>12. Leaving(k, a, e)
  BY <1>1, <1>10, <1>11 DEF Leaving, PreSend, Table
<1> QED
  BY <1>12 DEF e, step

LEMMA UploadStep ==
    ASSUME NEW k \in Kinds, NEW a \in Attempts, NEW c, Whole(k, a, c), OnWayOut(c.class, k[2]),
           PreSend(c).task = "upload",
           NEW id, id = Fresh("blob", a, PreSend(c)),
           NEW d, d = Becomes(c, PreSend(c), id)
    PROVE  /\ id = Id(a, PreSend(c).part) /\ PreSend(c).part \in Parts
           /\ Part(c, PreSend(c)) = BoxOf(k, a, PreSend(c).part)
           /\ Whole(k, a, d) /\ OnWayOut(d.class, k[2])
           /\ PreSend(d).task = "none" => PreSend(c).part = "main" /\ d.class \in DOMAIN LayoutName
<1> DEFINE step == PreSend(c)
           n    == step.next[k[2]]
<1>1. /\ Moves(c.class, n, step.part, "boxed", "id", k[2]) /\ OnWayOut(n, k[2])
      /\ Table[n].preSend.task = "none" => step.part = "main" /\ n \in DOMAIN LayoutName
  BY TablesOfAContent DEF PreSendIsRight, PreSend, Table
<1>2. id = Fresh("blob", a, step) /\ d = Becomes(c, step, id)
  OBVIOUS
<1> HIDE DEF step, n
<1>3. step.part \in Parts /\ (~k[2] => step.part = "main")
      /\ Part(c, step) = BoxOf(k, a, step.part)
  BY <1>1, PartIs, FormsOfParts
<1>4. id = Id(a, step.part) /\ id = InForm(k, a, step.part, "id")
  BY <1>2, FormsOfParts DEF Fresh, Id
<1>5. d = Changed(c, n, step.part, id, c.key, c.blob)
  BY <1>2, BecomesIs DEF n
<1>6. (~k[2] /\ Form[n].main # "plain") => c.key = Key(a, "main")
  <2>1. ~k[2] => Form[c.class].main = "boxed"
    BY <1>1, <1>3 DEF Moves
  <2> QED
    BY <2>1, WholeContent
<1>7. c.key \in Keys /\ c.blob \in Ids
  BY WholeContent
<1>8. Whole(k, a, d)
  BY <1>1, <1>4, <1>5, <1>6, <1>7, MovesKeepWhole
<1>9. d.class = n
  BY <1>5, ChangedIs
<1> QED
  BY <1>1, <1>3, <1>4, <1>8, <1>9 DEF PreSend, Table, step

(* The tasks after receiving.                                              *)
LEMMA DownloadKeeps ==
    ASSUME NEW k \in Kinds, NEW a \in Attempts, NEW c, Arriving(k, a, c),
           PostReceive(c).task = "download",
           NEW x, x = InForm(k, a, PostReceive(c).part, "boxed"),
           NEW id \in Ids, id # Classes!Empty,
           NEW d, d = [Becomes(c, PostReceive(c), x) EXCEPT !.blob = id]
    PROVE  Arriving(k, a, d)
<1> DEFINE step == PostReceive(c)
           n    == step.next[k[2]]
           e    == Becomes(c, step, x)
<1>0. Whole(k, a, c) /\ OnWayIn(c.class, k[2])
  BY DEF Arriving
<1>1. Moves(c.class, n, step.part, "id", "boxed", k[2]) /\ OnWayIn(n, k[2])
  BY <1>0, TablesOfAContent DEF PostReceiveIsRight, PostReceive, Table
<1>2. d = WithBlob(e, id)
  BY Zenon DEF WithBlob
<1>3. x = InForm(k, a, step.part, "boxed")
  OBVIOUS
<1> HIDE DEF step, n, e
<1>4. ~k[2] => step.part = "main"
  BY <1>1 DEF Moves
<1>5. e = Changed(c, n, step.part, x, c.key, c.blob)
  BY <1>0, BecomesIs DEF e, n
<1>6. d = Changed(c, n, step.part, x, c.key, id)
  BY <1>2, <1>5, ChangedIs
<1>7. (~k[2] /\ Form[n].main # "plain") => c.key = Key(a, "main")
  <2>1. ~k[2] => Form[c.class].main = "id"
    BY <1>1, <1>4 DEF Moves
  <2> QED
    BY <2>1, <1>0, WholeContent
<1>8. c.key \in Keys
  BY <1>0, WholeContent
<1>9. ASSUME NEW y, y = Changed(c, n, step.part, x, c.key, id)
      PROVE  Arriving(k, a, y)
  <2>1. Whole(k, a, y)
    BY <1>0, <1>1, <1>3, <1>7, <1>8, <1>9, MovesKeepWhole
  <2>2. y.class = n /\ y.blob = id
    BY <1>9, ChangedIs
  <2> QED
    BY <1>1, <2>1, <2>2 DEF Arriving
<1> QED
  BY <1>6, <1>9

LEMMA DownloadStep ==
    ASSUME NEW k \in Kinds, NEW a \in Attempts, NEW c, Arriving(k, a, c),
           PostReceive(c).task = "download",
           NEW o \in Attempts, NEW p \in Parts, Id(o, p) = Part(c, PostReceive(c)),
           NEW d, d = [Becomes(c, PostReceive(c), BoxOf(k, o, p)) EXCEPT !.blob = Id(o, p)]
    PROVE  Arriving(k, a, d)
<1> DEFINE step == PostReceive(c)
<1>1. PICK n : Moves(c.class, n, step.part, "id", "boxed", k[2])
  BY TablesOfAContent DEF PostReceiveIsRight, PostReceive, Table, Arriving
<1>2. Whole(k, a, c)
  BY DEF Arriving
<1> HIDE DEF step
<1>3. step.part \in Parts /\ Part(c, step) = Id(a, step.part)
  <2>1. step.part \in Parts /\ Part(c, step) = InForm(k, a, step.part, "id")
    BY <1>1, <1>2, PartIs
  <2> QED
    BY <2>1, FormsOfParts
<1>4. Id(o, p) = Part(c, step)
  BY DEF step
<1>5. o = a /\ p = step.part
  BY <1>3, <1>4 DEF Id
<1>6. BoxOf(k, o, p) = InForm(k, a, step.part, "boxed")
  BY <1>5, FormsOfParts
<1>7. Id(o, p) \in Ids /\ Id(o, p) # Classes!Empty
  BY NoPartIsEmpty DEF Ids
<1>8. ASSUME NEW x, x = InForm(k, a, step.part, "boxed"), NEW id \in Ids, id # Classes!Empty,
             d = [Becomes(c, step, x) EXCEPT !.blob = id]
      PROVE  Arriving(k, a, d)
  BY <1>8, DownloadKeeps DEF step
<1> QED
  BY <1>6, <1>7, <1>8 DEF step

LEMMA DeleteStep ==
    ASSUME NEW k \in Kinds, NEW a \in Attempts, NEW c, Arriving(k, a, c),
           PostReceive(c).task = "delete",
           NEW d, d = Becomes(c, PostReceive(c), c.main)
    PROVE  Arriving(k, a, d) /\ Past(d) /\ k[1] \in {"ContactImage", "ContactAudio"}
<1> DEFINE step == PostReceive(c)
           n    == step.next[k[2]]
           x    == c.main
<1>0. Whole(k, a, c) /\ OnWayIn(c.class, k[2]) /\ (Form[c.class].main = "boxed" => c.blob # Classes!Empty)
  BY DEF Arriving
<1>1. /\ Moves(c.class, n, step.part, "boxed", "boxed", k[2]) /\ OnWayIn(n, k[2])
      /\ step.part = "main" /\ Form[c.class].family \in {"ContactImage", "ContactAudio"}
      /\ Table[n].postReceive.task = "decrypt"
  BY <1>0, TablesOfAContent DEF PostReceiveIsRight, PostReceive, Table
<1>2. d = Becomes(c, step, x)
  OBVIOUS
<1> HIDE DEF step, n
<1>3. Form[c.class].main = "boxed" /\ Form[n].family = Form[c.class].family
  BY <1>1 DEF Moves
<1>4. x = InForm(k, a, step.part, "boxed")
  BY <1>0, <1>1, <1>3, WholeContent
<1> HIDE DEF x
<1>5. d = Changed(c, n, step.part, x, c.key, c.blob)
  BY <1>0, <1>2, BecomesIs DEF n
<1>6. (~k[2] /\ Form[n].main # "plain") => c.key = Key(a, "main")
  BY <1>0, <1>3, WholeContent
<1>7. c.key \in Keys /\ c.blob \in Ids /\ Form[c.class].family = k[1]
  BY <1>0, WholeContent
<1>8. Whole(k, a, d)
  BY <1>0, <1>1, <1>4, <1>5, <1>6, <1>7, MovesKeepWhole
<1>9. d.class = n /\ d.blob = c.blob
  BY <1>5, ChangedIs
<1>10. Arriving(k, a, d)
  BY <1>0, <1>1, <1>3, <1>8, <1>9 DEF Arriving
<1>11. Past(d)
  BY <1>1, <1>3, <1>9 DEF Past, PostReceive, Table
<1> QED
  BY <1>1, <1>7, <1>10, <1>11

LEMMA DecryptStep ==
    ASSUME NEW k \in Kinds, NEW a \in Attempts, NEW c, Arriving(k, a, c),
           PostReceive(c).task = "decrypt",
           NEW d, d = Becomes(c, PostReceive(c), Classes!Inside(Part(c, PostReceive(c))))
    PROVE  Arriving(k, a, d) /\ (Past(c) => PostReceive(d).task = "none")
<1> DEFINE step == PostReceive(c)
           n    == step.next[k[2]]
           x    == Classes!Inside(Part(c, step))
<1>0. Whole(k, a, c) /\ OnWayIn(c.class, k[2]) /\ (Form[c.class].main = "boxed" => c.blob # Classes!Empty)
  BY DEF Arriving
<1>1. /\ Moves(c.class, n, step.part, "boxed", "plain", k[2]) /\ OnWayIn(n, k[2])
      /\ Past(c) => Table[n].postReceive.task = "none"
  BY <1>0, TablesOfAContent DEF PostReceiveIsRight, PostReceive, Table, Past
<1>2. d = Becomes(c, step, x)
  OBVIOUS
<1> HIDE DEF step, n
<1>3. step.part \in Parts /\ (~k[2] => step.part = "main")
      /\ Part(c, step) = BoxOf(k, a, step.part)
  BY <1>0, <1>1, PartIs, FormsOfParts
<1>4. x = InForm(k, a, step.part, "plain")
  BY <1>3, FormsOfParts DEF BoxOf, Classes!Box, Classes!Inside
<1> HIDE DEF x
<1>5. d = Changed(c, n, step.part, x, c.key, c.blob)
  BY <1>0, <1>2, BecomesIs DEF n
<1>6. ~k[2] => Form[n].main = "plain"
  BY <1>1, <1>3 DEF Moves
<1>7. c.key \in Keys /\ c.blob \in Ids
  BY <1>0, WholeContent
<1>8. Whole(k, a, d)
  BY <1>0, <1>1, <1>4, <1>5, <1>6, <1>7, MovesKeepWhole
<1>9. d.class = n /\ d.blob = c.blob
  BY <1>5, ChangedIs
<1>10. Form[n].main = "boxed" => Form[c.class].main = "boxed"
  BY <1>1 DEF Moves, Parts
<1>11. Arriving(k, a, d)
  BY <1>0, <1>1, <1>8, <1>9, <1>10 DEF Arriving
<1> QED
  BY <1>1, <1>9, <1>11 DEF PostReceive, Table

(* What only waits to be opened opens.                                     *)
LEMMA PastOpens ==
    ASSUME NEW k \in Kinds, NEW a \in Attempts, NEW c, Arriving(k, a, c), Past(c)
    PROVE  /\ Classes!Opens(Part(c, PostReceive(c)), c.key, PostReceive(c).nonce)
           /\ c.blob # Classes!Empty
<1> DEFINE step == PostReceive(c)
           n    == step.next[k[2]]
<1>0. Whole(k, a, c) /\ OnWayIn(c.class, k[2]) /\ (Form[c.class].main = "boxed" => c.blob # Classes!Empty)
  BY DEF Arriving
<1>1. Form[c.class].family \in {"ContactImage", "ContactAudio"} /\ step.task = "decrypt"
  BY DEF Past
<1>2. /\ Moves(c.class, n, step.part, "boxed", "plain", k[2])
      /\ step.nonce = NonceOf(Form[c.class].family, step.part) /\ step.part = "main"
  BY <1>0, <1>1, TablesOfAContent DEF PostReceiveIsRight, PostReceive, Table
<1> HIDE DEF step, n
<1>3. Form[c.class].family = k[1] /\ ~k[2]
  <2>1. Form[c.class].family = k[1]
    BY <1>0, WholeContent
  <2>2. k[2] \in BOOLEAN /\ (k[2] => k[1] \in WithCover)
    BY KindFits DEF Fits
  <2> QED
    BY <2>1, <2>2, <1>1 DEF WithCover
<1>4. Part(c, step) = BoxOf(k, a, "main")
  BY <1>0, <1>2, PartIs, FormsOfParts
<1>5. Form[c.class].main = "boxed"
  BY <1>2 DEF Moves
<1>6. c.key = Key(a, "main")
  BY <1>0, <1>3, <1>5, WholeContent
<1>7. Classes!Opens(Part(c, step), c.key, step.nonce)
  BY <1>2, <1>3, <1>4, <1>6 DEF Classes!Opens, Classes!Box, BoxOf
<1> QED
  BY <1>0, <1>5, <1>7 DEF step

LEMMA ArrivedIsDone ==
    ASSUME NEW k \in Kinds, NEW a \in Attempts, NEW c, Arriving(k, a, c),
           PostReceive(c).task = "none"
    PROVE  c \in Arrived(k) /\ c.class \in ContactKinds \cup GroupKinds
<1>0. Whole(k, a, c) /\ OnWayIn(c.class, k[2])
  BY DEF Arriving
<1>1. c.class = Form[c.class].family
  BY <1>0, TablesOfAContent DEF PostReceiveIsRight, PostReceive, Table
<1>2. Form[c.class].family = k[1] /\ k[1] \in ContactKinds \cup GroupKinds /\ k[2] \in BOOLEAN
  BY <1>0, WholeContent, KindFits
<1>3. c.class = k[1] /\ Form[c.class].main = "plain" /\ Form[c.class].cover = "plain"
  <2>1. c.class = k[1]
    BY <1>1, <1>2
  <2>2. Form[k[1]] = Is(k[1], "plain", "plain")
    BY <1>2, KindsAreClasses
  <2> QED
    BY <2>1, <2>2 DEF Is
<1>4. c.main = Original("main") /\ c.cover = (IF k[2] THEN Original("cover") ELSE Classes!Empty)
  BY <1>0, <1>2, <1>3, WholeContent, FormsOfParts
<1>5. c = Content(c.class, c.main, c.cover, c.key, c.blob) /\ c.key \in Keys /\ c.blob \in Ids
  BY <1>0, WholeContent
<1>6. c \in Arrived(k)
  BY <1>3, <1>4, <1>5 DEF Arrived, Content
<1> QED
  BY <1>2, <1>3, <1>6

(* The parser takes the parts of a content for what they are.              *)
LEMMA ParsedIsTheSame ==
    ASSUME NEW k \in Kinds, NEW a \in Attempts, NEW c, Whole(k, a, c),
           c.class \in DOMAIN LayoutName, ~Refused[c.class]
    PROVE  Parsed(c) = c /\ Arriving(k, a, c)
<1>1. LayoutName[c.class] = k[1] /\ Form[c.class].main = "id" /\ OnWayIn(c.class, k[2])
  BY LayoutsAre, WholeContent, KindFits
<1>2. ReadAs[c.class] = [main |-> "main", key |-> "key",
                         cover |-> IF k[1] \in WithCover THEN "cover" ELSE "none"]
  BY <1>1, LayoutsAssumption DEF WithCover
<1>3. k[1] \in WithCover \/ c.cover = Classes!Empty
  BY KindFits, WholeContent DEF Fits
<1>4. ASSUME NEW from, from = ReadAs[c.class] PROVE Taken(c, from) = c
  <2>1. from.main = "main" /\ from.key = "key" /\ from.cover \in {"cover", "none"}
    BY <1>2, <1>4
  <2>2. from.cover = "none" => c.cover = Classes!Empty
    BY <1>2, <1>3, <1>4
  <2>3. Taken(c, from) = [c EXCEPT !.main = c.main, !.cover = c.cover, !.key = c.key]
    BY <2>1, <2>2 DEF Taken
  <2>4. c = Content(c.class, c.main, c.cover, c.key, c.blob)
    BY WholeContent
  <2> QED
    BY <2>3, <2>4 DEF Content
<1>5. Parsed(c) = c
  BY <1>4 DEF Parsed
<1>6. Arriving(k, a, c)
  BY <1>1 DEF Arriving
<1> QED
  BY <1>5, <1>6

-----------------------------------------------------------------------------
(* What a step keeps.                                                      *)

LEMMA HeldStays ==
    ASSUME NEW r \in Receivers, kind' = kind, r \in hurt => r \in hurt',
           kept[r] # {} => kept'[r] # {}, calls[r] # <<>> => calls'[r] # <<>> \/ kept'[r] # {},
           \A s \in Slots : opening[r][s] # Nothing /\ Past(opening[r][s]) =>
                opening'[r][s] = opening[r][s] \/ calls'[r] # <<>> \/ r \in hurt'
    PROVE  Held(r) => Held(r)'
<1> SUFFICES ASSUME Held(r) PROVE Held(r)'
  OBVIOUS
<1>1. CASE \E s \in Slots : opening[r][s] # Nothing /\ Past(opening[r][s])
  <2>1. PICK s \in Slots : opening[r][s] # Nothing /\ Past(opening[r][s])
    BY <1>1
  <2>2. CASE opening'[r][s] = opening[r][s]
    <3>1. opening'[r][s] # Nothing /\ Past(opening'[r][s])
      BY <2>1, <2>2
    <3> QED
      BY <3>1 DEF Held, Past, PostReceive
  <2>3. CASE calls'[r] # <<>> \/ r \in hurt'
    BY <2>3 DEF Held
  <2> QED
    BY <2>1, <2>2, <2>3
<1>2. CASE r \in hurt \/ kept[r] # {} \/ calls[r] # <<>>
  BY <1>2 DEF Held
<1> QED
  BY <1>1, <1>2 DEF Held

LEMMA MailKeeps ==
    ASSUME Server, kind' = kind, NEW r \in Receivers,
           mailbox'[r] \subseteq mailbox[r], delivered'[r] \subseteq mailbox'[r],
           mailbox'[r] # {} => (Held(r) => Held(r)'),
           blobs \subseteq blobs' \/ (mailbox'[r] # {} => Held(r)')
    PROVE  Mail(r)'
<1>1. Mail(r)
  BY DEF Server
<1>2. r \notin Recipients' => mailbox'[r] = {}
  BY <1>1 DEF Mail, Recipients
<1>3. ASSUME NEW m \in mailbox'[r]
      PROVE  OfAttempt(kind', m) /\ (Stored(Id(m.attempt, "main"))' # {} \/ Held(r)')
  <2>1. OfAttempt(kind, m) /\ (Stored(Id(m.attempt, "main")) # {} \/ Held(r))
    BY <1>1, <1>3 DEF Mail
  <2>2. CASE Held(r)'
    BY <2>1, <2>2
  <2>3. CASE blobs \subseteq blobs' /\ Stored(Id(m.attempt, "main")) # {}
    <3>1. Stored(Id(m.attempt, "main"))' # {}
      BY <2>3 DEF Stored
    <3> QED
      BY <2>1, <3>1
  <2> QED
    BY <1>3, <2>1, <2>2, <2>3
<1> QED
  BY <1>2, <1>3 DEF Mail

LEMMA ServerKeeps ==
    ASSUME Server, kind' = kind, \A b \in blobs' : IsBlob(kind, b),
           mailbox' = [r \in Receivers |-> mailbox'[r]],
           delivered' = [r \in Receivers |-> delivered'[r]],
           \A r \in Receivers : mailbox'[r] \subseteq mailbox[r] /\ delivered'[r] \subseteq mailbox'[r],
           \A r \in Receivers : mailbox'[r] # {} => (Held(r) => Held(r)'),
           blobs \subseteq blobs' \/ (\A r \in Receivers : mailbox'[r] # {} => Held(r)')
    PROVE  Server'
<1>1. ASSUME NEW r \in Receivers PROVE Mail(r)'
  BY <1>1, MailKeeps
<1> QED
  BY <1>1 DEF Server, IsBlob

LEMMA SenderKeeps ==
    ASSUME Sender, UNCHANGED <<kind, attempts, sending>>
    PROVE  Sender'
  BY DEF Sender, Leaving, PreSend

LEMMA ReceiverUnchanged ==
    ASSUME Receiver, UNCHANGED <<kind, opening, calls, kept>>
    PROVE  Receiver'
<1>1. ASSUME NEW r \in Receivers PROVE AtReceiver(r)'
  BY <1>1 DEF Receiver, AtReceiver, Recipients, Storable, AtWorkOn, PostReceive
<1> QED
  BY <1>1 DEF Receiver

LEMMA ReceiverKeeps ==
    ASSUME Receiver, kind' = kind, NEW r \in Receivers,
           opening' = [q \in Receivers |-> opening'[q]],
           calls' = [q \in Receivers |-> calls'[q]], kept' = [q \in Receivers |-> kept'[q]],
           \A q \in Receivers \ {r} :
               opening'[q] = opening[q] /\ calls'[q] = calls[q] /\ kept'[q] = kept[q],
           AtReceiver(r)'
    PROVE  Receiver'
<1>1. ASSUME NEW q \in Receivers \ {r} PROVE AtReceiver(q)'
  <2>1. AtReceiver(q)
    BY <1>1 DEF Receiver
  <2>2. opening'[q] = opening[q] /\ calls'[q] = calls[q] /\ kept'[q] = kept[q]
    BY <1>1
  <2> QED
    BY <2>1, <2>2 DEF AtReceiver, Recipients, Storable, AtWorkOn, PostReceive
<1> QED
  BY <1>1 DEF Receiver

LEMMA ServerUnchanged ==
    ASSUME Server, UNCHANGED <<kind, blobs, mailbox, delivered, opening, calls, kept, hurt>>
    PROVE  Server'
<1>1. ASSUME NEW r \in Receivers PROVE (Held(r) => Held(r)') /\ delivered[r] \subseteq mailbox[r]
  BY <1>1, HeldStays DEF Server, Mail
<1> QED
  BY <1>1, ServerKeeps DEF Server

-----------------------------------------------------------------------------
(* The steps of the sender.                                                *)

LEMMA AttemptsAre ==
    ASSUME Counts, attempts < MaxAttempts[kind[1]]
    PROVE  attempts + 1 \in Attempts /\ attempts + 1 \in 0 .. MaxAttempts[kind[1]]
<1>1. kind \in Kinds /\ attempts \in Nat /\ MaxAttempts[kind[1]] \in Nat
  BY MediaTransferAssumption DEF Counts
<1>2. attempts + 1 \in 1 .. MaxAttempts[kind[1]]
  BY <1>1
<1> QED
  BY <1>1, <1>2 DEF Attempts

LEMMA SendKeeps ==
    ASSUME MediaInv, Send
    PROVE  MediaInv'
<1>1. Counts /\ Sender /\ Server /\ Receiver /\ kind \in Kinds
  BY DEF MediaInv, Counts
<1>2. attempts + 1 \in Attempts /\ attempts + 1 \in 0 .. MaxAttempts[kind[1]]
  BY <1>1, AttemptsAre DEF Send
<1>3. /\ attempts' = attempts + 1 /\ sending' = [sending EXCEPT ![attempts + 1] = Posted]
      /\ UNCHANGED <<kind, blobs, mailbox, delivered, opening, calls, kept, faults, hurt>>
  BY DEF Send
<1>4. Counts'
  BY <1>1, <1>2, <1>3 DEF Counts
<1>5. Leaving(kind, attempts + 1, Posted)
  BY <1>1, <1>2, PostedLeaves
<1>6. sending' = [a \in Attempts |-> sending'[a]]
      /\ sending'[attempts + 1] = Posted
      /\ \A a \in Attempts : a # attempts + 1 => sending'[a] = sending[a]
  BY <1>1, <1>2, <1>3 DEF Sender
<1>7. ASSUME NEW a \in Attempts, sending'[a] # Nothing
      PROVE  a <= attempts + 1 /\ Leaving(kind, a, sending'[a])
  <2>1. CASE a = attempts + 1
    <3>1. attempts \in Nat
      BY <1>1 DEF Counts
    <3> QED
      BY <2>1, <3>1, <1>5, <1>6
  <2>2. CASE a # attempts + 1
    <3>1. a <= attempts /\ Leaving(kind, a, sending'[a])
      BY <2>2, <1>1, <1>6, <1>7 DEF Sender
    <3>2. attempts \in Nat /\ a \in Nat
      BY <1>1, MediaTransferAssumption DEF Counts, Attempts
    <3> QED
      BY <3>1, <3>2
  <2> QED
    BY <2>1, <2>2
<1>8. Sender'
  BY <1>3, <1>6, <1>7 DEF Sender, Leaving, PreSend
<1>9. Server' /\ Receiver'
  BY <1>1, <1>3, ServerUnchanged, ReceiverUnchanged
<1> QED
  BY <1>4, <1>8, <1>9 DEF MediaInv

(* handleOutgoingMessage, for a content a task before sending came up with *)
LEMMA HandleOutgoingKeeps ==
    ASSUME Counts, Sender, Server, NEW a \in Attempts, a <= attempts, NEW c,
           Whole(kind, a, c), OnWayOut(c.class, kind[2]),
           PreSend(c).task = "none" => c.class \in DOMAIN LayoutName /\ Stored(Id(a, "main"))' # {},
           HandleOutgoing(a, c), blobs \subseteq blobs', \A b \in blobs' : IsBlob(kind, b),
           UNCHANGED <<kind, attempts, delivered, opening, calls, kept, hurt>>
    PROVE  Sender' /\ Server'
<1>1. ASSUME NEW r \in Receivers PROVE (Held(r) => Held(r)') /\ Mail(r)
  BY <1>1, HeldStays DEF Server
<1>2. CASE PreSend(c).task # "none"
  <2>1. sending' = [sending EXCEPT ![a] = c] /\ mailbox' = mailbox
    BY <1>2, Zenon DEF HandleOutgoing
  <2>2. Leaving(kind, a, c)
    BY <1>2 DEF Leaving
  <2>3. Sender'
    BY <2>1, <2>2 DEF Sender, Leaving, PreSend
  <2>4. Server'
    BY <2>1, <1>1, ServerKeeps DEF Server, Mail
  <2> QED
    BY <2>3, <2>4
<1>3. CASE PreSend(c).task = "none"
  <2> DEFINE m == [attempt |-> a, content |-> c]
  <2>1. /\ sending' = [sending EXCEPT ![a] = Nothing]
        /\ mailbox' = [r \in Receivers |-> IF r \in Recipients THEN mailbox[r] \cup {m} ELSE mailbox[r]]
    BY <1>3, Zenon DEF HandleOutgoing
  <2>2. Sender'
    BY <2>1 DEF Sender, Leaving, PreSend
  <2>3. m.attempt = a /\ OfAttempt(kind, m)
    BY <1>3 DEF OfAttempt
  <2> HIDE DEF m
  <2>4. ASSUME NEW r \in Receivers PROVE Mail(r)'
    <3>1. Mail(r) /\ (Held(r) => Held(r)')
      BY <1>1
    <3>2. mailbox[r] \subseteq mailbox'[r] /\ (r \notin Recipients => mailbox'[r] = mailbox[r])
          /\ \A x \in mailbox'[r] : x \in mailbox[r] \/ x = m
      BY <2>1
    <3>3. ASSUME NEW x \in mailbox'[r]
          PROVE  OfAttempt(kind, x) /\ (Stored(Id(x.attempt, "main"))' # {} \/ Held(r)')
      <4>1. CASE x = m
        BY <4>1, <2>3, <1>3
      <4>2. CASE x \in mailbox[r]
        <5>1. OfAttempt(kind, x) /\ (Stored(Id(x.attempt, "main")) # {} \/ Held(r))
          BY <4>2, <3>1 DEF Mail
        <5>2. Stored(Id(x.attempt, "main")) # {} => Stored(Id(x.attempt, "main"))' # {}
          BY DEF Stored
        <5> QED
          BY <5>1, <5>2, <3>1
      <4> QED
        BY <4>1, <4>2, <3>2, <3>3
    <3>4. delivered'[r] \subseteq mailbox'[r] /\ (r \notin Recipients' => mailbox'[r] = {})
      BY <3>1, <3>2 DEF Mail, Recipients
    <3> QED
      BY <3>3, <3>4 DEF Mail
  <2>5. Server'
    <3>1. mailbox' = [r \in Receivers |-> mailbox'[r]]
      BY <2>1
    <3> QED
      BY <3>1, <2>4 DEF Server, IsBlob
  <2> QED
    BY <2>2, <2>5
<1> QED
  BY <1>2, <1>3

LEMMA EncryptionKeeps ==
    ASSUME MediaInv, NEW a \in Attempts, EncryptionFinishes(a)
    PROVE  MediaInv'
<1>1. Counts /\ Sender /\ Server /\ Receiver /\ kind \in Kinds
  BY DEF MediaInv, Counts
<1> DEFINE c == sending[a]
<1>2. /\ c # Nothing /\ PreSend(c).task = "encrypt"
      /\ HandleOutgoing(a, Encrypted(c, PreSend(c), a))
      /\ UNCHANGED <<kind, attempts, blobs, delivered, opening, calls, kept, faults, hurt>>
  BY DEF EncryptionFinishes
<1>3. a <= attempts /\ Whole(kind, a, c) /\ OnWayOut(c.class, kind[2])
  BY <1>1, <1>2 DEF Sender, Leaving
<1> HIDE DEF c
<1> DEFINE d == Encrypted(c, PreSend(c), a)
<1>4. Leaving(kind, a, d)
  BY <1>1, <1>2, <1>3, EncryptStep
<1>5. HandleOutgoing(a, d)
  BY <1>2
<1> HIDE DEF d
<1>6. Whole(kind, a, d) /\ OnWayOut(d.class, kind[2]) /\ PreSend(d).task # "none"
  BY <1>4 DEF Leaving
<1>7. blobs \subseteq blobs' /\ \A b \in blobs' : IsBlob(kind, b)
  BY <1>1, <1>2 DEF Server
<1>8. Sender' /\ Server'
  BY <1>1, <1>2, <1>3, <1>5, <1>6, <1>7, HandleOutgoingKeeps
<1>9. Receiver' /\ Counts'
  BY <1>1, <1>2, ReceiverUnchanged DEF Counts
<1> QED
  BY <1>8, <1>9 DEF MediaInv

LEMMA UploadKeeps ==
    ASSUME MediaInv, NEW a \in Attempts, UploadFinishes(a)
    PROVE  MediaInv'
<1>1. Counts /\ Sender /\ Server /\ Receiver /\ kind \in Kinds
  BY DEF MediaInv, Counts
<1> DEFINE c == sending[a]
           step == PreSend(c)
           id == Fresh("blob", a, step)
           d == Becomes(c, step, id)
<1>2. /\ c # Nothing /\ step.task = "upload" /\ HandleOutgoing(a, d)
      /\ blobs' = blobs \cup {[id |-> id, data |-> Part(c, step)]}
      /\ UNCHANGED <<kind, attempts, delivered, opening, calls, kept, faults, hurt>>
  BY DEF UploadFinishes
<1>3. a <= attempts /\ Whole(kind, a, c) /\ OnWayOut(c.class, kind[2])
  BY <1>1, <1>2 DEF Sender, Leaving
<1> HIDE DEF c
<1>4. /\ id = Id(a, step.part) /\ step.part \in Parts /\ Part(c, step) = BoxOf(kind, a, step.part)
      /\ Whole(kind, a, d) /\ OnWayOut(d.class, kind[2])
      /\ PreSend(d).task = "none" => step.part = "main" /\ d.class \in DOMAIN LayoutName
  BY <1>1, <1>2, <1>3, UploadStep
<1> HIDE DEF step, id, d
<1> DEFINE blob == [id |-> id, data |-> Part(c, step)]
<1>5. IsBlob(kind, blob) /\ blob.id = id
  BY <1>4 DEF IsBlob
<1>6. blobs' = blobs \cup {blob}
  BY <1>2
<1> HIDE DEF blob
<1>7. blobs \subseteq blobs' /\ \A b \in blobs' : IsBlob(kind, b)
  BY <1>1, <1>5, <1>6 DEF Server
<1>8. PreSend(d).task = "none" => Stored(Id(a, "main"))' # {}
  BY <1>4, <1>5, <1>6 DEF Stored
<1>9. Sender' /\ Server'
  BY <1>1, <1>2, <1>3, <1>4, <1>7, <1>8, HandleOutgoingKeeps
<1>10. Receiver' /\ Counts'
  BY <1>1, <1>2, ReceiverUnchanged DEF Counts
<1> QED
  BY <1>9, <1>10 DEF MediaInv

LEMMA UploadFailsKeeps ==
    ASSUME MediaInv, NEW a \in Attempts, UploadFails(a)
    PROVE  MediaInv'
<1>1. Counts /\ Sender /\ Server /\ Receiver /\ kind \in Kinds
  BY DEF MediaInv, Counts
<1> DEFINE c == sending[a]
           step == PreSend(c)
           blob == [id |-> Fresh("blob", a, step), data |-> Part(c, step)]
<1>2. /\ faults < MaxFaults /\ c # Nothing /\ step.task = "upload"
      /\ (UNCHANGED blobs \/ blobs' = blobs \cup {blob})
      /\ sending' = [sending EXCEPT ![a] = Nothing] /\ faults' = faults + 1
      /\ UNCHANGED <<kind, attempts, mailbox, delivered, opening, calls, kept, hurt>>
  BY DEF UploadFails
<1>3. Whole(kind, a, c) /\ OnWayOut(c.class, kind[2])
  BY <1>1, <1>2 DEF Sender, Leaving
<1> HIDE DEF c
<1>4. /\ Fresh("blob", a, step) = Id(a, step.part) /\ step.part \in Parts
      /\ Part(c, step) = BoxOf(kind, a, step.part)
  BY <1>1, <1>2, <1>3, UploadStep
<1> HIDE DEF step
<1>5. IsBlob(kind, blob)
  BY <1>4 DEF IsBlob
<1> HIDE DEF blob
<1>6. blobs \subseteq blobs' /\ \A b \in blobs' : IsBlob(kind, b)
  BY <1>1, <1>2, <1>5 DEF Server
<1>7. ASSUME NEW r \in Receivers PROVE (Held(r) => Held(r)') /\ delivered[r] \subseteq mailbox[r]
  BY <1>1, <1>2, <1>7, HeldStays DEF Server, Mail
<1>8. Server'
  BY <1>1, <1>2, <1>6, <1>7, ServerKeeps DEF Server
<1>9. Sender'
  BY <1>1, <1>2 DEF Sender, Leaving, PreSend
<1>10. Counts'
  <2>1. faults \in 0 .. MaxFaults /\ MaxFaults \in Nat
    BY <1>1, MediaTransferAssumption DEF Counts
  <2>2. faults + 1 \in 0 .. MaxFaults
    BY <2>1, <1>2
  <2> QED
    BY <2>2, <1>1, <1>2 DEF Counts
<1> QED
  BY <1>1, <1>2, <1>8, <1>9, <1>10, ReceiverUnchanged DEF MediaInv

-----------------------------------------------------------------------------
(* The steps of a receiver.                                                *)

LEMMA InTheSlot ==
    ASSUME Receiver, NEW r \in Receivers, NEW s \in Slots, opening[r][s] # Nothing
    PROVE  r \in Recipients /\ PostReceive(opening[r][s]).task # "none"
           /\ \E a \in Attempts : Arriving(kind, a, opening[r][s])
  BY DEF Receiver, AtReceiver, AtWorkOn

(* A slot takes another content, or none.                                  *)
LEMMA SlotKeeps ==
    ASSUME Receiver, NEW r \in Receivers, NEW s \in Slots, NEW c,
           opening' = [opening EXCEPT ![r][s] = c],
           c # Nothing => r \in Recipients /\ AtWorkOn(kind, c),
           UNCHANGED <<kind, calls, kept>>
    PROVE  Receiver' /\ opening'[r][s] = c
           /\ \A t \in Slots \ {s} : opening'[r][t] = opening[r][t]
<1>1. AtReceiver(r) /\ opening = [q \in Receivers |-> opening[q]]
      /\ opening[r] = [t \in Slots |-> opening[r][t]]
  BY DEF Receiver, AtReceiver
<1>2. /\ opening' = [q \in Receivers |-> opening'[q]]
      /\ \A q \in Receivers \ {r} : opening'[q] = opening[q]
      /\ opening'[r] = [opening[r] EXCEPT ![s] = c]
  BY <1>1
<1>3. /\ opening'[r] = [t \in Slots |-> opening'[r][t]]
      /\ opening'[r][s] = c /\ \A t \in Slots \ {s} : opening'[r][t] = opening[r][t]
  BY <1>1, <1>2
<1>4. \A t \in Slots : opening'[r][t] # Nothing => AtWorkOn(kind, opening'[r][t])
  BY <1>1, <1>3 DEF AtReceiver
<1>5. r \notin Recipients => \A t \in Slots : opening'[r][t] = Nothing
  BY <1>1, <1>3 DEF AtReceiver
<1>6. AtReceiver(r)'
  BY <1>1, <1>3, <1>4, <1>5 DEF AtReceiver, Recipients, Storable, AtWorkOn, PostReceive
<1>7. Receiver'
  BY <1>2, <1>6, ReceiverKeeps DEF Receiver
<1> QED
  BY <1>3, <1>7

(* handleIncomingMessage.                                                  *)
LEMMA HandleIncomingKeeps ==
    ASSUME Counts, Receiver, NEW r \in Receivers, r \in Recipients, NEW s \in Slots,
           NEW a \in Attempts, NEW c, Arriving(kind, a, c), HandleIncoming(r, s, c),
           UNCHANGED <<kind, kept>>
    PROVE  /\ Receiver'
           /\ \A q \in Receivers \ {r} : opening'[q] = opening[q] /\ calls'[q] = calls[q]
           /\ \A t \in Slots \ {s} : opening'[r][t] = opening[r][t]
           /\ calls[r] # <<>> => calls'[r] # <<>>
           /\ PostReceive(c).task # "none" => opening'[r][s] = c
           /\ PostReceive(c).task = "none" => calls'[r] # <<>>
<1>1. AtReceiver(r) /\ opening = [q \in Receivers |-> opening[q]]
      /\ opening[r] = [t \in Slots |-> opening[r][t]] /\ kind \in Kinds
      /\ calls = [q \in Receivers |-> calls[q]] /\ calls[r] \in Seq(Arrived(kind))
  BY DEF Receiver, AtReceiver, Counts
<1>2. CASE PostReceive(c).task # "none"
  <2>1. opening' = [opening EXCEPT ![r][s] = c] /\ calls' = calls
    BY <1>2, Zenon DEF HandleIncoming
  <2>2. AtWorkOn(kind, c)
    BY <1>2 DEF AtWorkOn
  <2>3. \A q \in Receivers \ {r} : opening'[q] = opening[q]
    BY <1>1, <2>1
  <2>4. Receiver' /\ opening'[r][s] = c
        /\ \A t \in Slots \ {s} : opening'[r][t] = opening[r][t]
    BY <2>1, <2>2, SlotKeeps
  <2>5. calls'[r] = calls[r] /\ \A q \in Receivers \ {r} : calls'[q] = calls[q]
    BY <2>1
  <2> QED
    BY <1>2, <2>3, <2>4, <2>5
<1>3. CASE PostReceive(c).task = "none"
  <2>1. c \in Arrived(kind) /\ c.class \in ContactKinds \cup GroupKinds
    BY <1>1, <1>3, ArrivedIsDone
  <2>2. opening' = [opening EXCEPT ![r][s] = Nothing] /\ calls' = [calls EXCEPT ![r] = Append(@, c)]
    BY <1>3, <2>1, Zenon DEF HandleIncoming
  <2>3. /\ opening' = [q \in Receivers |-> opening'[q]]
        /\ \A q \in Receivers \ {r} : opening'[q] = opening[q]
        /\ opening'[r] = [opening[r] EXCEPT ![s] = Nothing]
    BY <1>1, <2>2
  <2>4. /\ opening'[r] = [t \in Slots |-> opening'[r][t]]
        /\ opening'[r][s] = Nothing /\ \A t \in Slots \ {s} : opening'[r][t] = opening[r][t]
    BY <1>1, <2>3
  <2>5. /\ calls' = [q \in Receivers |-> calls'[q]]
        /\ \A q \in Receivers \ {r} : calls'[q] = calls[q]
        /\ calls'[r] = Append(calls[r], c)
    BY <1>1, <2>2
  <2>6. calls'[r] \in Seq(Arrived(kind)) /\ calls'[r] # <<>>
    BY <1>1, <2>1, <2>5
  <2>7. \A t \in Slots : opening'[r][t] # Nothing => AtWorkOn(kind, opening'[r][t])
    BY <1>1, <2>4 DEF AtReceiver
  <2>8. AtReceiver(r)'
    BY <1>1, <2>4, <2>6, <2>7 DEF AtReceiver, Recipients, Storable, AtWorkOn, PostReceive
  <2>9. Receiver'
    BY <2>3, <2>5, <2>8, ReceiverKeeps DEF Receiver
  <2> QED
    BY <1>3, <2>3, <2>4, <2>5, <2>6, <2>9
<1> QED
  BY <1>2, <1>3

(* The same together with what the server has, for a content that was not  *)
(* in the slot alone before, or that is done.                              *)
LEMMA IncomingKeeps ==
    ASSUME MediaInv, NEW r \in Receivers, r \in Recipients, NEW s \in Slots,
           NEW a \in Attempts, NEW c, Arriving(kind, a, c), HandleIncoming(r, s, c),
           opening[r][s] # Nothing /\ Past(opening[r][s]) => PostReceive(c).task = "none",
           UNCHANGED <<kind, attempts, sending, mailbox, kept, faults, hurt>>,
           \A q \in Receivers : delivered'[q] \subseteq mailbox[q],
           delivered' = [q \in Receivers |-> delivered'[q]],
           \A b \in blobs' : b \in blobs,
           blobs \subseteq blobs' \/ (Past(c) /\ Recipients = {r} /\ kind[1] \in ContactKinds)
    PROVE  MediaInv'
<1>1. Counts /\ Sender /\ Server /\ Receiver
  BY DEF MediaInv
<1>2. /\ Receiver'
      /\ \A q \in Receivers \ {r} : opening'[q] = opening[q] /\ calls'[q] = calls[q]
      /\ \A t \in Slots \ {s} : opening'[r][t] = opening[r][t]
      /\ calls[r] # <<>> => calls'[r] # <<>>
      /\ PostReceive(c).task # "none" => opening'[r][s] = c
      /\ PostReceive(c).task = "none" => calls'[r] # <<>>
  BY <1>1, HandleIncomingKeeps
<1>3. ASSUME NEW q \in Receivers PROVE Held(q) => Held(q)'
  <2>1. CASE q = r
    <3>1. \A t \in Slots : opening[r][t] # Nothing /\ Past(opening[r][t]) =>
             opening'[r][t] = opening[r][t] \/ calls'[r] # <<>> \/ r \in hurt'
      BY <1>2
    <3> QED
      BY <2>1, <3>1, <1>2, HeldStays
  <2>2. CASE q # r
    <3>1. opening'[q] = opening[q] /\ calls'[q] = calls[q]
      BY <1>2, <2>2
    <3> QED
      BY <3>1, HeldStays
  <2> QED
    BY <2>1, <2>2
<1>4. blobs \subseteq blobs' \/ (\A q \in Receivers : mailbox'[q] # {} => Held(q)')
  <2>1. CASE Past(c) /\ Recipients = {r} /\ kind[1] \in ContactKinds
    <3>1. PostReceive(c).task = "decrypt" /\ c # Nothing
      <4>1. PostReceive(c).task = "decrypt"
        BY <2>1 DEF Past
      <4>2. Whole(kind, a, c)
        BY DEF Arriving
      <4>3. c.class \in DOMAIN Form
        BY <4>2, WholeContent
      <4>4. Nothing.class = "nothing" /\ "nothing" \notin DOMAIN Form
        BY DEF Nothing, Form
      <4> QED
        BY <4>1, <4>3, <4>4
    <3>2. opening'[r][s] = c
      BY <1>2, <3>1
    <3>3. Held(r)'
      BY <2>1, <3>1, <3>2 DEF Held, Past, PostReceive
    <3>4. ASSUME NEW q \in Receivers, mailbox'[q] # {} PROVE q = r
      BY <1>1, <2>1, <3>4 DEF Server, Mail
    <3> QED
      BY <3>3, <3>4
  <2> QED
    BY <2>1
<1>5. \A b \in blobs' : IsBlob(kind, b)
  BY <1>1 DEF Server
<1>6. mailbox' = [q \in Receivers |-> mailbox'[q]]
  BY <1>1 DEF Server
<1>7. Server'
  BY <1>1, <1>3, <1>4, <1>5, <1>6, ServerKeeps
<1>8. Counts' /\ Sender'
  BY <1>1, SenderKeeps DEF Counts
<1> QED
  BY <1>2, <1>7, <1>8 DEF MediaInv

LEMMA SlotsAreFree ==
    ASSUME Receiver, NEW r \in Receivers, Cardinality(Free(r)) > Len(calls[r])
    PROVE  \E s \in Slots : s \in Free(r)
<1>1. Free(r) # {}
  <2>1. calls[r] \in Seq(Arrived(kind))
    BY DEF Receiver, AtReceiver
  <2>2. Len(calls[r]) \in Nat
    BY <2>1
  <2>3. Cardinality({}) = 0
    BY FS_EmptySet
  <2> QED
    BY <2>2, <2>3
<1> QED
  BY <1>1 DEF Free

LEMMA DeliverKeeps ==
    ASSUME MediaInv, NEW r \in Receivers, Deliver(r)
    PROVE  MediaInv'
<1>1. Counts /\ Sender /\ Server /\ Receiver /\ kind \in Kinds
  BY DEF MediaInv, Counts
<1>2. PICK m \in mailbox[r] \ delivered[r] :
        /\ delivered' = [delivered EXCEPT ![r] = @ \cup {m}]
        /\ IF Refused[m.content.class] THEN UNCHANGED <<opening, calls>>
           ELSE HandleIncoming(r, CHOOSE s \in Free(r) : TRUE, Parsed(m.content))
  BY DEF Deliver
<1>3. /\ Cardinality(Free(r)) > Len(calls[r])
      /\ UNCHANGED <<kind, attempts, sending, blobs, mailbox, kept, faults, hurt>>
  BY DEF Deliver
<1>4. /\ OfAttempt(kind, m) /\ r \in Recipients
      /\ delivered' = [q \in Receivers |-> delivered'[q]]
      /\ \A q \in Receivers : delivered'[q] \subseteq mailbox[q]
  BY <1>1, <1>2 DEF Server, Mail
<1>5. m.attempt \in Attempts /\ Whole(kind, m.attempt, m.content) /\ m.content.class \in DOMAIN LayoutName
  BY <1>4 DEF OfAttempt
<1>6. CASE Refused[m.content.class]
  <2>1. opening' = opening /\ calls' = calls
    BY <1>2, <1>6
  <2>2. ASSUME NEW q \in Receivers PROVE Held(q) => Held(q)'
    BY <1>3, <2>1, HeldStays
  <2>3. Server'
    BY <1>1, <1>3, <1>4, <2>2, ServerKeeps DEF Server
  <2> QED
    BY <1>1, <1>3, <2>1, <2>3, SenderKeeps, ReceiverUnchanged DEF MediaInv, Counts
<1>7. CASE ~Refused[m.content.class]
  <2> DEFINE s == CHOOSE t \in Free(r) : TRUE
             c == Parsed(m.content)
  <2>1. HandleIncoming(r, s, c)
    BY <1>2, <1>7
  <2>2. s \in Slots /\ opening[r][s] = Nothing
    <3>1. \E t \in Slots : t \in Free(r)
      BY <1>1, <1>3, SlotsAreFree
    <3>2. s \in Free(r)
      BY <3>1
    <3> QED
      BY <3>2 DEF Free
  <2>3. Arriving(kind, m.attempt, c)
    BY <1>1, <1>5, <1>7, ParsedIsTheSame
  <2> HIDE DEF s, c
  <2> QED
    BY <1>3, <1>4, <1>5, <2>1, <2>2, <2>3, IncomingKeeps
<1> QED
  BY <1>6, <1>7

LEMMA DownloadFinishesKeeps ==
    ASSUME MediaInv, NEW r \in Receivers, NEW s \in Slots, DownloadFinishes(r, s)
    PROVE  MediaInv'
<1>1. Counts /\ Sender /\ Server /\ Receiver /\ kind \in Kinds
  BY DEF MediaInv, Counts
<1> DEFINE c == opening[r][s]
           step == PostReceive(c)
<1>2. /\ c # Nothing /\ step.task = "download"
      /\ UNCHANGED <<kind, attempts, sending, blobs, mailbox, delivered, kept, faults, hurt>>
  BY DEF DownloadFinishes, AtWork
<1>3. PICK b \in Stored(Part(c, step)) :
        HandleIncoming(r, s, [Becomes(c, step, b.data) EXCEPT !.blob = b.id])
  BY DEF DownloadFinishes
<1>4. PICK a \in Attempts : Arriving(kind, a, c)
  BY <1>1, <1>2, InTheSlot
<1>5. r \in Recipients
  BY <1>1, <1>2, InTheSlot
<1>6. b \in blobs /\ b.id = Part(c, step)
  BY <1>3 DEF Stored
<1>7. PICK o \in Attempts, p \in Parts : b = [id |-> Id(o, p), data |-> BoxOf(kind, o, p)]
  BY <1>1, <1>6 DEF Server, IsBlob
<1>8. ~Past(c)
  BY <1>2 DEF Past
<1> DEFINE d == [Becomes(c, step, b.data) EXCEPT !.blob = b.id]
<1>9. d = [Becomes(c, step, BoxOf(kind, o, p)) EXCEPT !.blob = Id(o, p)]
  BY <1>7
<1>10. HandleIncoming(r, s, d)
  BY <1>3
<1>11. Id(o, p) = Part(c, step)
  BY <1>6, <1>7
<1> HIDE DEF d, c
<1>12. Arriving(kind, a, d)
  BY <1>1, <1>2, <1>4, <1>9, <1>11, DownloadStep
<1> USE DEF c
<1>13. /\ delivered' = [q \in Receivers |-> delivered'[q]]
       /\ \A q \in Receivers : delivered'[q] \subseteq mailbox[q]
  BY <1>1, <1>2 DEF Server, Mail
<1> QED
  BY <1>2, <1>5, <1>8, <1>10, <1>12, <1>13, IncomingKeeps

LEMMA DeletionFinishesKeeps ==
    ASSUME MediaInv, NEW r \in Receivers, NEW s \in Slots, DeletionFinishes(r, s)
    PROVE  MediaInv'
<1>1. Counts /\ Sender /\ Server /\ Receiver /\ kind \in Kinds
  BY DEF MediaInv, Counts
<1> DEFINE c == opening[r][s]
           d == Becomes(c, PostReceive(c), c.main)
<1>2. /\ c # Nothing /\ PostReceive(c).task = "delete"
      /\ blobs' = blobs \ Stored(BlobOf(c)) /\ HandleIncoming(r, s, d)
      /\ UNCHANGED <<kind, attempts, sending, mailbox, delivered, kept, faults, hurt>>
  BY DEF DeletionFinishes, AtWork
<1>3. PICK a \in Attempts : Arriving(kind, a, c)
  BY <1>1, <1>2, InTheSlot
<1>4. r \in Recipients
  BY <1>1, <1>2, InTheSlot
<1>5. ~Past(c)
  BY <1>2 DEF Past
<1>6. d = Becomes(c, PostReceive(c), c.main)
  OBVIOUS
<1> HIDE DEF d, c
<1>7. Arriving(kind, a, d) /\ Past(d) /\ kind[1] \in {"ContactImage", "ContactAudio"}
  BY <1>1, <1>2, <1>3, <1>6, DeleteStep
<1>8. kind[1] \in ContactKinds /\ Recipients = {r}
  BY <1>4, <1>7 DEF Recipients, ContactKinds
<1>9. \A b \in blobs' : b \in blobs
  BY <1>2
<1> USE DEF c
<1>10. /\ delivered' = [q \in Receivers |-> delivered'[q]]
       /\ \A q \in Receivers : delivered'[q] \subseteq mailbox[q]
  BY <1>1, <1>2 DEF Server, Mail
<1> QED
  BY <1>2, <1>4, <1>5, <1>7, <1>8, <1>9, <1>10, IncomingKeeps

LEMMA DecryptionFinishesKeeps ==
    ASSUME MediaInv, NEW r \in Receivers, NEW s \in Slots, DecryptionFinishes(r, s)
    PROVE  MediaInv'
<1>1. Counts /\ Sender /\ Server /\ Receiver /\ kind \in Kinds
  BY DEF MediaInv, Counts
<1> DEFINE c == opening[r][s]
           step == PostReceive(c)
           d == Becomes(c, step, Classes!Inside(Part(c, step)))
<1>2. /\ c # Nothing /\ step.task = "decrypt" /\ HandleIncoming(r, s, d)
      /\ UNCHANGED <<kind, attempts, sending, blobs, mailbox, delivered, kept, faults, hurt>>
  BY DEF DecryptionFinishes, AtWork
<1>3. PICK a \in Attempts : Arriving(kind, a, c)
  BY <1>1, <1>2, InTheSlot
<1>4. r \in Recipients
  BY <1>1, <1>2, InTheSlot
<1>5. d = Becomes(c, PostReceive(c), Classes!Inside(Part(c, PostReceive(c))))
  OBVIOUS
<1> HIDE DEF d, c
<1>6. Arriving(kind, a, d) /\ (Past(c) => PostReceive(d).task = "none")
  BY <1>1, <1>2, <1>3, <1>5, DecryptStep
<1> USE DEF c
<1>7. /\ delivered' = [q \in Receivers |-> delivered'[q]]
      /\ \A q \in Receivers : delivered'[q] \subseteq mailbox[q]
  BY <1>1, <1>2 DEF Server, Mail
<1>8. \A b \in blobs' : b \in blobs
  BY <1>2
<1> QED
  BY <1>2, <1>4, <1>6, <1>7, <1>8, IncomingKeeps

LEMMA TaskRefusesKeeps ==
    ASSUME MediaInv, NEW r \in Receivers, NEW s \in Slots, TaskRefuses(r, s)
    PROVE  MediaInv'
<1>1. Counts /\ Sender /\ Server /\ Receiver /\ kind \in Kinds
  BY DEF MediaInv, Counts
<1> DEFINE c == opening[r][s]
           step == PostReceive(c)
<1>2. /\ c # Nothing /\ opening' = [opening EXCEPT ![r][s] = Nothing]
      /\ \/ step.task = "download" \/ step.task = "delete"
         \/ step.task = "decrypt" /\ ~Classes!Opens(Part(c, step), c.key, step.nonce)
      /\ UNCHANGED <<kind, attempts, sending, blobs, mailbox, delivered, calls, kept, faults, hurt>>
  BY DEF TaskRefuses, Forget
<1>3. PICK a \in Attempts : Arriving(kind, a, c)
  BY <1>1, <1>2, InTheSlot
<1> HIDE DEF c
<1>4. ~Past(c)
  <2> SUFFICES ASSUME Past(c) PROVE FALSE
    OBVIOUS
  <2>1. step.task = "decrypt"
    BY DEF Past
  <2>2. Classes!Opens(Part(c, step), c.key, step.nonce)
    BY <1>1, <1>3, PastOpens
  <2> QED
    BY <1>2, <2>1, <2>2
<1> USE DEF c
<1> HIDE DEF step
<1>5. Receiver' /\ \A t \in Slots \ {s} : opening'[r][t] = opening[r][t]
  BY <1>1, <1>2, SlotKeeps
<1>6. \A q \in Receivers \ {r} : opening'[q] = opening[q]
  BY <1>1, <1>2 DEF Receiver
<1>7. ASSUME NEW q \in Receivers PROVE Held(q) => Held(q)'
  <2>1. \A t \in Slots : opening[q][t] # Nothing /\ Past(opening[q][t]) =>
           opening'[q][t] = opening[q][t]
    BY <1>4, <1>5, <1>6
  <2> QED
    BY <1>2, <2>1, HeldStays
<1>8. Server'
  BY <1>1, <1>2, <1>7, ServerKeeps DEF Server, Mail
<1> QED
  BY <1>1, <1>2, <1>5, <1>8, SenderKeeps DEF MediaInv, Counts

(* One more fault.                                                         *)
LEMMA FaultCounts ==
    ASSUME Counts, NEW r \in Receivers, faults < MaxFaults, faults' = faults + 1,
           hurt' = hurt \cup {r}, UNCHANGED <<kind, attempts>>
    PROVE  Counts'
<1>1. faults \in 0 .. MaxFaults /\ MaxFaults \in Nat
  BY MediaTransferAssumption DEF Counts
<1>2. faults + 1 \in 0 .. MaxFaults
  BY <1>1
<1> QED
  BY <1>2 DEF Counts

LEMMA NetworkFailsKeeps ==
    ASSUME MediaInv, NEW r \in Receivers, NEW s \in Slots, NetworkFails(r, s)
    PROVE  MediaInv'
<1>1. Counts /\ Sender /\ Server /\ Receiver /\ kind \in Kinds
  BY DEF MediaInv, Counts
<1> DEFINE c == opening[r][s]
<1>2. /\ faults < MaxFaults /\ faults' = faults + 1 /\ hurt' = hurt \cup {r}
      /\ c # Nothing /\ opening' = [opening EXCEPT ![r][s] = Nothing]
      /\ UNCHANGED <<kind, attempts, sending, mailbox, delivered, calls, kept>>
      /\ \/ blobs' = blobs
         \/ PostReceive(c).task = "delete" /\ blobs' = blobs \ Stored(BlobOf(c))
  BY DEF NetworkFails, AtWork, Forget
<1>3. Receiver'
  BY <1>1, <1>2, SlotKeeps
<1>4. \A q \in Receivers \ {r} : opening'[q] = opening[q]
  BY <1>1, <1>2 DEF Receiver
<1>5. ASSUME NEW q \in Receivers PROVE Held(q) => Held(q)'
  <2>1. CASE q = r
    <3>1. r \in hurt'
      BY <1>2
    <3> QED
      BY <2>1, <3>1, <1>2 DEF Held
  <2>2. CASE q # r
    <3>1. opening'[q] = opening[q]
      BY <1>4, <2>2
    <3> QED
      BY <3>1, <1>2, HeldStays
  <2> QED
    BY <2>1, <2>2
<1>6. blobs \subseteq blobs' \/ (\A q \in Receivers : mailbox'[q] # {} => Held(q)')
  <2>1. CASE blobs' = blobs
    BY <2>1
  <2>2. CASE PostReceive(c).task = "delete"
    <3>1. PICK a \in Attempts : Arriving(kind, a, c)
      BY <1>1, <1>2, InTheSlot
    <3>2. r \in Recipients
      BY <1>1, <1>2, InTheSlot
    <3> HIDE DEF c
    <3>3. kind[1] \in {"ContactImage", "ContactAudio"}
      BY <1>1, <2>2, <3>1, DeleteStep
    <3>4. Recipients = {r} /\ kind[1] \in ContactKinds
      BY <3>2, <3>3 DEF Recipients, ContactKinds
    <3>5. Held(r)'
      BY <1>2, <3>4 DEF Held
    <3>6. ASSUME NEW q \in Receivers, mailbox'[q] # {} PROVE q = r
      BY <1>1, <1>2, <3>4, <3>6 DEF Server, Mail
    <3> QED
      BY <3>5, <3>6
  <2> QED
    BY <1>2, <2>1, <2>2
<1>7. \A b \in blobs' : IsBlob(kind, b)
  BY <1>1, <1>2 DEF Server
<1>8. Server'
  BY <1>1, <1>2, <1>5, <1>6, <1>7, ServerKeeps DEF Server, Mail
<1>9. Counts'
  BY <1>1, <1>2, FaultCounts
<1> QED
  BY <1>1, <1>2, <1>3, <1>8, <1>9, SenderKeeps DEF MediaInv

(* The message center stores the first of its calls.                       *)
LEMMA StoringKeeps ==
    ASSUME Receiver, NEW r \in Receivers, calls[r] # <<>>,
           kept' = [kept EXCEPT ![r] = @ \cup {Storable(Head(calls[r]))}],
           calls' = [calls EXCEPT ![r] = Tail(@)], UNCHANGED <<kind, opening>>
    PROVE  /\ Receiver' /\ kept'[r] # {}
           /\ \A q \in Receivers \ {r} : kept'[q] = kept[q] /\ calls'[q] = calls[q]
<1>1. AtReceiver(r) /\ calls[r] \in Seq(Arrived(kind))
      /\ calls = [q \in Receivers |-> calls[q]] /\ kept = [q \in Receivers |-> kept[q]]
      /\ opening = [q \in Receivers |-> opening[q]]
  BY DEF Receiver, AtReceiver
<1> DEFINE x == Head(calls[r])
           k == Storable(x)
<1>2. x \in Arrived(kind) /\ Tail(calls[r]) \in Seq(Arrived(kind))
  BY <1>1
<1> HIDE DEF x
<1>3. k.content = x
  BY DEF Storable
<1>4. k.content \in Arrived(kind) /\ k = Storable(k.content)
  BY <1>2, <1>3
<1>5. kept' = [kept EXCEPT ![r] = @ \cup {k}]
  BY DEF x
<1> HIDE DEF k
<1>6. /\ kept' = [q \in Receivers |-> kept'[q]] /\ kept'[r] = kept[r] \cup {k}
      /\ \A q \in Receivers \ {r} : kept'[q] = kept[q]
  BY <1>1, <1>5
<1>7. /\ calls' = [q \in Receivers |-> calls'[q]] /\ calls'[r] = Tail(calls[r])
      /\ \A q \in Receivers \ {r} : calls'[q] = calls[q]
  BY <1>1
<1>8. r \in Recipients
  BY <1>1 DEF AtReceiver
<1>9. \A y \in kept'[r] : y.content \in Arrived(kind) /\ y = Storable(y.content)
  BY <1>1, <1>4, <1>6 DEF AtReceiver
<1>10. AtReceiver(r)'
  BY <1>1, <1>2, <1>7, <1>8, <1>9 DEF AtReceiver, Recipients, Storable, AtWorkOn, PostReceive
<1>11. Receiver'
  BY <1>1, <1>6, <1>7, <1>10, ReceiverKeeps DEF Receiver
<1> QED
  BY <1>6, <1>7, <1>11

LEMMA MessageCenterStoresKeeps ==
    ASSUME MediaInv, NEW r \in Receivers, MessageCenterStores(r)
    PROVE  MediaInv'
<1>1. Counts /\ Sender /\ Server /\ Receiver
  BY DEF MediaInv
<1>2. /\ calls[r] # <<>> /\ kept' = [kept EXCEPT ![r] = @ \cup {Storable(Head(calls[r]))}]
      /\ calls' = [calls EXCEPT ![r] = Tail(@)] /\ mailbox' = [mailbox EXCEPT ![r] = {}]
      /\ delivered' = [delivered EXCEPT ![r] = {}]
      /\ UNCHANGED <<kind, attempts, sending, blobs, opening, faults, hurt>>
  BY DEF MessageCenterStores
<1>3. /\ Receiver' /\ kept'[r] # {}
      /\ \A q \in Receivers \ {r} : kept'[q] = kept[q] /\ calls'[q] = calls[q]
  BY <1>1, <1>2, StoringKeeps
<1>4. /\ mailbox' = [q \in Receivers |-> mailbox'[q]]
      /\ delivered' = [q \in Receivers |-> delivered'[q]]
      /\ \A q \in Receivers : mailbox'[q] \subseteq mailbox[q] /\ delivered'[q] \subseteq mailbox'[q]
  BY <1>1, <1>2 DEF Server, Mail
<1>5. ASSUME NEW q \in Receivers PROVE Held(q) => Held(q)'
  <2>1. (kept[q] # {} => kept'[q] # {}) /\ (calls[q] # <<>> => calls'[q] # <<>> \/ kept'[q] # {})
    BY <1>3
  <2> QED
    BY <1>2, <2>1, HeldStays
<1>6. Server'
  BY <1>1, <1>2, <1>4, <1>5, ServerKeeps DEF Server
<1> QED
  BY <1>1, <1>2, <1>3, <1>6, SenderKeeps DEF MediaInv, Counts

LEMMA AcknowledgmentIsLostKeeps ==
    ASSUME MediaInv, NEW r \in Receivers, AcknowledgmentIsLost(r)
    PROVE  MediaInv'
<1>1. Counts /\ Sender /\ Server /\ Receiver
  BY DEF MediaInv
<1>2. /\ calls[r] # <<>> /\ kept' = [kept EXCEPT ![r] = @ \cup {Storable(Head(calls[r]))}]
      /\ calls' = [calls EXCEPT ![r] = Tail(@)]
      /\ faults < MaxFaults /\ faults' = faults + 1 /\ hurt' = hurt \cup {r}
      /\ UNCHANGED <<kind, attempts, sending, blobs, mailbox, delivered, opening>>
  BY DEF AcknowledgmentIsLost
<1>3. /\ Receiver' /\ kept'[r] # {}
      /\ \A q \in Receivers \ {r} : kept'[q] = kept[q] /\ calls'[q] = calls[q]
  BY <1>1, <1>2, StoringKeeps
<1>4. ASSUME NEW q \in Receivers PROVE Held(q) => Held(q)'
  <2>1. (kept[q] # {} => kept'[q] # {}) /\ (calls[q] # <<>> => calls'[q] # <<>> \/ kept'[q] # {})
    BY <1>3
  <2> QED
    BY <1>2, <2>1, HeldStays
<1>5. Server'
  BY <1>1, <1>2, <1>4, ServerKeeps DEF Server, Mail
<1> QED
  BY <1>1, <1>2, <1>3, <1>5, FaultCounts, SenderKeeps DEF MediaInv

LEMMA ReconnectKeeps ==
    ASSUME MediaInv, NEW r \in Receivers, Reconnect(r)
    PROVE  MediaInv'
<1>1. Counts /\ Sender /\ Server /\ Receiver
  BY DEF MediaInv
<1>2. /\ delivered' = [delivered EXCEPT ![r] = {}]
      /\ UNCHANGED <<kind, attempts, sending, blobs, mailbox, opening, calls, kept, faults, hurt>>
  BY DEF Reconnect
<1>3. /\ delivered' = [q \in Receivers |-> delivered'[q]]
      /\ \A q \in Receivers : delivered'[q] \subseteq mailbox'[q]
  BY <1>1, <1>2 DEF Server, Mail
<1>4. ASSUME NEW q \in Receivers PROVE Held(q) => Held(q)'
  BY <1>2, HeldStays
<1>5. Server'
  BY <1>1, <1>2, <1>3, <1>4, ServerKeeps DEF Server
<1> QED
  BY <1>1, <1>2, <1>5, ReceiverUnchanged, SenderKeeps DEF MediaInv, Counts

LEMMA RestartKeeps ==
    ASSUME MediaInv, NEW r \in Receivers, Restart(r)
    PROVE  MediaInv'
<1>1. Counts /\ Sender /\ Server /\ Receiver
  BY DEF MediaInv
<1>2. /\ faults < MaxFaults /\ faults' = faults + 1 /\ hurt' = hurt \cup {r}
      /\ delivered' = [delivered EXCEPT ![r] = {}]
      /\ opening' = [opening EXCEPT ![r] = [s \in Slots |-> Nothing]]
      /\ calls' = [calls EXCEPT ![r] = <<>>]
      /\ UNCHANGED <<kind, attempts, sending, blobs, mailbox, kept>>
  BY DEF Restart
<1>3. /\ opening' = [q \in Receivers |-> opening'[q]] /\ opening'[r] = [s \in Slots |-> Nothing]
      /\ \A q \in Receivers \ {r} : opening'[q] = opening[q]
  BY <1>1, <1>2 DEF Receiver
<1>4. /\ calls' = [q \in Receivers |-> calls'[q]] /\ calls'[r] = <<>>
      /\ \A q \in Receivers \ {r} : calls'[q] = calls[q]
  BY <1>1, <1>2 DEF Receiver
<1>5. /\ opening'[r] = [s \in Slots |-> opening'[r][s]]
      /\ \A s \in Slots : opening'[r][s] = Nothing
  BY <1>3
<1>6. AtReceiver(r)'
  <2>1. AtReceiver(r)
    BY <1>1 DEF Receiver
  <2>2. calls'[r] \in Seq(Arrived(kind))
    BY <1>4
  <2> QED
    BY <1>2, <1>4, <1>5, <2>1, <2>2 DEF AtReceiver, Recipients, Storable
<1>7. Receiver'
  BY <1>1, <1>2, <1>3, <1>4, <1>6, ReceiverKeeps DEF Receiver
<1>8. /\ delivered' = [q \in Receivers |-> delivered'[q]]
      /\ \A q \in Receivers : delivered'[q] \subseteq mailbox'[q]
  BY <1>1, <1>2 DEF Server, Mail
<1>9. ASSUME NEW q \in Receivers PROVE Held(q) => Held(q)'
  <2>1. CASE q = r
    <3>1. r \in hurt'
      BY <1>2
    <3> QED
      BY <2>1, <3>1, <1>2 DEF Held
  <2>2. CASE q # r
    <3>1. opening'[q] = opening[q] /\ calls'[q] = calls[q]
      BY <1>3, <1>4, <2>2
    <3> QED
      BY <3>1, <1>2, HeldStays
  <2> QED
    BY <2>1, <2>2
<1>10. Server'
  BY <1>1, <1>2, <1>8, <1>9, ServerKeeps DEF Server
<1> QED
  BY <1>1, <1>2, <1>7, <1>10, FaultCounts, SenderKeeps DEF MediaInv

-----------------------------------------------------------------------------
(* The invariant and what follows from it.                                 *)

LEMMA InitKeeps == Init => MediaInv
<1> SUFFICES ASSUME Init PROVE MediaInv
  OBVIOUS
<1>1. Counts
  <2>1. MaxAttempts[kind[1]] \in Nat \ {0} /\ MaxFaults \in Nat
    BY MediaTransferAssumption DEF Init
  <2> QED
    BY <2>1 DEF Init, Counts
<1>2. Sender
  BY DEF Init, Sender
<1>3. Server
  BY DEF Init, Server, Mail
<1>4. ASSUME NEW r \in Receivers PROVE AtReceiver(r)
  BY DEF Init, AtReceiver
<1>5. Receiver
  BY <1>4 DEF Init, Receiver
<1> QED
  BY <1>1, <1>2, <1>3, <1>5 DEF MediaInv

LEMMA StutterKeeps == ASSUME MediaInv, UNCHANGED vars PROVE MediaInv'
<1>1. Counts /\ Sender /\ Server /\ Receiver
  BY DEF MediaInv
<1>2. Counts' /\ Sender' /\ Server' /\ Receiver'
  <2>1. UNCHANGED <<kind, attempts, sending, blobs, mailbox, delivered, opening, calls, kept, faults, hurt>>
    BY DEF vars
  <2>2. Counts'
    BY <1>1, <2>1 DEF Counts
  <2> QED
    BY <1>1, <2>1, <2>2, SenderKeeps, ServerUnchanged, ReceiverUnchanged
<1> QED
  BY <1>2 DEF MediaInv

LEMMA NextKeeps == ASSUME MediaInv, Next PROVE MediaInv'
<1>1. CASE Send
  BY <1>1, SendKeeps
<1>2. CASE \E a \in Attempts : SenderStep(a)
  BY <1>2, EncryptionKeeps, UploadKeeps, UploadFailsKeeps DEF SenderStep
<1>3. CASE \E r \in Receivers, s \in Slots : TaskEnds(r, s) \/ NetworkFails(r, s)
  BY <1>3, DownloadFinishesKeeps, DeletionFinishesKeeps, DecryptionFinishesKeeps,
     TaskRefusesKeeps, NetworkFailsKeeps DEF TaskEnds
<1>4. CASE \E r \in Receivers : ReceiverStep(r)
  BY <1>4, DeliverKeeps, MessageCenterStoresKeeps, AcknowledgmentIsLostKeeps, ReconnectKeeps,
     RestartKeeps DEF ReceiverStep
<1> QED
  BY <1>1, <1>2, <1>3, <1>4 DEF Next

LEMMA MediaInvariant == Spec => []MediaInv
<1>1. MediaInv /\ [Next]_vars => MediaInv'
  BY NextKeeps, StutterKeeps
<1> QED
  BY InitKeeps, <1>1, PTL DEF Spec

LEMMA InvGivesTypes == MediaInv => TypeOK
<1> SUFFICES ASSUME MediaInv PROVE TypeOK
  OBVIOUS
<1>1. Counts /\ Sender /\ Server /\ Receiver /\ kind \in Kinds
  BY DEF MediaInv, Counts
<1>2. attempts \in 0 .. MaxAttempts[kind[1]] /\ faults \in 0 .. MaxFaults /\ hurt \subseteq Receivers
  BY <1>1 DEF Counts
<1>3. \A a \in Attempts : sending[a] # Nothing => a <= attempts /\ PreSend(sending[a]).task # "none"
  BY <1>1 DEF Sender, Leaving
<1>4. ASSUME NEW r \in Receivers
      PROVE  /\ delivered[r] \subseteq mailbox[r]
             /\ \A s \in Slots : opening[r][s] # Nothing => PostReceive(opening[r][s]).task # "none"
             /\ \A i \in DOMAIN calls[r] : calls[r][i].class \in ContactKinds \cup GroupKinds
  <2>1. delivered[r] \subseteq mailbox[r]
    BY <1>1 DEF Server, Mail
  <2>2. \A s \in Slots : opening[r][s] # Nothing => PostReceive(opening[r][s]).task # "none"
    BY <1>1 DEF Receiver, AtReceiver, AtWorkOn
  <2>3. calls[r] \in Seq(Arrived(kind))
    BY <1>1 DEF Receiver, AtReceiver
  <2>4. ASSUME NEW i \in DOMAIN calls[r] PROVE calls[r][i].class \in ContactKinds \cup GroupKinds
    <3>1. calls[r][i] \in Arrived(kind)
      BY <2>3
    <3>2. calls[r][i].class = kind[1]
      BY <3>1 DEF Arrived
    <3> QED
      BY <3>2, <1>1, KindFits
  <2> QED
    BY <2>1, <2>2, <2>4
<1> QED
  BY <1>2, <1>3, <1>4 DEF TypeOK

(* A message whose payload is not refused names the blob of its attempt.   *)
LEMMA NamesItsBlob ==
    ASSUME Counts, NEW m, OfAttempt(kind, m), ~Refused[m.content.class]
    PROVE  Parsed(m.content).main = Id(m.attempt, "main")
<1>1. m.attempt \in Attempts /\ Whole(kind, m.attempt, m.content)
      /\ m.content.class \in DOMAIN LayoutName /\ kind \in Kinds
  BY DEF OfAttempt, Counts
<1>2. Parsed(m.content) = m.content
  BY <1>1, ParsedIsTheSame
<1>3. Form[m.content.class].main = "id"
  BY <1>1, LayoutsAre
<1>4. m.content.main = InForm(kind, m.attempt, "main", Form[m.content.class].main)
  BY <1>1, WholeContent
<1> QED
  BY <1>2, <1>3, <1>4, FormsOfParts

(* The layout of a message to a contact is never refused.                  *)
LEMMA ContactsAreRead ==
    ASSUME Counts, NEW m, OfAttempt(kind, m), kind[1] \in ContactKinds
    PROVE  ~Refused[m.content.class]
<1>1. Whole(kind, m.attempt, m.content) /\ m.content.class \in DOMAIN LayoutName
  BY DEF OfAttempt
<1>2. LayoutName[m.content.class] = kind[1]
  BY <1>1, LayoutsAre, WholeContent
<1>3. kind[1] # "GroupSetPhoto"
  BY DEF ContactKinds
<1> QED
  BY <1>1, <1>2, <1>3, LayoutsAssumption

LEMMA InvGivesFetching == MediaInv => EveryMemberCanFetch
<1> SUFFICES ASSUME MediaInv, kind[1] \in GroupKinds,
                    NEW r \in Members, NEW m \in mailbox[r], ~Refused[m.content.class]
             PROVE  Stored(Parsed(m.content).main) # {}
  BY DEF EveryMemberCanFetch
<1>1. Counts /\ Server /\ r \in Receivers
  BY DEF MediaInv, Receivers
<1>2. OfAttempt(kind, m) /\ (Stored(Id(m.attempt, "main")) # {} \/ Held(r))
  BY <1>1 DEF Server, Mail
<1>3. ~Held(r)
  BY DEF Held, ContactKinds, GroupKinds
<1>4. Parsed(m.content).main = Id(m.attempt, "main")
  BY <1>1, <1>2, NamesItsBlob
<1> QED
  BY <1>2, <1>3, <1>4

LEMMA InvGivesHolding == MediaInv => DeletedOnlyWhenHeld
<1> SUFFICES ASSUME MediaInv, kind[1] \in ContactKinds, NEW m \in mailbox[Contact],
                    Stored(Parsed(m.content).main) = {}, Contact \notin hurt,
                    kept[Contact] = {}, calls[Contact] = <<>>
             PROVE  \E s \in Slots : opening[Contact][s] # Nothing
                                     /\ opening[Contact][s].blob # Classes!Empty
  BY DEF DeletedOnlyWhenHeld
<1>1. Counts /\ Server /\ Receiver /\ Contact \in Receivers /\ kind \in Kinds
  BY DEF MediaInv, Receivers, Counts
<1>2. OfAttempt(kind, m) /\ (Stored(Id(m.attempt, "main")) # {} \/ Held(Contact))
  BY <1>1 DEF Server, Mail
<1>3. Parsed(m.content).main = Id(m.attempt, "main")
  BY <1>1, <1>2, ContactsAreRead, NamesItsBlob
<1>4. Held(Contact)
  BY <1>2, <1>3
<1>5. PICK s \in Slots : opening[Contact][s] # Nothing /\ Past(opening[Contact][s])
  BY <1>4 DEF Held
<1> DEFINE c == opening[Contact][s]
<1>6. PICK a \in Attempts : Arriving(kind, a, c)
  BY <1>1, <1>5, InTheSlot
<1> HIDE DEF c
<1>7. c.blob # Classes!Empty
  <2>1. Past(c)
    BY <1>5 DEF c
  <2> QED
    BY <2>1, <1>1, <1>6, PastOpens
<1> QED
  BY <1>5, <1>7 DEF c

(* What is in a receiver's database is what was posted.                    *)
LEMMA InvGivesContents ==
    ASSUME MediaInv, \A p \in Pictures : CaptionRead[p] = p.caption
    PROVE  ReceivedAsSent
<1> SUFFICES ASSUME NEW r \in Receivers, NEW k \in kept[r]
             PROVE  /\ r \in Recipients
                    /\ <<k.content.class, k.content.main, k.content.cover>>
                          = <<Posted.class, Posted.main, Posted.cover>>
                    /\ kind[3] \in Pictures => k.caption = kind[3].caption
  BY DEF ReceivedAsSent
<1>1. AtReceiver(r)
  BY DEF MediaInv, Receiver
<1>2. k.content \in Arrived(kind) /\ k = Storable(k.content)
  BY <1>1 DEF AtReceiver
<1>3. r \in Recipients
  BY <1>1 DEF AtReceiver
<1>4. /\ k.content.class = kind[1] /\ k.content.main = <<"media">>
      /\ k.content.cover = IF kind[2] THEN <<"cover">> ELSE Classes!Empty
  BY <1>2, Zenon DEF Arrived, Original
<1>5. /\ Posted.class = kind[1] /\ Posted.main = <<"media">>
      /\ Posted.cover = IF kind[2] THEN <<"cover">> ELSE Classes!Empty
  BY DEF Posted
<1>6. kind[3] \in Pictures => k.caption = kind[3].caption
  <2> SUFFICES ASSUME kind[3] \in Pictures PROVE k.caption = kind[3].caption
    OBVIOUS
  <2>1. Storable(k.content) = [content |-> k.content, caption |-> CaptionRead[kind[3]]]
    BY Zenon DEF Storable
  <2>2. k = [content |-> k.content, caption |-> CaptionRead[kind[3]]]
    BY <1>2, <2>1
  <2>3. k.caption = CaptionRead[kind[3]]
    BY <2>2
  <2> QED
    BY <2>3
<1> QED
  BY <1>3, <1>4, <1>5, <1>6

-----------------------------------------------------------------------------
(* The theorems.                                                           *)

(* However many attempts, receivers, tasks and faults there are: no member *)
(* of a group finds the blobs of a message gone before he acknowledged it, *)
(* and the chain of a contact's image or recording takes a blob away only  *)
(* after it has the data (ContactEncryptedImageAndKeyAndImageId and the    *)
(* class for audio).                                                       *)
THEOREM BlobsAlwaysLastAsLongAsNeeded == Spec => []BlobsLastAsLongAsNeeded
<1>1. MediaInv => BlobsLastAsLongAsNeeded
  BY InvGivesTypes, InvGivesFetching, InvGivesHolding DEF BlobsLastAsLongAsNeeded
<1> QED
  BY MediaInvariant, <1>1, PTL

(* Where captions are read as they were written into the pictures, what    *)
(* reaches a database is always what was posted, whatever the class of the *)
(* media, whichever tasks failed, and however the chains of two attempts   *)
(* or of two deliveries mix (integrateCallbackTaskResult of all classes).  *)
THEOREM MediaAlwaysReceivedAsSent ==
    ASSUME \A p \in Pictures : CaptionRead[p] = p.caption
    PROVE  Spec => []ReceivedAsSent
<1>1. MediaInv => ReceivedAsSent
  BY InvGivesContents
<1> QED
  BY MediaInvariant, <1>1, PTL

=============================================================================
