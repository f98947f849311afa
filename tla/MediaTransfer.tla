--------------------------- MODULE MediaTransfer ---------------------------
(***************************************************************************)
(* One message with media on its way from the sender's ProtocolClient over *)
(* the blob server and the chat server into the receivers' databases.      *)
(* Both ends are the ProtocolClient of this repository.  It walks a        *)
(* content through the chain of classes of MediaContents: before sending,  *)
(* encrypt and upload; after receiving, download, delete and decrypt.      *)
(* Every task runs in a thread of its own and comes back to the client's   *)
(* event loop as a call of callbackTaskFinished.                           *)
(*                                                                         *)
(* The chat server keeps a message until it is acknowledged and delivers   *)
(* it once per session; the message center acknowledges after it stored    *)
(* the media.  The sender may send the message again while the first       *)
(* attempt is under way (Outbox says when); it keeps its identifier, and   *)
(* an acknowledgment names no more than that.                              *)
(*                                                                         *)
(* Bounds: the attempts, the contents one receiver works on at a time, and *)
(* the number of faults.  The receiver knows sender and group (Identities  *)
(* and GroupInbox model what happens when it does not).  Images carry a    *)
(* caption, inside (Captions).                                             *)
(***************************************************************************)
EXTENDS Naturals, Sequences, FiniteSets, SequencesExt

CONSTANTS
    Kinds,        \* the media to look at, as <<class, has a cover, picture>>
    Contact,      \* the receiver of a contact's message
    Members,      \* the receivers of a group's message
    MaxAttempts,  \* class -> how often its media are sent
    MaxAtOnce, MaxFaults

ContactKinds == {"ContactImage", "ContactAudio", "ContactVideo", "ContactFile"}
GroupKinds   == {"GroupImage", "GroupAudio", "GroupVideo", "GroupFile", "GroupSetPhoto"}

(* A video always has a cover, a file may have one, and nothing else does. *)
ASSUME MediaTransferAssumption ==
    /\ \A k \in Kinds :
        /\ k[1] \in ContactKinds \cup GroupKinds /\ k[2] \in BOOLEAN
        /\ k[1] \in {"ContactVideo", "GroupVideo"} => k[2]
        /\ k[2] => k[1] \in {"ContactVideo", "GroupVideo", "ContactFile", "GroupFile"}
        /\ MaxAttempts[k[1]] \in Nat \ {0}
    /\ MaxAtOnce \in Nat \ {0}
    /\ MaxFaults \in Nat

Classes == INSTANCE MediaContents
Exif    == INSTANCE Captions
Wire    == INSTANCE Payloads

Attempts  == UNION {1 .. MaxAttempts[k[1]] : k \in Kinds}
Slots     == 1 .. MaxAtOnce
Receivers == {Contact} \cup Members

VARIABLES
    kind,      \* what is being sent
    attempts,  \* how often it has been sent
    sending,   \* attempt -> the content its task works on, or Nothing
    blobs,     \* the blob server: a set of [id, data]
    mailbox,   \* the chat server, receiver -> the messages not acknowledged
    delivered, \* those of them it has delivered in this session
    opening,   \* receiver -> slot -> the content its task works on, or Nothing
    calls,     \* receiver -> contents on the way to the message center
    kept,      \* receiver -> contents in the database, with their captions
    faults,    \* how many faults there have been
    hurt       \* the receivers that lost something by a fault

vars == <<kind, attempts, sending, blobs, mailbox, delivered, opening, calls, kept, faults, hurt>>

Nothing == [class |-> "nothing"]

-----------------------------------------------------------------------------
(* Contents.                                                               *)

(* The captions of the pictures, as they are read from their files. *)
Pictures == {k[3] : k \in Kinds} \ {Exif!NoPicture}
CaptionRead == [p \in Pictures |-> Exif!ParseCaptionFromImage(Exif!PictureFile(p))]

Posted == [class |-> kind[1], main |-> <<"media">>,
           cover |-> IF kind[2] THEN <<"cover">> ELSE Classes!Empty,
           key |-> Classes!Empty, blob |-> Classes!Empty]

Recipients == IF kind[1] \in ContactKinds THEN {Contact} ELSE Members

PreSend(c)     == Classes!ContentClass[c.class].preSend
PostReceive(c) == Classes!ContentClass[c.class].postReceive

(* integrateCallbackTaskResult: the part the task worked on is replaced,   *)
(* the rest is handed on to the next class.                                *)
Becomes(c, step, x) ==
    LET next == step.next[c.cover # Classes!Empty]
    IN  IF step.part = "main" THEN [c EXCEPT !.class = next, !.main = x]
                              ELSE [c EXCEPT !.class = next, !.cover = x]

(* What a task comes up with is new in each attempt and for each part.     *)
Fresh(what, a, step) == <<what, a, step.part>>

Part(c, step) == IF step.part = "main" THEN c.main ELSE c.cover

(* Each encryption draws a key; it takes the place of the one before.      *)
Encrypted(c, step, a) ==
    LET key == Fresh("key", a, step)
    IN  [Becomes(c, step, Classes!Box(Part(c, step), key, step.nonce)) EXCEPT !.key = key]

(* The class that travels, and the layout it has on the wire.              *)
LayoutName == [
    ContactImageIdAndKey |-> "ContactImage", ContactAudioIdAndKey |-> "ContactAudio",
    ContactVideoIdAndImageIdAndKey |-> "ContactVideo",
    ContactFileIdAndImageIdAndKey |-> "ContactFile",
    GroupImageIdAndKey |-> "GroupImage", GroupAudioIdAndKey |-> "GroupAudio",
    GroupVideoIdAndImageIdAndKey |-> "GroupVideo",
    GroupFileIdAndImageIdAndKey |-> "GroupFile",
    GroupGroupPhotoIdAndKey |-> "GroupSetPhoto"]

(* A content of each class as bytes, its parts standing for themselves; a  *)
(* file's are the entries of an object.                                    *)
Symbols == [blob |-> "main", cover |-> "cover", key |-> "key", nonce |-> "key", owner |-> "owner",
            group |-> "group", size |-> "size", coverSize |-> "size", seconds |-> "seconds"]

AsPayload == [class \in DOMAIN LayoutName |->
    Wire!ToPacketPayload(LayoutName[class], Symbols,
        IF Wire!LayoutOf[LayoutName[class]].tail = "json" THEN <<"main", "cover", "key">> ELSE <<>>)]

(* What the parser makes of it: nothing, or which part it takes for which. *)
Refused == [class \in DOMAIN LayoutName |-> Wire!Refused(AsPayload[class])]

PartsOf(read) ==
    LET at(f) == IF f \in DOMAIN read.fields THEN read.fields[f] ELSE "none"
    IN  IF read.tail # <<>>
        THEN [main |-> read.tail[1], cover |-> read.tail[2], key |-> read.tail[3]]
        ELSE [main |-> at("blob"), cover |-> at("cover"),
              key |-> IF at("key") = "none" THEN at("nonce") ELSE at("key")]

ReadAs == [class \in DOMAIN LayoutName |-> PartsOf(Wire!FromPacketPayload(AsPayload[class]))]

(* Nothing in this is left open: the payloads of all classes, written and  *)
(* read once.  The reader takes the parts for what they are, but refuses   *)
(* the photo of a group.                                                   *)
ASSUME LayoutsAssumption ==
    \A class \in DOMAIN LayoutName :
        /\ Refused[class] <=> LayoutName[class] = "GroupSetPhoto"
        /\ ~Refused[class] =>
              ReadAs[class] =
                [main |-> "main", key |-> "key",
                 cover |-> IF LayoutName[class] \in
                                {"ContactVideo", "GroupVideo", "ContactFile", "GroupFile"}
                           THEN "cover" ELSE "none"]

Taken(c, from) ==
    LET take(part) == IF part \in {"main", "cover", "key"} THEN c[part] ELSE Classes!Empty
    IN  [c EXCEPT !.main = take(from.main), !.cover = take(from.cover), !.key = take(from.key)]

Parsed(c) == Taken(c, ReadAs[c.class])

-----------------------------------------------------------------------------

Init ==
    /\ kind \in Kinds
    /\ attempts = 0
    /\ sending = [a \in Attempts |-> Nothing]
    /\ blobs = {}
    /\ mailbox = [r \in Receivers |-> {}]
    /\ delivered = [r \in Receivers |-> {}]
    /\ opening = [r \in Receivers |-> [s \in Slots |-> Nothing]]
    /\ calls = [r \in Receivers |-> <<>>]
    /\ kept = [r \in Receivers |-> {}]
    /\ faults = 0
    /\ hurt = {}

-----------------------------------------------------------------------------
(* Sending.                                                                *)

(* sendContactMessage, sendGroupMessage: the content has a task to run.    *)
Send ==
    /\ attempts < MaxAttempts[kind[1]]
    /\ attempts' = attempts + 1
    /\ sending' = [sending EXCEPT ![attempts + 1] = Posted]
    /\ UNCHANGED <<kind, blobs, mailbox, delivered, opening, calls, kept, faults, hurt>>

(* handleOutgoingMessage: the next task, or the packets to the server, one *)
(* for each recipient.                                                     *)
HandleOutgoing(a, c) ==
    IF PreSend(c).task # "none"
    THEN /\ sending' = [sending EXCEPT ![a] = c]
         /\ UNCHANGED mailbox
    ELSE /\ sending' = [sending EXCEPT ![a] = Nothing]
         /\ mailbox' = [r \in Receivers |->
                IF r \in Recipients THEN mailbox[r] \cup {[attempt |-> a, content |-> c]}
                                    ELSE mailbox[r]]

EncryptionFinishes(a) ==
    /\ sending[a] # Nothing
    /\ LET step == PreSend(sending[a])
       IN  /\ step.task = "encrypt"
           /\ HandleOutgoing(a, Encrypted(sending[a], step, a))
    /\ UNCHANGED <<kind, attempts, blobs, delivered, opening, calls, kept, faults, hurt>>

UploadFinishes(a) ==
    /\ sending[a] # Nothing
    /\ LET c == sending[a]
           step == PreSend(c)
           id == Fresh("blob", a, step)
       IN  /\ step.task = "upload"
           /\ blobs' = blobs \cup {[id |-> id, data |-> Part(c, step)]}
           /\ HandleOutgoing(a, Becomes(c, step, id))
    /\ UNCHANGED <<kind, attempts, delivered, opening, calls, kept, faults, hurt>>

(* The upload fails, perhaps after the server took the blob: the message   *)
(* is reported as failed.                                                  *)
UploadFails(a) ==
    /\ faults < MaxFaults
    /\ sending[a] # Nothing
    /\ LET c == sending[a]
           step == PreSend(c)
       IN  /\ step.task = "upload"
           /\ \/ UNCHANGED blobs
              \/ blobs' = blobs \cup {[id |-> Fresh("blob", a, step), data |-> Part(c, step)]}
    /\ sending' = [sending EXCEPT ![a] = Nothing]
    /\ faults' = faults + 1
    /\ UNCHANGED <<kind, attempts, mailbox, delivered, opening, calls, kept, hurt>>

-----------------------------------------------------------------------------
(* Receiving.                                                              *)

Free(r) == {s \in Slots : opening[r][s] = Nothing}

(* Mutated form of HandleIncoming: the classes are told apart before the   *)
(* tasks are looked at. *)
MutantHandleIncoming(r, s, c) ==
    /\ opening' = [opening EXCEPT ![r][s] = IF PostReceive(c).task # "none" THEN c ELSE Nothing]
    /\ calls' = [calls EXCEPT ![r] = Append(@, c)]

(* handleIncomingMessage: another task, or the call of the message center  *)
(* if the class is one of those it takes.                                  *)
HandleIncoming(r, s, c) ==
    IF PostReceive(c).task # "none"
    THEN /\ opening' = [opening EXCEPT ![r][s] = c]
         /\ UNCHANGED calls
    ELSE /\ opening' = [opening EXCEPT ![r][s] = Nothing]
         /\ calls' = IF c.class \in ContactKinds \cup GroupKinds
                     THEN [calls EXCEPT ![r] = Append(@, c)] ELSE calls

(* The chat server delivers what it has.  A payload that does not parse is *)
(* dropped.                                                                *)
Deliver(r) ==
    /\ Cardinality(Free(r)) > Len(calls[r])
    /\ \E m \in mailbox[r] \ delivered[r] :
        /\ delivered' = [delivered EXCEPT ![r] = @ \cup {m}]
        /\ IF Refused[m.content.class] THEN UNCHANGED <<opening, calls>>
           ELSE HandleIncoming(r, CHOOSE s \in Free(r) : TRUE, Parsed(m.content))
    /\ UNCHANGED <<kind, attempts, sending, blobs, mailbox, kept, faults, hurt>>

(* The task at work in a slot, and what is on the blob server under an id. *)
AtWork(r, s, task) == opening[r][s] # Nothing /\ PostReceive(opening[r][s]).task = task
Stored(id) == {b \in blobs : b.id = id}

(* The blob of a content: its id stands beside the data or in its place.   *)
BlobOf(c) == IF c.blob = Classes!Empty THEN c.main ELSE c.blob

DownloadFinishes(r, s) ==
    /\ AtWork(r, s, "download")
    /\ LET c == opening[r][s]
           step == PostReceive(c)
       IN  \E b \in Stored(Part(c, step)) :
            HandleIncoming(r, s, [Becomes(c, step, b.data) EXCEPT !.blob = b.id])
    /\ UNCHANGED <<kind, attempts, sending, blobs, mailbox, delivered, kept, faults, hurt>>

DeletionFinishes(r, s) ==
    /\ AtWork(r, s, "delete")
    /\ LET c == opening[r][s]
       IN  /\ Stored(BlobOf(c)) # {}
           /\ blobs' = blobs \ Stored(BlobOf(c))
           /\ HandleIncoming(r, s, Becomes(c, PostReceive(c), c.main))
    /\ UNCHANGED <<kind, attempts, sending, mailbox, delivered, kept, faults, hurt>>

DecryptionFinishes(r, s) ==
    /\ AtWork(r, s, "decrypt")
    /\ LET c == opening[r][s]
           step == PostReceive(c)
       IN  /\ Classes!Opens(Part(c, step), c.key, step.nonce)
           /\ HandleIncoming(r, s, Becomes(c, step, Classes!Inside(Part(c, step))))
    /\ UNCHANGED <<kind, attempts, sending, blobs, mailbox, delivered, kept, faults, hurt>>

Forget(r, s) == opening' = [opening EXCEPT ![r][s] = Nothing]

(* A task cannot do its work: the content is dropped, with a warning.      *)
TaskRefuses(r, s) ==
    /\ opening[r][s] # Nothing
    /\ LET c == opening[r][s]
           step == PostReceive(c)
       IN  \/ step.task = "download" /\ Stored(Part(c, step)) = {}
           \/ step.task = "delete" /\ Stored(BlobOf(c)) = {}
           \/ step.task = "decrypt" /\ ~Classes!Opens(Part(c, step), c.key, step.nonce)
    /\ Forget(r, s)
    /\ UNCHANGED <<kind, attempts, sending, blobs, mailbox, delivered, calls, kept, faults, hurt>>

(* The network fails a task; a deletion may have happened all the same.    *)
NetworkFails(r, s) ==
    /\ faults < MaxFaults
    /\ faults' = faults + 1
    /\ hurt' = hurt \cup {r}
    /\ \/ AtWork(r, s, "download") /\ UNCHANGED blobs
       \/ AtWork(r, s, "delete") /\ UNCHANGED blobs
       \/ AtWork(r, s, "delete") /\ blobs' = blobs \ Stored(BlobOf(opening[r][s]))
    /\ Forget(r, s)
    /\ UNCHANGED <<kind, attempts, sending, mailbox, delivered, calls, kept>>

(* What is stored: of an image the caption, too, which is read from it.    *)
Storable(c) ==
    IF kind[3] \in Pictures THEN [content |-> c, caption |-> CaptionRead[kind[3]]]
                            ELSE [content |-> c, caption |-> <<>>]

(* SimpleMessageCenter::processReceived...: stored, then acknowledged by   *)
(* the identifier, which all attempts share.                               *)
MessageCenterStores(r) ==
    /\ calls[r] # <<>>
    /\ kept' = [kept EXCEPT ![r] = @ \cup {Storable(Head(calls[r]))}]
    /\ calls' = [calls EXCEPT ![r] = Tail(@)]
    /\ mailbox' = [mailbox EXCEPT ![r] = {}]
    /\ delivered' = [delivered EXCEPT ![r] = {}]
    /\ UNCHANGED <<kind, attempts, sending, blobs, opening, faults, hurt>>

(* The acknowledgment is lost with the connection.                         *)
AcknowledgmentIsLost(r) ==
    /\ faults < MaxFaults
    /\ calls[r] # <<>>
    /\ kept' = [kept EXCEPT ![r] = @ \cup {Storable(Head(calls[r]))}]
    /\ calls' = [calls EXCEPT ![r] = Tail(@)]
    /\ faults' = faults + 1
    /\ hurt' = hurt \cup {r}
    /\ UNCHANGED <<kind, attempts, sending, blobs, mailbox, delivered, opening>>

(* A new session: the server delivers again what was not acknowledged,     *)
(* while the tasks of the last session go on.                              *)
Reconnect(r) ==
    /\ delivered[r] # {}
    /\ delivered' = [delivered EXCEPT ![r] = {}]
    /\ UNCHANGED <<kind, attempts, sending, blobs, mailbox, opening, calls, kept, faults, hurt>>

(* The receiver's program ends and starts again.                           *)
Restart(r) ==
    /\ faults < MaxFaults
    /\ faults' = faults + 1
    /\ hurt' = hurt \cup {r}
    /\ delivered' = [delivered EXCEPT ![r] = {}]
    /\ opening' = [opening EXCEPT ![r] = [s \in Slots |-> Nothing]]
    /\ calls' = [calls EXCEPT ![r] = <<>>]
    /\ UNCHANGED <<kind, attempts, sending, blobs, mailbox, kept>>

-----------------------------------------------------------------------------

SenderStep(a) == EncryptionFinishes(a) \/ UploadFinishes(a) \/ UploadFails(a)

TaskEnds(r, s) ==
    DownloadFinishes(r, s) \/ DeletionFinishes(r, s) \/ DecryptionFinishes(r, s)
    \/ TaskRefuses(r, s)

ReceiverStep(r) ==
    Deliver(r) \/ MessageCenterStores(r) \/ AcknowledgmentIsLost(r)
    \/ Reconnect(r) \/ Restart(r)

Next ==
    \/ Send
    \/ \E a \in Attempts : SenderStep(a)
    \/ \E r \in Receivers, s \in Slots : TaskEnds(r, s) \/ NetworkFails(r, s)
    \/ \E r \in Receivers : ReceiverStep(r)

Spec == Init /\ [][Next]_vars

(* The event loops run, and a task's request is answered or fails.         *)
Fairness ==
    /\ \A a \in Attempts : WF_vars(EncryptionFinishes(a) \/ UploadFinishes(a))
    /\ \A r \in Receivers : WF_vars(MessageCenterStores(r)) /\ WF_vars(Deliver(r))
    /\ \A r \in Receivers, s \in Slots : WF_vars(TaskEnds(r, s))

LiveSpec == Spec /\ Fairness

-----------------------------------------------------------------------------
(* Properties.                                                             *)

(* The state of the transfer hangs together: what waits for a task has     *)
(* one, what reaches the message center needs none, an attempt is sent     *)
(* only once it was made, and the session's deliveries are messages the    *)
(* server has.                                                             *)
TypeOK ==
    /\ attempts \in 0 .. MaxAttempts[kind[1]] /\ faults \in 0 .. MaxFaults /\ hurt \subseteq Receivers
    /\ \A a \in Attempts : sending[a] # Nothing => a <= attempts /\ PreSend(sending[a]).task # "none"
    /\ \A r \in Receivers :
        /\ delivered[r] \subseteq mailbox[r]
        /\ \A s \in Slots : opening[r][s] # Nothing => PostReceive(opening[r][s]).task # "none"
        /\ \A i \in DOMAIN calls[r] : calls[r][i].class \in ContactKinds \cup GroupKinds

(* What reaches a database is what was posted, whichever tasks failed, ran *)
(* twice or were overtaken (integrateCallbackTaskResult of the classes),   *)
(* and an image has the caption its sender gave it, whoever wrote the tags *)
(* (QExifImageHeader).                                                     *)
ReceivedAsSent ==
    \A r \in Receivers : \A k \in kept[r] :
        LET c == k.content
        IN  /\ r \in Recipients
            /\ <<c.class, c.main, c.cover>> = <<Posted.class, Posted.main, Posted.cover>>
            /\ kind[3] \in Pictures => k.caption = kind[3].caption

(* The blobs of a message to a group are there as long as a member has not *)
(* acknowledged it: no member's chain takes them away from the others      *)
(* (GroupImageIdAndKey and the other classes for groups).                  *)
EveryMemberCanFetch ==
    kind[1] \in GroupKinds =>
        \A r \in Members : \A m \in mailbox[r] :
            ~Refused[m.content.class] => Stored(Parsed(m.content).main) # {}

(* What is left of an image or a recording when the blob of a message that *)
(* is still to be delivered is gone: it is kept, or on its way to being    *)
(* kept, in some chain.  The chain deletes the blob only after it has the  *)
(* data (ContactEncryptedImageAndKeyAndImageId and the class for audio).   *)
DeletedOnlyWhenHeld ==
    kind[1] \in ContactKinds =>
        \A m \in mailbox[Contact] :
            \/ Stored(Parsed(m.content).main) # {}
            \/ Contact \in hurt
            \/ kept[Contact] # {} \/ calls[Contact] # <<>>
            \/ \E s \in Slots : opening[Contact][s] # Nothing /\ opening[Contact][s].blob # Classes!Empty

(* Nobody deletes a blob that somebody else, or a second delivery, still   *)
(* has to download; and no task works on a content that has none to do.    *)
BlobsLastAsLongAsNeeded == TypeOK /\ EveryMemberCanFetch /\ DeletedOnlyWhenHeld

(* The media both ends can pack and unpack (see PostedMediaCanBeOpened).   *)
Sound == ~kind[2] /\ kind[1] \notin {"ContactVideo", "GroupVideo", "GroupSetPhoto"}

(* A message the server delivered ends in the database and is acknowledged *)
(* unless a fault hits the receiver: no chain of classes runs in a circle, *)
(* stops halfway, or is stopped by a second chain of the same message.     *)
MediaArrives ==
    \A r \in Receivers :
        Sound /\ delivered[r] # {} ~> (kept[r] # {} /\ mailbox[r] = {}) \/ r \in hurt

(* FeatureLevel.h:12 and :15 list videos and files among what the program  *)
(* can do: no content that left the sender is refused by the decryption of *)
(* a receiver.                                                             *)
PostedMediaCanBeOpened ==
    \A r \in Receivers, s \in Slots :
        AtWork(r, s, "decrypt") =>
            LET c == opening[r][s]
                step == PostReceive(c)
            IN  Classes!Opens(Part(c, step), c.key, step.nonce)

=============================================================================
