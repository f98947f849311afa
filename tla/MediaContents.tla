--------------------------- MODULE MediaContents ---------------------------
(***************************************************************************)
(* The classes of message content that media pass through.  A content may  *)
(* have a task that must run before it can be sent or after it was         *)
(* received; the task's result turns it into a content of the next class.  *)
(* A class is a record of two steps,                                       *)
(*   preSend       for a content on its way out,                           *)
(*   postReceive   for a content on its way in,                            *)
(* each of which is NoStep or says which task runs on which part of the    *)
(* content and what class the result has.  A content has a main part       *)
(* (image, recording, video, file) and, in videos and files, a cover; a    *)
(* file may come without a cover, which is then Empty.  Sizes, durations,  *)
(* names and captions travel along unchanged and are left out.             *)
(***************************************************************************)
EXTENDS Naturals, Sequences

Empty == <<>>

(* Which class comes next may depend on whether there is a cover. *)
Always(class) == [hasCover \in BOOLEAN |-> class]
ByCover(with, without) == [hasCover \in BOOLEAN |-> IF hasCover THEN with ELSE without]

Step(task, part, nonce, next) ==
    [task |-> task, part |-> part, nonce |-> nonce, next |-> next]

NoStep == Step("none", "main", 0, Always("none"))

Encrypt(part, nonce, next) == Step("encrypt", part, nonce, next)
Decrypt(part, nonce, next) == Step("decrypt", part, nonce, next)
Upload(part, next)         == Step("upload", part, 0, next)
Download(part, next)       == Step("download", part, 0, next)
DeleteBlob(next)           == Step("delete", "main", 0, next)

-----------------------------------------------------------------------------
(* Encryption.  A content's key slot holds what the receiver needs: the    *)
(* key drawn by the task, or for an image to a contact, which is encrypted *)
(* for the receiver's public key, the nonce.                               *)

(* A box, and what opens it. *)
Box(x, key, nonce) == <<"box", x, key, nonce>>
Opens(box, key, nonce) == Len(box) = 4 /\ box[3] = key /\ box[4] = nonce
Inside(box) == box[2]

(* The fixed nonces; 0 stands for a nonce that is drawn. *)
FixedNonce(i) == i
DrawnNonce == 0

-----------------------------------------------------------------------------
(* Images to contacts. *)

ContactImage ==
    [preSend     |-> Encrypt("main", DrawnNonce, Always("ContactEncryptedImageAndKey")),
     postReceive |-> NoStep]

ContactEncryptedImageAndKey ==
    [preSend     |-> Upload("main", Always("ContactImageIdAndKey")),
     postReceive |-> Decrypt("main", DrawnNonce, Always("ContactImage"))]

ContactEncryptedImageAndKeyAndImageId ==
    [preSend     |-> NoStep,
     postReceive |-> DeleteBlob(Always("ContactEncryptedImageAndKey"))]

(* Mutated form of ContactImageIdAndKey: the blob is deleted first. *)
MutantContactImageIdAndKey ==
    [preSend     |-> NoStep,
     postReceive |-> DeleteBlob(Always("ContactEncryptedImageAndKeyAndImageId"))]

ContactImageIdAndKey ==
    [preSend     |-> NoStep,
     postReceive |-> Download("main", Always("ContactEncryptedImageAndKeyAndImageId"))]

(* Recordings to contacts. *)

ContactAudio ==
    [preSend     |-> Encrypt("main", FixedNonce(1), Always("ContactEncryptedAudioAndKey")),
     postReceive |-> NoStep]

ContactEncryptedAudioAndKey ==
    [preSend     |-> Upload("main", Always("ContactAudioIdAndKey")),
     postReceive |-> Decrypt("main", FixedNonce(1), Always("ContactAudio"))]

ContactEncryptedAudioAndKeyAndAudioId ==
    [preSend     |-> NoStep,
     postReceive |-> DeleteBlob(Always("ContactEncryptedAudioAndKey"))]

(* Mutated form of ContactAudioIdAndKey: what was downloaded counts as the *)
(* recording. *)
MutantContactAudioIdAndKey ==
    [preSend     |-> NoStep,
     postReceive |-> Download("main", Always("ContactAudio"))]

ContactAudioIdAndKey ==
    [preSend     |-> NoStep,
     postReceive |-> Download("main", Always("ContactEncryptedAudioAndKeyAndAudioId"))]

(* Videos to contacts. *)

ContactVideo ==
    [preSend     |-> Encrypt("main", FixedNonce(1), Always("ContactEncryptedVideoAndImageAndKey")),
     postReceive |-> NoStep]

ContactEncryptedVideoAndImageAndKey ==
    [preSend     |-> Encrypt("cover", FixedNonce(2),
                             Always("ContactEncryptedVideoAndEncryptedImageAndKey")),
     postReceive |-> Decrypt("main", FixedNonce(1), Always("ContactVideo"))]

ContactEncryptedVideoAndEncryptedImageAndKey ==
    [preSend     |-> Upload("cover", Always("ContactEncryptedVideoAndImageIdAndKey")),
     postReceive |-> Decrypt("cover", FixedNonce(2),
                             Always("ContactEncryptedVideoAndImageAndKey"))]

ContactEncryptedVideoAndImageIdAndKey ==
    [preSend     |-> Upload("main", Always("ContactVideoIdAndImageIdAndKey")),
     postReceive |-> Download("cover", Always("ContactEncryptedVideoAndEncryptedImageAndKey"))]

ContactVideoIdAndImageIdAndKey ==
    [preSend     |-> NoStep,
     postReceive |-> Download("main", Always("ContactEncryptedVideoAndImageIdAndKey"))]

(* Files to contacts. *)

ContactFile ==
    [preSend     |-> Encrypt("main", FixedNonce(1),
                             ByCover("ContactEncryptedFileAndImageAndKey",
                                     "ContactEncryptedFileAndImageIdAndKey")),
     postReceive |-> NoStep]

ContactEncryptedFileAndImageAndKey ==
    [preSend     |-> Encrypt("cover", FixedNonce(2),
                             Always("ContactEncryptedFileAndEncryptedImageAndKey")),
     postReceive |-> Decrypt("main", FixedNonce(1), Always("ContactFile"))]

ContactEncryptedFileAndEncryptedImageAndKey ==
    [preSend     |-> Upload("cover", Always("ContactEncryptedFileAndImageIdAndKey")),
     postReceive |-> Decrypt("cover", FixedNonce(2), Always("ContactEncryptedFileAndImageAndKey"))]

ContactEncryptedFileAndImageIdAndKey ==
    [preSend     |-> Upload("main", Always("ContactFileIdAndImageIdAndKey")),
     postReceive |-> Download("cover", Always("ContactEncryptedFileAndEncryptedImageAndKey"))]

ContactFileIdAndImageIdAndKey ==
    [preSend     |-> NoStep,
     postReceive |-> Download("main", ByCover("ContactEncryptedFileAndImageIdAndKey",
                                              "ContactEncryptedFileAndImageAndKey"))]

-----------------------------------------------------------------------------
(* The same for groups.  One blob serves all members, so none is deleted;  *)
(* images, too, are encrypted with a key that travels with the message.    *)

(* Images. *)

GroupImage ==
    [preSend     |-> Encrypt("main", FixedNonce(1), Always("GroupEncryptedImageAndKey")),
     postReceive |-> NoStep]

GroupEncryptedImageAndKey ==
    [preSend     |-> Upload("main", Always("GroupImageIdAndKey")),
     postReceive |-> Decrypt("main", FixedNonce(1), Always("GroupImage"))]

(* Mutated form of GroupImageIdAndKey: goes on like an image to a contact. *)
MutantGroupImageIdAndKey ==
    [preSend     |-> NoStep,
     postReceive |-> Download("main", Always("ContactEncryptedImageAndKeyAndImageId"))]

GroupImageIdAndKey ==
    [preSend     |-> NoStep,
     postReceive |-> Download("main", Always("GroupEncryptedImageAndKey"))]

(* Recordings. *)

GroupAudio ==
    [preSend     |-> Encrypt("main", FixedNonce(1), Always("GroupEncryptedAudioAndKey")),
     postReceive |-> NoStep]

(* Mutated form of GroupEncryptedAudioAndKey: the nonce of the cover. *)
MutantGroupEncryptedAudioAndKey ==
    [preSend     |-> Upload("main", Always("GroupAudioIdAndKey")),
     postReceive |-> Decrypt("main", FixedNonce(2), Always("GroupAudio"))]

GroupEncryptedAudioAndKey ==
    [preSend     |-> Upload("main", Always("GroupAudioIdAndKey")),
     postReceive |-> Decrypt("main", FixedNonce(1), Always("GroupAudio"))]

GroupAudioIdAndKey ==
    [preSend     |-> NoStep,
     postReceive |-> Download("main", Always("GroupEncryptedAudioAndKey"))]

(* Photos of groups. *)

GroupSetPhoto ==
    [preSend     |-> Encrypt("main", FixedNonce(1), Always("GroupEncryptedGroupPhotoAndKey")),
     postReceive |-> NoStep]

GroupEncryptedGroupPhotoAndKey ==
    [preSend     |-> Upload("main", Always("GroupGroupPhotoIdAndKey")),
     postReceive |-> Decrypt("main", FixedNonce(1), Always("GroupSetPhoto"))]

GroupGroupPhotoIdAndKey ==
    [preSend     |-> NoStep,
     postReceive |-> Download("main", Always("GroupEncryptedGroupPhotoAndKey"))]

(* Videos. *)

GroupVideo ==
    [preSend     |-> Encrypt("main", FixedNonce(1), Always("GroupEncryptedVideoAndImageAndKey")),
     postReceive |-> NoStep]

GroupEncryptedVideoAndImageAndKey ==
    [preSend     |-> Encrypt("cover", FixedNonce(2),
                             Always("GroupEncryptedVideoAndEncryptedImageAndKey")),
     postReceive |-> Decrypt("main", FixedNonce(1), Always("GroupVideo"))]

GroupEncryptedVideoAndEncryptedImageAndKey ==
    [preSend     |-> Upload("cover", Always("GroupEncryptedVideoAndImageIdAndKey")),
     postReceive |-> Decrypt("cover", FixedNonce(2),
                             Always("GroupEncryptedVideoAndImageAndKey"))]

GroupEncryptedVideoAndImageIdAndKey ==
    [preSend     |-> Upload("main", Always("GroupVideoIdAndImageIdAndKey")),
     postReceive |-> Download("cover", Always("GroupEncryptedVideoAndEncryptedImageAndKey"))]

GroupVideoIdAndImageIdAndKey ==
    [preSend     |-> NoStep,
     postReceive |-> Download("main", Always("GroupEncryptedVideoAndImageIdAndKey"))]

(* Files. *)

GroupFile ==
    [preSend     |-> Encrypt("main", FixedNonce(1),
                             ByCover("GroupEncryptedFileAndImageAndKey",
                                     "GroupEncryptedFileAndImageIdAndKey")),
     postReceive |-> NoStep]

GroupEncryptedFileAndImageAndKey ==
    [preSend     |-> Encrypt("cover", FixedNonce(2),
                             Always("GroupEncryptedFileAndEncryptedImageAndKey")),
     postReceive |-> Decrypt("main", FixedNonce(1), Always("GroupFile"))]

GroupEncryptedFileAndEncryptedImageAndKey ==
    [preSend     |-> Upload("cover", Always("GroupEncryptedFileAndImageIdAndKey")),
     postReceive |-> Decrypt("cover", FixedNonce(2), Always("GroupEncryptedFileAndImageAndKey"))]

GroupEncryptedFileAndImageIdAndKey ==
    [preSend     |-> Upload("main", Always("GroupFileIdAndImageIdAndKey")),
     postReceive |-> Download("cover", Always("GroupEncryptedFileAndEncryptedImageAndKey"))]

GroupFileIdAndImageIdAndKey ==
    [preSend     |-> NoStep,
     postReceive |-> Download("main", ByCover("GroupEncryptedFileAndImageIdAndKey",
                                              "GroupEncryptedFileAndImageAndKey"))]

-----------------------------------------------------------------------------

(* All classes by their names. *)
ContentClass == [
    ContactImage |-> ContactImage,
    ContactEncryptedImageAndKey |-> ContactEncryptedImageAndKey,
    ContactEncryptedImageAndKeyAndImageId |-> ContactEncryptedImageAndKeyAndImageId,
    ContactImageIdAndKey |-> ContactImageIdAndKey,
    ContactAudio |-> ContactAudio,
    ContactEncryptedAudioAndKey |-> ContactEncryptedAudioAndKey,
    ContactEncryptedAudioAndKeyAndAudioId |-> ContactEncryptedAudioAndKeyAndAudioId,
    ContactAudioIdAndKey |-> ContactAudioIdAndKey,
    ContactVideo |-> ContactVideo,
    ContactEncryptedVideoAndImageAndKey |-> ContactEncryptedVideoAndImageAndKey,
    ContactEncryptedVideoAndEncryptedImageAndKey |-> ContactEncryptedVideoAndEncryptedImageAndKey,
    ContactEncryptedVideoAndImageIdAndKey |-> ContactEncryptedVideoAndImageIdAndKey,
    ContactVideoIdAndImageIdAndKey |-> ContactVideoIdAndImageIdAndKey,
    ContactFile |-> ContactFile,
    ContactEncryptedFileAndImageAndKey |-> ContactEncryptedFileAndImageAndKey,
    ContactEncryptedFileAndEncryptedImageAndKey |-> ContactEncryptedFileAndEncryptedImageAndKey,
    ContactEncryptedFileAndImageIdAndKey |-> ContactEncryptedFileAndImageIdAndKey,
    ContactFileIdAndImageIdAndKey |-> ContactFileIdAndImageIdAndKey,
    GroupImage |-> GroupImage,
    GroupEncryptedImageAndKey |-> GroupEncryptedImageAndKey,
    GroupImageIdAndKey |-> GroupImageIdAndKey,
    GroupAudio |-> GroupAudio,
    GroupEncryptedAudioAndKey |-> GroupEncryptedAudioAndKey,
    GroupAudioIdAndKey |-> GroupAudioIdAndKey,
    GroupSetPhoto |-> GroupSetPhoto,
    GroupEncryptedGroupPhotoAndKey |-> GroupEncryptedGroupPhotoAndKey,
    GroupGroupPhotoIdAndKey |-> GroupGroupPhotoIdAndKey,
    GroupVideo |-> GroupVideo,
    GroupEncryptedVideoAndImageAndKey |-> GroupEncryptedVideoAndImageAndKey,
    GroupEncryptedVideoAndEncryptedImageAndKey |-> GroupEncryptedVideoAndEncryptedImageAndKey,
    GroupEncryptedVideoAndImageIdAndKey |-> GroupEncryptedVideoAndImageIdAndKey,
    GroupVideoIdAndImageIdAndKey |-> GroupVideoIdAndImageIdAndKey,
    GroupFile |-> GroupFile,
    GroupEncryptedFileAndImageAndKey |-> GroupEncryptedFileAndImageAndKey,
    GroupEncryptedFileAndEncryptedImageAndKey |-> GroupEncryptedFileAndEncryptedImageAndKey,
    GroupEncryptedFileAndImageIdAndKey |-> GroupEncryptedFileAndImageIdAndKey,
    GroupFileIdAndImageIdAndKey |-> GroupFileIdAndImageIdAndKey]

=============================================================================
