----------------------------- MODULE MCHistory -----------------------------
(***************************************************************************)
(* History with a file of ours that was there before, an image that comes, *)
(* and a text that we send.  The image was sent before the file and is     *)
(* received after it, so that the two orders differ.                       *)
(***************************************************************************)
EXTENDS History

CONSTANTS file, image, text

Day == 86400

MCKind == [u \in Messages |-> CASE u = file -> "file" [] u = image -> "image" [] u = text -> "text"]
MCSortBy == [u \in Messages |-> CASE u = file -> 5 * Day [] u = image -> 12 * Day [] u = text -> 38 * Day]
MCCreatedAt == [u \in Messages |-> CASE u = file -> 5 * Day [] u = image -> 4 * Day [] u = text -> 38 * Day]

MCNow == 40 * Day

(* A week before is between the image and the text; so is the date. *)
MCAges == {<<7, "days">>}
MCDates == {20 * Day}
=============================================================================
