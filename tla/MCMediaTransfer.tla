-------------------------- MODULE MCMediaTransfer --------------------------
(* Instances of MediaTransfer for TLC.                                     *)
EXTENDS MediaTransfer

(* Every kind of media, a file with and without its cover. *)
Letters(n) == [i \in 1 .. n |-> 96 + i]
Plain == {<<"ContactVideo", TRUE>>, <<"ContactFile", TRUE>>, <<"ContactFile", FALSE>>,
          <<"ContactAudio", FALSE>>, <<"GroupAudio", FALSE>>, <<"GroupVideo", TRUE>>,
          <<"GroupFile", TRUE>>, <<"GroupFile", FALSE>>, <<"GroupSetPhoto", FALSE>>}

(* Captions on both sides of what fits into the entry of a tag, written by *)
(* this program or by phones. *)
MCPictures ==
    {Exif!Picture("own", "II", Letters(n)) : n \in {0, 3, 4}}
        \cup {Exif!Picture("artist", "MM", Letters(5))}
        \cup {Exif!Picture("comment", order, Letters(5)) : order \in {"II", "MM"}}

MCKinds ==
    {<<k[1], k[2], Exif!NoPicture>> : k \in Plain}
        \cup {<<"GroupImage", FALSE, p>> : p \in MCPictures}
        \cup {<<"ContactImage", FALSE, Exif!Picture("own", "II", Letters(5))>>}

(* A message to a contact is sent twice, one to a group once. *)
MCAttempts == [class \in ContactKinds \cup GroupKinds |-> IF class \in ContactKinds THEN 2 ELSE 1]

(* The kinds with a cover. *)
MCWithCover == {k \in MCKinds : k[2]}

=============================================================================
