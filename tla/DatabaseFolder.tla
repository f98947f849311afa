---------------------------- MODULE DatabaseFolder ----------------------------
(***************************************************************************)
(* A folder with a database: the encrypted file with its tables and the    *)
(* media files beside it, as the disk holds them, and the single           *)
(* statements and file operations by which SimpleDatabase and              *)
(* ExternalMediaFileStorage create, upgrade, open and fill it.  Each is    *)
(* durable when it is done, a transaction when it is committed; whoever    *)
(* runs them can be stopped between any two.                               *)
(*                                                                         *)
(* Executing a step gives the folder, the steps that now come first, and   *)
(* whether it went well: "ok", "password" for an InvalidPasswordOr-        *)
(* DatabaseException and "error" for every other exception.                *)
(***************************************************************************)
EXTENDS Naturals, Sequences, FiniteSets, SequencesExt

CONSTANTS
    None,
    Tables      \* the tables in the order in which they are created; the program
                \* has nine of them, the first is table_versions

AllTables == ToSet(Tables)

CreatedVersion(table) == IF table = "media" THEN 3 ELSE 1

Untouched ==
    [exists |-> FALSE, password |-> None, compatible |-> FALSE,
     tables |-> {}, versions |-> [t \in {} |-> 0], identity |-> None,
     contacts |-> {}, groups |-> {}, messages |-> {}, groupMessages |-> {},
     media |-> {}, files |-> {}]

Outcome(folder, first, result) == [folder |-> folder, first |-> first, result |-> result]
Done(folder)   == Outcome(folder, <<>>, "ok")
Failed(folder) == Outcome(folder, <<>>, "error")

-----------------------------------------------------------------------------
(* The string of an identity backup opens with its password only. *)
ToBackupString(self, password) == [self |-> self, sealed |-> password]

Opens(backupString, password) == backupString.sealed = password

(* An empty file can be opened with every password and takes on the first  *)
(* it is written with.                                                     *)
Readable(folder, password, compatible) ==
    folder.tables = {} \/ (folder.password = password /\ folder.compatible = compatible)

OpenExisting(folder, password, compatible) ==
    IF Readable(folder, password, compatible) THEN Done([folder EXCEPT !.exists = TRUE])
    ELSE Outcome(folder, <<>>, "password")

(* The constructor that creates a database finds out about a wrong         *)
(* password by the first query for a table.                                *)
OpenNew(folder, password) ==
    IF Readable(folder, password, TRUE) THEN Done([folder EXCEPT !.exists = TRUE])
    ELSE Failed(folder)

SetTableVersion(folder, table, version) ==
    Done([folder EXCEPT !.versions =
            [t \in DOMAIN folder.versions \cup {table} |->
                IF t = table THEN version ELSE folder.versions[t]]])

(* A table that is missing is created and gets its version in a second     *)
(* statement; one that is there without a version makes the opening fail.  *)
CreateTableIfMissing(folder, table, password, compatible) ==
    IF table \notin folder.tables
    THEN Outcome([folder EXCEPT !.tables = @ \cup {table}, !.password = password,
                                !.compatible = compatible],
                 << <<"version", table>> >>, "ok")
    ELSE IF table \in DOMAIN folder.versions THEN Done(folder) ELSE Failed(folder)

(* A file of a media item: of which item, under which key, and whether its *)
(* name follows the scheme with the type.                                  *)
MediaFile(uid, key, typed) == [uid |-> uid, key |-> key, typed |-> typed]

(* Mutated form of UpgradeMedia: the transaction ends before the files are *)
(* renamed. *)
MutantUpgradeMedia(folder) ==
    CASE folder.versions["media"] = 1 ->
            Outcome(folder, << <<"upgraded", 2>> >>
                            \o SetToSeq({<<"rename", f>> : f \in {f \in folder.files : ~f.typed}}), "ok")
      [] folder.versions["media"] = 2 -> Done([folder EXCEPT !.versions["media"] = 3])
      [] OTHER -> Done(folder)

(* From version 1 the files are renamed while the transaction that changes *)
(* the table is open; from version 2 nothing happens outside of it.  One   *)
(* version per opening. *)
UpgradeMedia(folder) ==
    CASE folder.versions["media"] = 1 ->
            Outcome(folder, SetToSeq({<<"rename", f>> : f \in {f \in folder.files : ~f.typed}})
                            \o << <<"upgraded", 2>> >>, "ok")
      [] folder.versions["media"] = 2 -> Done([folder EXCEPT !.versions["media"] = 3])
      [] OTHER -> Done(folder)

RenameFile(folder, file) ==
    Done([folder EXCEPT !.files = (@ \ {file}) \cup {[file EXCEPT !.typed = TRUE]}])

SetBackup(folder, self, password) == Done([folder EXCEPT !.identity = ToBackupString(self, password)])

UpdateCachedIdentityBackup(folder, password) ==
    IF folder.identity # None /\ Opens(folder.identity, password) THEN Done(folder) ELSE Failed(folder)

HasContact(folder, id) == \E c \in folder.contacts : c.id = id

(* A new contact is inserted; a known one keeps its key, which must be the *)
(* same, and takes the new names.                                          *)
AddContact(folder, contact) ==
    IF \E c \in folder.contacts : c.id = contact.id /\ c.key # contact.key THEN Failed(folder)
    ELSE Done([folder EXCEPT !.contacts = {c \in @ : c.id # contact.id} \cup {contact}])

StoreSelf(folder) ==
    LET self == folder.identity.self
    IN  IF HasContact(folder, self.id) THEN Done(folder) ELSE AddContact(folder, self)

(* Mutated form of CheckMembers: every group is taken. *)
MutantCheckMembers(folder, groups) == Done(folder)

(* storeNewGroup looks at all members of all groups before it stores one.  *)
CheckMembers(folder, groups) ==
    IF \A g \in groups : \A m \in g.members : HasContact(folder, m) THEN Done(folder) ELSE Failed(folder)

AddGroup(folder, group) ==
    LET containsUs == folder.identity.self.id \in group.members
        row == [group EXCEPT !.deleted = ~(containsUs /\ ~@)]
    IN  Done([folder EXCEPT !.groups = {g \in @ : g.id # group.id} \cup {row}])

(* The messages of a backup are one transaction; a uid that is there makes *)
(* it fail.                                                                *)
InsertMessages(folder, rows) ==
    IF \E r \in rows : \E s \in folder.messages : r.uid = s.uid THEN Failed(folder)
    ELSE Done([folder EXCEPT !.messages = @ \cup rows])

InsertGroupMessages(folder, rows) ==
    IF \E r \in rows : \E s \in folder.groupMessages : r.uid = s.uid THEN Failed(folder)
    ELSE Done([folder EXCEPT !.groupMessages = @ \cup rows])

(* Every write of a media item draws a new key: one no file of the item    *)
(* was ever written with.                                                  *)
WriteMediaFile(folder, uid) ==
    LET old == {f \in folder.files : f.uid = uid}
        key == IF old = {} THEN 1 ELSE 1 + (CHOOSE f \in old : TRUE).key
    IN  Done([folder EXCEPT !.files = (@ \ old) \cup {MediaFile(uid, key, TRUE)}])

(* The rows of the files just written, committed together.  An item that   *)
(* has a row keeps it.                                                     *)
CommitMediaRows(folder, uids) ==
    LET new == {u \in uids : \A r \in folder.media : r.uid # u}
    IN  Done([folder EXCEPT !.media = @ \cup
                {[uid |-> f.uid, key |-> f.key] : f \in {f \in folder.files : f.uid \in new}}])

(* What getMediaItem needs to find a file and to open it. *)
CanBeRead(folder, row) == \E f \in folder.files : f.uid = row.uid /\ f.key = row.key /\ f.typed

-----------------------------------------------------------------------------
(* A step by its name. *)

Execute(folder, work, step) ==
    CASE step[1] = "open"     -> OpenExisting(folder, work.password, work.compatible)
      [] step[1] = "create"   -> OpenNew(folder, work.password)
      [] step[1] = "table"    -> CreateTableIfMissing(folder, step[2], work.password, work.compatible)
      [] step[1] = "version"  -> SetTableVersion(folder, step[2], CreatedVersion(step[2]))
      [] step[1] = "upgrade"  -> UpgradeMedia(folder)
      [] step[1] = "rename"   -> RenameFile(folder, step[2])
      [] step[1] = "upgraded" -> SetTableVersion(folder, "media", step[2])
      [] step[1] = "backup"   -> SetBackup(folder, step[2], work.password)
      [] step[1] = "identity" -> UpdateCachedIdentityBackup(folder, work.password)
      [] step[1] = "self"     -> StoreSelf(folder)
      [] step[1] = "contact"  -> AddContact(folder, step[2])
      [] step[1] = "members"  -> CheckMembers(folder, step[2])
      [] step[1] = "group"    -> AddGroup(folder, step[2])
      [] step[1] = "messages" -> InsertMessages(folder, step[2])
      [] step[1] = "groupMessages" -> InsertGroupMessages(folder, step[2])
      [] step[1] = "file"     -> WriteMediaFile(folder, step[2])
      [] step[1] = "rows"     -> CommitMediaRows(folder, step[2])
      [] step[1] = "throw"    -> Failed(folder)

CreateOrUpdateTables == [i \in DOMAIN Tables |-> <<"table", Tables[i]>>] \o << <<"upgrade">> >>

(* The two constructors of SimpleDatabase. *)
OpenSteps == << <<"open">> >> \o CreateOrUpdateTables \o << <<"identity">>, <<"self">> >>

CreateSteps(self) ==
    << <<"create">> >> \o CreateOrUpdateTables \o << <<"backup", self>>, <<"self">> >>

-----------------------------------------------------------------------------
(* What makes a database whole: every table with its version, an identity  *)
(* that opens, ourselves among the contacts, nobody in a group and nothing *)
(* in a conversation that is unknown, and every media row readable.        *)
Whole(folder) ==
    /\ folder.tables = AllTables /\ DOMAIN folder.versions = AllTables
    /\ folder.identity # None /\ Opens(folder.identity, folder.password)
    /\ HasContact(folder, folder.identity.self.id)
    /\ \A g \in folder.groups : \A m \in g.members : HasContact(folder, m)
    /\ \A r \in folder.messages : HasContact(folder, r.of)
    /\ \A r \in folder.groupMessages : \E g \in folder.groups : g.id = r.of
    /\ \A r \in folder.media : CanBeRead(folder, r)

=============================================================================
