----------------------------- MODULE BackupReader -----------------------------
(***************************************************************************)
(* What BackupReader does with a data backup: it creates a database for    *)
(* the identity in it and stores what it reads from the tables and files,  *)
(* part after part; an exception anywhere ends it.  The result is the      *)
(* sequence of steps of DatabaseFolder that an import runs through.        *)
(*                                                                         *)
(* A backup is [self, password, identity, contacts, groups, messages,      *)
(* groupMessages, media, groupMedia]: the string with the identity, two    *)
(* tables, for each contact and group a table of messages, and the items   *)
(* of media by their uuid.                                                 *)
(***************************************************************************)
EXTENDS BackupFiles, DatabaseFolder

Separator == ";"
No == <<"0">>
Empty == <<>>

(* split(';', SkipEmptyParts) *)
SplitList(text) ==
    LET parts == FoldLeft(LAMBDA ps, x : IF x = Separator THEN Append(ps, <<>>)
                                         ELSE Append(Front(ps), Append(Last(ps), x)), <<<<>>>>, text)
    IN  {p \in ToSet(parts) : p # Empty}

-----------------------------------------------------------------------------
(* A row of each table. *)

ContactFields == {"identity", "publickey", "nick_name"}

ContactOf(row) == [id |-> row["identity"], key |-> row["publickey"], name |-> row["nick_name"]]

GroupFields == {"id", "creator", "groupname", "members", "deleted"}

GroupOf(row) ==
    [id |-> <<row["creator"], row["id"]>>, name |-> row["groupname"],
     members |-> SplitList(row["members"]), deleted |-> row["deleted"] # No]

MessageFields ==
    {"uid", "isoutbox", "isread", "messagestae", "posted_at", "created_at", "body"}

(* The state of a received message is made up from its flag, and the two   *)
(* times change their meaning with the direction.                          *)
MessageOf(of, row) ==
    LET outbox == row["isoutbox"] # No
        read   == row["isread"] # No
    IN  [uid |-> row["uid"], of |-> of, outbox |-> outbox, body |-> row["body"],
         state |-> IF outbox THEN row["messagestae"] ELSE IF read THEN "READ" ELSE "DELIVERED",
         sent_at |-> IF outbox THEN row["created_at"] ELSE row["posted_at"],
         sort_by |-> IF outbox THEN row["posted_at"] ELSE row["created_at"]]

GroupMessageFields == MessageFields \cup {"identity"}

(* A group message without a sender is taken for one of the group's owner. *)
GroupMessageOf(group, row) ==
    MessageOf(group, row) @@ [from |-> IF row["identity"] = Empty THEN group[1] ELSE row["identity"]]

-----------------------------------------------------------------------------
(* The parts of an import. *)

Throw == << <<"throw">> >>

ContactSteps(read) ==
    IF read.failed THEN Throw ELSE SetToSeq({<<"contact", ContactOf(r)>> : r \in read.rows})

GroupSteps(read) ==
    IF read.failed THEN Throw
    ELSE << <<"members", {GroupOf(r) : r \in read.rows}>> >>
         \o SetToSeq({<<"group", GroupOf(r)>> : r \in read.rows})

(* All files of a kind are read before the first of their messages is      *)
(* stored.                                                                 *)
Together(tables) ==
    [failed |-> \E t \in tables : t[2].failed,
     rows   |-> UNION {{<<t[1], r>> : r \in t[2].rows} : t \in tables}]

ReadFiles(fields, files) == Together({<<of, ReadTable(fields, files[of])>> : of \in DOMAIN files})

StoreMessages(read) ==
    IF read.failed THEN Throw
    ELSE << <<"messages", {MessageOf(p[1], p[2]) : p \in read.rows}>> >>

StoreGroupMessages(read) ==
    IF read.failed THEN Throw
    ELSE << <<"groupMessages", {GroupMessageOf(p[1], p[2]) : p \in read.rows}>> >>

(* Every file is written before the rows are committed. *)
StoreMedia(uids) == SetToSeq({<<"file", u>> : u \in uids}) \o << <<"rows", uids>> >>

(* Mutated form of ImportSteps: the media come before the messages. *)
MutantImportSteps(backup, password) ==
    CreateSteps(backup.self) \o ContactSteps(ReadTable(ContactFields, backup.contacts))
    \o GroupSteps(ReadTable(GroupFields, backup.groups))
    \o StoreMedia(backup.media) \o StoreMedia(backup.groupMedia)
    \o StoreMessages(ReadFiles(MessageFields, backup.messages))
    \o StoreGroupMessages(ReadFiles(GroupMessageFields, backup.groupMessages))

(* BackupReader::run. *)
ImportSteps(backup, password) ==
    IF ~Opens(backup.identity, password) THEN Throw
    ELSE CreateSteps(backup.self) \o ContactSteps(ReadTable(ContactFields, backup.contacts))
         \o GroupSteps(ReadTable(GroupFields, backup.groups))
         \o StoreMessages(ReadFiles(MessageFields, backup.messages))
         \o StoreGroupMessages(ReadFiles(GroupMessageFields, backup.groupMessages))
         \o StoreMedia(backup.media) \o StoreMedia(backup.groupMedia)

=============================================================================
