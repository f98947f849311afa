------------------------------- MODULE MCRestore -------------------------------
(***************************************************************************)
(* Two folders, in one of which an old database may be, and two backups:   *)
(* a good one, whose texts hold commas, quotes and line breaks, and one    *)
(* whose second half cannot be used.                                       *)
(***************************************************************************)
EXTENDS Restore

CONSTANTS here, there

MCFolders == {here, there}
(* Tables that the others stand for: the code makes nine. *)
MCTables == <<"table_versions", "contacts", "media">>

MCPasswords == {"p", "r"}

(* What the phone holds.  Contacts and texts are sequences of letters. *)
Us   == [id |-> <<"u">>, key |-> <<"1">>, name |-> <<>>]
Anna == [id |-> <<"a">>, key |-> <<"2">>, name |-> <<"a", Quote, Comma>>]
Bert == [id |-> <<"b">>, key |-> <<"3">>, name |-> <<Quote>>]

Contacts == {Anna, Bert}

Team == [id |-> << <<"a">>, <<"g">> >>, name |-> <<"t", Break>>,
         members |-> {Us.id, Anna.id, Bert.id}, deleted |-> FALSE]

Sent == [uid |-> <<"1">>, of |-> Anna.id, outbox |-> TRUE, body |-> <<Quote, Break, Comma>>,
         state |-> <<"s">>, sent_at |-> <<"6">>, sort_by |-> <<"5">>]
Received == [uid |-> <<"2">>, of |-> Anna.id, outbox |-> FALSE, body |-> <<"x", Break, Quote>>,
             state |-> "READ", sent_at |-> <<"7">>, sort_by |-> <<"8">>]
Told == [uid |-> <<"3">>, of |-> Team.id, outbox |-> FALSE, body |-> <<>>,
         state |-> "DELIVERED", sent_at |-> <<"7">>, sort_by |-> <<"8">>, from |-> Anna.id]

(* The same as the tables of a backup. *)
Flag(b) == IF b THEN <<"1">> ELSE No

ContactTable(contacts) ==
    WrittenTable(<<"identity", "publickey", "nick_name">>,
                 SetToSeq({[identity |-> c.id, publickey |-> c.key, nick_name |-> c.name] : c \in contacts}))

GroupTable(groups) ==
    WrittenTable(<<"id", "creator", "groupname", "members", "deleted">>,
                 SetToSeq({[id |-> g.id[2], creator |-> g.id[1], groupname |-> g.name,
                            members |-> FoldLeft(LAMBDA t, m : t \o m \o <<Separator>>, <<>>,
                                                 SetToSeq(g.members)),
                            deleted |-> Flag(g.deleted)] : g \in groups}))

MessageColumns == <<"uid", "isoutbox", "isread", "messagestae", "posted_at", "created_at", "body">>

MessageRow(m) ==
    [uid |-> m.uid, isoutbox |-> Flag(m.outbox), isread |-> Flag(m.state = "READ"),
     messagestae |-> IF m.outbox THEN m.state ELSE <<>>,
     posted_at |-> IF m.outbox THEN m.sort_by ELSE m.sent_at,
     created_at |-> IF m.outbox THEN m.sent_at ELSE m.sort_by, body |-> m.body]

MessageTable(messages) == WrittenTable(MessageColumns, SetToSeq({MessageRow(m) : m \in messages}))

(* The phone leaves the sender out where it is the group's owner. *)
GroupMessageTable(messages) ==
    WrittenTable(<<"identity">> \o MessageColumns,
                 SetToSeq({MessageRow(m) @@ [identity |-> IF m.from = m.of[1] THEN <<>> ELSE m.from]
                             : m \in messages}))

Good ==
    [self |-> Us, password |-> "p", identity |-> ToBackupString(Us, "p"),
     contacts |-> ContactTable(Contacts), groups |-> GroupTable({Team}),
     messages |-> [c \in {Anna.id} |-> MessageTable({Sent, Received})],
     groupMessages |-> [g \in {Team.id} |-> GroupMessageTable({Told})],
     media |-> {"m"}, groupMedia |-> {"n"}]

(* The last row of a table is cut off. *)
Cut(table) == [table EXCEPT !.lines = Append(Front(@), Front(Last(@)))]

(* A backup without a contact who is in a group, and one whose group       *)
(* messages end in the middle of a row.                                    *)
Stranger == [Good EXCEPT !.contacts = ContactTable({Anna}),
                         !.messages = [c \in {} |-> 0], !.groupMessages = [g \in {} |-> 0]]
Short    == [Good EXCEPT !.groupMessages = [g \in {Team.id} |-> Cut(@[Team.id])]]

MCBackups == {"good", "stranger", "short"}
MCContent == [good |-> Good, stranger |-> Stranger, short |-> Short]

(* An old database of version 1, with its two files. *)
Old ==
    [Untouched EXCEPT
        !.exists = TRUE, !.password = "r", !.compatible = TRUE, !.tables = AllTables,
        !.versions = [t \in AllTables |-> 1], !.identity = ToBackupString(Us, "r"),
        !.contacts = {Us, Anna},
        !.media = {[uid |-> "m", key |-> 1], [uid |-> "n", key |-> 2]},
        !.files = {MediaFile("m", 1, FALSE), MediaFile("n", 2, FALSE)}]

MCOldFolders == {[f \in MCFolders |-> Untouched], [f \in MCFolders |-> IF f = here THEN Old ELSE Untouched]}

MCLegacySteps ==
    << <<"contact", [Bert EXCEPT !.name = <<"b">>]>>,
       <<"members", {Team}>>, <<"group", Team>> >>

-----------------------------------------------------------------------------
(* What a backup's texts become: the breaks are lost. *)
Read(m) == [m EXCEPT !.body = WithoutBreaks(@)]

HasAll(folder) ==
    /\ \A c \in Contacts : [c EXCEPT !.name = WithoutBreaks(@)] \in folder.contacts
    /\ [Team EXCEPT !.name = WithoutBreaks(@)] \in folder.groups
    /\ folder.messages = {Read(Sent), Read(Received)} /\ folder.groupMessages = {Read(Told)}
    /\ {r.uid : r \in folder.media} = {"m", "n"}

(* A database that the wizard has named as its result, so that its last    *)
(* page may be left and the result opened, can be opened and, after the    *)
(* import of a data backup, holds all contacts, groups, messages and media *)
(* of it: now and later, whatever is imported next, by the same wizard     *)
(* too, and wherever the program ends (LoadBackupWizardPageSaveDatabase-   *)
(* InProgress.cpp, BackupReader.cpp).                                      *)
OfferedDatabasesAreComplete ==
    \A p \in promised :
        /\ Whole(disk[p.folder])
        /\ p.whole => p.backup = "good" /\ HasAll(disk[p.folder])

TypeOK ==
    /\ DOMAIN disk = Folders /\ remembered \in Folders \cup {None}
    /\ mishaps \in 0..MaxMishaps
    /\ app.up => (app.gui.at = "busy" <=> app.work # None)
    /\ app.reports # <<>> => app.wizard # None
    /\ ~app.up => app = Ended

(* The database that is open is whole: no table, identity or contact is    *)
(* missing and every media file is found under its name and with its key,  *)
(* also after an import or an upgrade that did not come to its end         *)
(* (SimpleDatabase.cpp, ExternalMediaFileStorage.cpp).                     *)
OpenedDatabasesAreWhole ==
    /\ TypeOK
    /\ app.opened # None => Whole(disk[app.opened])

(* An import whose page is still shown ends in a report on that page, when *)
(* a step of it throws just as when none does (BackupReader.cpp:194-197,   *)
(* LoadBackupWizardPageSaveDatabaseInProgress::onFinished).                *)
ImportsAreReported ==
    (app.reader # None /\ app.reader.connected)
        ~> (app.wizard = None \/ app.wizard.complete \/ "progress" \notin ToSet(app.wizard.pages))

=============================================================================
