--------------------------- MODULE ContactTables ---------------------------
(***************************************************************************)
(* The contacts, the groups, the settings and the server group of one      *)
(* message database, and what each call on them reads, changes and         *)
(* announces (DatabaseContactAndGroupDataProvider and the parts of         *)
(* SimpleDatabase that pass on to it).                                     *)
(*                                                                         *)
(* A database is a record:                                                 *)
(*   self      the identity the database belongs to                        *)
(*   contacts  a function from the identities with a row to their rows     *)
(*   groups    a function from the groups with a row to their rows; a      *)
(*             group that was left or dissolved keeps its row, marked      *)
(*   options   a function from the names of the stored options to their    *)
(*             values                                                      *)
(*   server    the server group that was last fetched, and when            *)
(*                                                                         *)
(* A name is a sequence of words, the empty sequence is the empty string.  *)
(* The columns nobody reads back here (the colour, the verification, the   *)
(* avatar, the time of creation) are left out.  Times are days.            *)
(*                                                                         *)
(* A changing call yields the database it leaves behind, the signals it    *)
(* emitted, in order, and whether it came to its end: an exception leaves  *)
(* what was written and announced before it.                               *)
(***************************************************************************)
EXTENDS Integers, Sequences, FiniteSets, SequencesExt

CONSTANTS
  OptionNames,      \* the options that are stored in the database
  DefaultOption     \* the value an option is registered with

Never == -1         \* the time of something that has not happened

UnknownStatus == "unknown"
UnknownLevel == 0

NeverFetched == [of |-> "nobody", at |-> Never]

\* Replaces or adds one entry of a function.
With(f, x, value) == [y \in DOMAIN f \cup {x} |-> IF y = x THEN value ELSE f[y]]

Done(db, said) == [db |-> db, said |-> said, ok |-> TRUE]
Thrown(db, said) == [db |-> db, said |-> said, ok |-> FALSE]

ContactChanged(c) == [kind |-> "contactChanged", who |-> c]
GroupChanged(g) == [kind |-> "groupChanged", who |-> g]

-----------------------------------------------------------------------------
(* Reading *)

HasContact(db, c) == c \in DOMAIN db.contacts

\* UNKNOWN, DELETED, TEMPORARY or KNOWN.
GroupStatus(db, g) ==
  CASE g \notin DOMAIN db.groups -> "unknown"
    [] g \in DOMAIN db.groups /\ db.groups[g].deleted -> "deleted"
    [] g \in DOMAIN db.groups /\ ~db.groups[g].deleted /\ db.groups[g].awaiting -> "temporary"
    [] OTHER -> "known"

HasGroup(db, g) == g \in DOMAIN db.groups /\ ~db.groups[g].deleted

\* The name a contact goes by: the nickname, else what there is of first and
\* last name, else the identity.
Nickname(nick, first, last, c) ==
  CASE nick # <<>> -> nick
    [] nick = <<>> /\ first \o last # <<>> -> first \o last
    [] OTHER -> <<c>>

\* What the window gets to know about a contact; only of one with a row.
ContactData(db, c) ==
  LET row == db.contacts[c] IN
  [name |-> Nickname(row.nick, row.first, row.last, c), status |-> row.status,
   level |-> row.level, key |-> row.key]

ContactDataAll(db) == [c \in DOMAIN db.contacts |-> ContactData(db, c)]

\* The description of a group names its members, who go by last name here:
\* the last name is handed over where the nickname belongs.
MemberNames(db, members) ==
  [c \in members |-> Nickname(db.contacts[c].last, db.contacts[c].first, db.contacts[c].last, c)]

\* Whether the names of all members can be found; the query throws otherwise.
MembersAreKnown(db, members) == members \subseteq DOMAIN db.contacts

GroupData(db, g) ==
  LET row == db.groups[g] IN
  [title |-> row.title, members |-> row.members, description |-> MemberNames(db, row.members)]

\* Without descriptions, and with the groups marked as deleted.
GroupDataAll(db) ==
  [g \in DOMAIN db.groups |-> [title |-> db.groups[g].title, members |-> db.groups[g].members]]

\* The contacts whose status, or whose feature level, was last asked for at
\* least `age` days before `now`; -1 stands for never.
ContactsToCheck(db, checked, age, now) ==
  {c \in DOMAIN db.contacts : db.contacts[c][checked] <= now - age}

\* isServerGroupKnownAndNotOutdated
ServerGroupIsKnown(db, age, now) ==
  /\ db.server # NeverFetched
  /\ now - db.server.at <= age

-----------------------------------------------------------------------------
(* Contacts *)

\* A contact as a lookup or an import brings it in.
NewContact(c, key, nick) == [id |-> c, key |-> key, nick |-> nick, first |-> <<>>, last |-> <<>>]

\* The row of a contact that was not known before: neither status nor feature
\* level has been asked for.
FreshRow(new) ==
  [key |-> new.key, nick |-> new.nick, first |-> new.first, last |-> new.last,
   status |-> UnknownStatus, statusAt |-> Never, level |-> UnknownLevel, levelAt |-> Never]

\* One entry of addContact: a known contact keeps its key, which must be the
\* same, its status and its level, and takes over the new names.
AddContact(db, new) ==
  IF HasContact(db, new.id)
  THEN LET row == db.contacts[new.id] IN
       IF row.key # new.key
       THEN Thrown(db, <<>>)
       ELSE Done([db EXCEPT !.contacts = With(@, new.id,
                    [row EXCEPT !.nick = new.nick, !.first = new.first, !.last = new.last])],
                 <<ContactChanged(new.id)>>)
  ELSE Done([db EXCEPT !.contacts = With(@, new.id, FreshRow(new))], <<ContactChanged(new.id)>>)

\* Goes on with the next entry unless one of the earlier ones threw.
Then(outcome, Add(_, _), new) ==
  IF ~outcome.ok THEN outcome
  ELSE LET next == Add(outcome.db, new) IN [next EXCEPT !.said = outcome.said \o @]

\* The entries are stored one by one, outside of any transaction.
AddContacts(db, list) ==
  FoldLeft(LAMBDA outcome, new : Then(outcome, AddContact, new), Done(db, <<>>), list)

\* Mutated form of SetContact: the change is not announced.
MutantSetContact(db, c, fields) ==
  IF HasContact(db, c)
  THEN Done([db EXCEPT !.contacts = With(@, c, fields @@ @[c])], <<>>)
  ELSE Done(db, <<>>)

\* setFields on one contact: an update that finds no row changes nothing and
\* is announced all the same.
SetContact(db, c, fields) ==
  IF HasContact(db, c)
  THEN Done([db EXCEPT !.contacts = With(@, c, fields @@ @[c])], <<ContactChanged(c)>>)
  ELSE Done(db, <<ContactChanged(c)>>)

\* setContactNickName
SetNickname(db, c, nick) ==
  IF HasContact(db, c) THEN SetContact(db, c, [nick |-> nick]) ELSE Thrown(db, <<>>)

\* The results of a check, the new fields of each contact that was asked for,
\* are written in one transaction and only a change of the own contact is
\* announced, whichever contacts were written.
SetBatch(db, results) ==
  Done([db EXCEPT !.contacts =
          [c \in DOMAIN @ |-> IF c \in DOMAIN results THEN results[c] @@ @[c] ELSE @[c]]],
       <<ContactChanged(db.self)>>)

SetStatusBatch(db, results, now) ==
  SetBatch(db, [c \in DOMAIN results |-> [status |-> results[c], statusAt |-> now]])

SetLevelBatch(db, results, now) ==
  SetBatch(db, [c \in DOMAIN results |-> [level |-> results[c], levelAt |-> now]])

-----------------------------------------------------------------------------
(* Groups *)

\* One entry of addGroup: a group without us in it is stored as deleted.
AddGroup(db, new) ==
  Done([db EXCEPT !.groups = With(@, new.id,
          [title |-> new.title, members |-> new.members, awaiting |-> new.awaiting,
           deleted |-> ~(db.self \in new.members)])],
       <<GroupChanged(new.id)>>)

\* storeNewGroup: all members of all groups must have a row before the first
\* group is written.
AddGroups(db, list) ==
  IF \E i \in DOMAIN list : ~MembersAreKnown(db, list[i].members)
  THEN Thrown(db, <<>>)
  ELSE FoldLeft(LAMBDA outcome, new : Then(outcome, AddGroup, new), Done(db, <<>>), list)

\* setGroupTitle
SetTitle(db, g, title) ==
  IF HasGroup(db, g)
  THEN Done([db EXCEPT !.groups[g].title = title], <<GroupChanged(g)>>)
  ELSE Thrown(db, <<>>)

\* setGroupMembers: a group we are no member of any more is marked as deleted,
\* one we are taken into again loses the mark.  It is announced twice, once
\* for the fields and once for the members.
SetMembers(db, g, members) ==
  Done(IF g \in DOMAIN db.groups
       THEN [db EXCEPT !.groups[g].members = members,
                       !.groups[g].deleted = db.self \notin members]
       ELSE db,
       <<GroupChanged(g), GroupChanged(g)>>)

-----------------------------------------------------------------------------
(* Options and the server group *)

\* setOptions
SetOptions(db, values) ==
  Done([db EXCEPT !.options = values @@ @], <<[kind |-> "optionsChanged", who |-> db.self]>>)

\* What ensureOptionsExist adds to the options that were found.
MissingOptions(found) == [name \in OptionNames \ DOMAIN found |-> DefaultOption]

\* setServerGroup
SetServerGroup(db, identity, now) == Done([db EXCEPT !.server = [of |-> identity, at |-> now]], <<>>)
=============================================================================
