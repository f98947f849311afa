------------------------------ MODULE Overview ------------------------------
(***************************************************************************)
(* The client window over the message databases it opens one after the     *)
(* other: the contact and group lists, the open tabs with the data behind  *)
(* them, the cached options, and the background requests whose answers are *)
(* written to the database.                                                *)
(*                                                                         *)
(* Two threads act.  The window's thread handles one event at a time from  *)
(* its queue, events.  The database thread carries out the calls posted to *)
(* it, calls, in order; a call whose result the window needs blocks the    *)
(* window until all earlier calls are done, so a step of the window that   *)
(* reads the database waits for calls to be empty.  What the message       *)
(* centre's thread and the servers do arrives as calls and as events.      *)
(*                                                                         *)
(* Opening a database makes a new database object, numbered by its place   *)
(* in opened, even when the same file is opened again.  The database       *)
(* thread's worker holds the last object, the pointer authority the one    *)
(* the program uses, and the wrapper of the window only knows, through a   *)
(* weak pointer, the object it was last told of: between the moment the    *)
(* authority lets go of the old object and the wrapper's event, the window *)
(* has no database.  All wrappers of the window's thread are told in       *)
(* consecutive events, which are one event here.                           *)
(*                                                                         *)
(* An exception that leaves an event handler, in either thread, makes the  *)
(* application quit; so does a call that throws in the database thread.    *)
(*                                                                         *)
(* Bounds: Clicks actions of the user, Messages calls of the message       *)
(* centre, Openings opened objects.  A run lasts less than a day.  The     *)
(* user opens no database while another is being opened.                   *)
(***************************************************************************)
EXTENDS ContactTables

CONSTANTS
  Databases,        \* the database files
  Stored,           \* what they hold at the start
  GroupIds,         \* the groups
  OwnerOf,          \* the identity that founded a group
  KeyOf,            \* the public key of an identity
  Names,            \* the names a user gives to contacts and groups
  LegacyContacts,   \* the contacts of a legacy file
  LegacyGroups,     \* the groups of a legacy file
  Today,            \* the day of the run
  CheckAge,         \* after how many days contacts are checked again
  ServerAge,        \* after how many days the server group is outdated
  LatestLevel,      \* the feature level of this program
  Clicks, Messages, Openings,   \* bounds
  None

ASSUME OverviewAssumption ==
  /\ \A d \in Databases : Stored[d].self \in DOMAIN Stored[d].contacts
  /\ None \notin Databases

VARIABLES
  tables,      \* the contents of each database file
  opened,      \* the file behind each database object, in the order of opening
  authority,   \* the object the pointer authority holds, 0 for none
  wrapper,     \* the object the window's wrapper was last told of, 0 for none
  calls,       \* calls posted to database objects, in order
  events,      \* events queued for the window's thread, in order
  opening,     \* how far openDatabaseFile has got, and with which file
  remembered,  \* the file to open at the next start
  shown,       \* the contact and the group list
  tabs,        \* the contacts and groups with an open tab
  backed,      \* the backed contacts and groups of the pool: what they last
               \* read, and from which object
  cache,       \* the option reader's copy of the options
  lookup,      \* the contact whose key is being fetched to add it, and its name
  tasks,       \* the background requests under way, equal ones only once
  link,        \* whether a protocol client is off, connecting or on
  app,         \* running, or quit
  left         \* the clicks and messages the bounds leave

databaseVars == <<tables, opened, authority, calls>>
windowVars == <<wrapper, shown, tabs, backed, cache>>
openingVars == <<opening, remembered>>
requestVars == <<lookup, tasks, link>>
vars == <<databaseVars, windowVars, events, openingVars, requestVars, app, left>>

Nothing == <<>>
NoLists == [contacts |-> Nothing, groups |-> Nothing]
Idle == [phase |-> "idle", of |-> None, atStart |-> FALSE]

\* An event without an argument.
Plain(kind) == [kind |-> kind, who |-> None]

-----------------------------------------------------------------------------
(* The database the window sees *)

\* Whether the wrapper's weak pointer still leads to an object.
HasDatabase == wrapper # 0 /\ wrapper = authority

Db == tables[opened[wrapper]]

\* A call for a result returns once the earlier calls have been carried out.
Answered == calls = <<>>

\* The lists as contactRegistryOnIdentitiesChanged fills them.
Lists(db) ==
  [contacts |-> [c \in DOMAIN db.contacts \ {db.self} |->
                   [name |-> ContactData(db, c).name, status |-> ContactData(db, c).status]],
   groups |-> [g \in DOMAIN GroupDataAll(db) |-> GroupDataAll(db)[g].title]]

ListsNow == IF HasDatabase THEN Lists(Db) ELSE NoLists

\* The data a backed contact or group reads, and when the read succeeds.
Data(db, w) == IF w \in GroupIds THEN GroupData(db, w) ELSE ContactData(db, w)

Readable(db, w) ==
  IF w \in GroupIds
  THEN w \in DOMAIN db.groups /\ MembersAreKnown(db, db.groups[w].members)
  ELSE HasContact(db, w)

Entry(w) == [data |-> Data(Db, w), from |-> wrapper]

\* The backed object of the pool, made if there is none; one made for an
\* earlier database is handed out as it is.
Pool(w) == IF w \in DOMAIN backed THEN backed ELSE With(backed, w, Entry(w))

\* The background requests, each with the identity or the contacts it is about.
Request(kind, of, about) == [kind |-> kind, of |-> of, about |-> about]

CheckFeatureLevel(contacts) == Request("checkFeatureLevel", None, contacts)
CheckContactActivityStatus(contacts) == Request("checkStatus", None, contacts)
SetFeatureLevel(identity) == Request("setFeatureLevel", identity, {})
FetchPrivateInformation(identity) == Request("fetchPrivateInformation", identity, {})

\* An option can be read from the cache; reading one that is not there is an
\* exception.
OptionsAreCached == OptionNames \subseteq DOMAIN cache

\* The exception handler of the application.
Quit == app' = "quit" /\ UNCHANGED <<databaseVars, windowVars, events, openingVars, requestVars, left>>

-----------------------------------------------------------------------------
(* The database thread *)

\* What a posted call does to the tables of its database.
Effect(db, call) ==
  CASE call.op = "storeNewContact" -> AddContacts(db, call.list)
    [] call.op = "setContactNickName" -> SetNickname(db, call.who, call.name)
    [] call.op = "setContactAccountStatusBatch" -> SetStatusBatch(db, call.results, Today)
    [] call.op = "setContactFeatureLevelBatch" -> SetLevelBatch(db, call.results, Today)
    [] call.op = "setOptions" -> SetOptions(db, call.values)
    [] call.op = "setServerGroup" -> SetServerGroup(db, call.of, Today)
    [] call.op = "storeReceivedGroupSetTitle" -> SetTitle(db, call.who, call.name)
    [] call.op = "storeReceivedGroupLeave" ->
         SetMembers(db, call.who, db.groups[call.who].members \ {call.member})
    [] call.op = "storeReceivedMessage" ->
         Done(db, <<[kind |-> "hasNewMessage", who |-> call.who],
                    [kind |-> "receivedNewMessage", who |-> call.who]>>)

\* The wrapper passes on the signals of the object it is connected to.
Relayed(object, said) == IF object = wrapper THEN events \o said ELSE events

DatabaseStep ==
  /\ app = "running" /\ calls # <<>>
  /\ LET call == Head(calls)
         d == opened[call.on]
         outcome == Effect(tables[d], call) IN
     /\ tables' = [tables EXCEPT ![d] = outcome.db]
     /\ calls' = Tail(calls)
     /\ events' = Relayed(call.on, outcome.said)
     /\ app' = IF outcome.ok THEN app ELSE "quit"
  /\ UNCHANGED <<opened, authority, windowVars, openingVars, requestVars, left>>

\* A call through the wrapper, not waited for.
Post(list) == calls' = calls \o [i \in DOMAIN list |-> list[i] @@ [on |-> wrapper]]

-----------------------------------------------------------------------------
(* Events of the window's thread *)

\* The object the window is told of; the lists are filled from it at once, the
\* option reader learns of it in an event of its own.
OnNewDatabase ==
  /\ Answered
  /\ wrapper' = authority
  /\ shown' = Lists(tables[opened[authority]])
  /\ events' = Append(Tail(events), Plain("gotDatabase"))
  /\ UNCHANGED <<databaseVars, tabs, backed, cache, openingVars, requestVars, app, left>>

\* The backed objects that read their data again on an event.  A group does
\* so for its founder and for its members.
Concerned(e) ==
  {w \in DOMAIN backed :
     \/ e.who = w
     \/ /\ e.kind = "contactChanged" /\ w \in GroupIds
        /\ e.who = OwnerOf[w] \/ e.who \in backed[w].data.members}

\* The lists are rebuilt on every change of a contact or a group, and the
\* backed objects concerned read again.  To read without a database, or what
\* the database does not hold, is an exception.
OnChanged(e) ==
  /\ e.kind \in {"contactChanged", "groupChanged", "hasNewMessage"}
  /\ HasDatabase => Answered
  /\ IF \A w \in Concerned(e) : HasDatabase /\ Readable(Db, w)
     THEN /\ shown' = IF e.kind = "hasNewMessage" THEN shown ELSE ListsNow
          /\ backed' = [w \in DOMAIN backed |-> IF w \in Concerned(e) THEN Entry(w) ELSE backed[w]]
          /\ events' = Tail(events)
          /\ UNCHANGED <<databaseVars, wrapper, tabs, cache, openingVars, requestVars, app, left>>
     ELSE Quit

\* A received message opens the tab it belongs to and asks the options how to
\* draw attention.  An option that is not in the cache is an exception.
OnReceived(e) ==
  /\ e.kind = "receivedNewMessage"
  /\ IF ~HasDatabase
     THEN events' = Tail(events) /\ UNCHANGED <<databaseVars, windowVars, openingVars, requestVars, app, left>>
     ELSE /\ Answered
          /\ IF OptionsAreCached /\ Readable(Db, e.who)
             THEN /\ backed' = Pool(e.who)
                  /\ tabs' = tabs \cup {e.who}
                  /\ events' = Tail(events)
                  /\ UNCHANGED <<databaseVars, wrapper, shown, cache, openingVars, requestVars, app, left>>
             ELSE Quit

\* The wrapper hands the change of the options on in a further event.
OnOptionsChanged ==
  /\ events' = Append(Tail(events), Plain("refreshOptions"))
  /\ UNCHANGED <<databaseVars, windowVars, openingVars, requestVars, app, left>>

\* ensureOptionsExist
EnsureOptionsExist ==
  IF HasDatabase /\ MissingOptions(Db.options) # Nothing
  THEN Post(<<[op |-> "setOptions", values |-> MissingOptions(Db.options)]>>)
  ELSE UNCHANGED calls

\* The option reader reads all options again, and after a change of the
\* database adds those the database lacks.
OnOptions(e) ==
  /\ e.kind \in {"refreshOptions", "gotDatabase"}
  /\ HasDatabase => Answered
  /\ cache' = IF HasDatabase THEN Db.options ELSE Nothing
  /\ IF e.kind = "gotDatabase" THEN EnsureOptionsExist ELSE UNCHANGED calls
  /\ events' = Tail(events)
  /\ UNCHANGED <<tables, opened, authority, wrapper, shown, tabs, backed, openingVars, requestVars,
                 app, left>>

\* checkServerGroupInformationForId: asks the server if need be.
ServerGroupRequest ==
  IF ServerGroupIsKnown(Db, ServerAge, Today) THEN {} ELSE {FetchPrivateInformation(Db.self)}

\* The checks that start once the server connection stands.
Checks ==
  {t \in {CheckContactActivityStatus(ContactsToCheck(Db, "statusAt", CheckAge, Today)),
          CheckFeatureLevel(ContactsToCheck(Db, "levelAt", CheckAge, Today))} : t.about # {}}

OnConnected ==
  IF HasDatabase
  THEN /\ Answered
       /\ tasks' = tasks \cup Checks
       /\ events' = Tail(events)
       /\ UNCHANGED <<databaseVars, windowVars, openingVars, lookup, link, app, left>>
  ELSE Quit

\* callbackTaskFinished: the results are written to the database that is open
\* now; the own feature level is raised if it is behind.
OnTaskFinished(e) ==
  /\ events' = Tail(events)
  /\ HasDatabase => Answered
  /\ IF ~e.ok \/ ~HasDatabase
     THEN UNCHANGED <<calls, tasks>>
     ELSE CASE e.task.kind = "checkFeatureLevel" ->
                 /\ Post(<<[op |-> "setContactFeatureLevelBatch", results |-> e.results]>>)
                 /\ tasks' = IF Db.self \in DOMAIN e.results /\ e.results[Db.self] < LatestLevel
                             THEN tasks \cup {SetFeatureLevel(Db.self)}
                             ELSE tasks
            [] e.task.kind = "checkStatus" ->
                 /\ Post(<<[op |-> "setContactAccountStatusBatch", results |-> e.results]>>)
                 /\ UNCHANGED tasks
            [] e.task.kind = "fetchPrivateInformation" ->
                 /\ Post(<<[op |-> "setServerGroup", of |-> e.task.of]>>)
                 /\ UNCHANGED tasks
            [] e.task.kind = "setFeatureLevel" -> UNCHANGED <<calls, tasks>>
  /\ UNCHANGED <<tables, opened, authority, windowVars, openingVars, lookup, link, app, left>>

HandleEvent ==
  /\ app = "running" /\ opening.phase # "switching" /\ events # <<>>
  /\ LET e == Head(events) IN
     \/ e.kind = "newDatabase" /\ OnNewDatabase
     \/ OnChanged(e)
     \/ OnReceived(e)
     \/ e.kind = "optionsChanged" /\ OnOptionsChanged
     \/ OnOptions(e)
     \/ e.kind = "connected" /\ OnConnected
     \/ e.kind = "taskFinished" /\ OnTaskFinished(e)

-----------------------------------------------------------------------------
(* Opening a database *)

\* The right password: the database thread opens the file, after the calls
\* posted before, and its worker lets go of the object it had.
EnterPassword ==
  /\ app = "running" /\ opening.phase = "asking"
  /\ Len(opened) < Openings
  /\ Answered
  /\ opened' = Append(opened, opening.of)
  /\ opening' = [opening EXCEPT !.phase = "switching"]
  /\ UNCHANGED <<tables, authority, calls, windowVars, events, remembered, requestVars, app, left>>

\* The user cancels, or the file cannot be opened and the user may want it
\* forgotten.  A wrong password is asked for again and changes nothing.
GiveUp ==
  /\ app = "running" /\ opening.phase = "asking"
  /\ opening' = Idle
  /\ remembered' \in {remembered, None}
  /\ UNCHANGED <<databaseVars, windowVars, events, requestVars, app, left>>

\* Mutated form of SwitchDatabase: the wrappers are not told.
MutantSwitchDatabase ==
  /\ app = "running" /\ opening.phase = "switching"
  /\ remembered' = opening.of
  /\ authority' = Len(opened)
  /\ calls' = SelectSeq(calls, LAMBDA call : call.on = Len(opened))
  /\ opening' = [opening EXCEPT !.phase = "waiting"]
  /\ UNCHANGED <<tables, opened, windowVars, events, requestVars, app, left>>

\* The authority takes the new object.  The old one is destroyed, and with it
\* the calls posted to it that the database thread has not come to.
SwitchDatabase ==
  /\ app = "running" /\ opening.phase = "switching"
  /\ remembered' = opening.of
  /\ authority' = Len(opened)
  /\ calls' = SelectSeq(calls, LAMBDA call : call.on = Len(opened))
  /\ events' = Append(events, Plain("newDatabase"))
  /\ opening' = [opening EXCEPT !.phase = "waiting"]
  /\ UNCHANGED <<tables, opened, windowVars, requestVars, app, left>>

\* The loop that handles events until the wrapper has a database has ended.
\* At the start of the program the options are read at once, otherwise only
\* when the option reader hears of the database.
FinishOpening ==
  /\ app = "running" /\ opening.phase = "waiting" /\ HasDatabase
  /\ Answered
  /\ shown' = Lists(Db)
  /\ tasks' = tasks \cup ServerGroupRequest
  /\ IF opening.atStart
     THEN cache' = Db.options /\ EnsureOptionsExist
     ELSE UNCHANGED <<cache, calls>>
  /\ opening' = Idle
  /\ UNCHANGED <<tables, opened, authority, wrapper, tabs, backed, events, remembered, lookup, link,
                 app, left>>

-----------------------------------------------------------------------------
(* The user *)

Acts ==
  /\ app = "running" /\ opening.phase \in {"idle", "waiting"}
  /\ left.clicks > 0
  /\ left' = [left EXCEPT !.clicks = @ - 1]

\* btnOpenDatabaseOnClick
OpenDatabase(d) ==
  /\ Acts /\ opening.phase = "idle" /\ Len(opened) < Openings
  /\ opening' = [phase |-> "asking", of |-> d, atStart |-> FALSE]
  /\ UNCHANGED <<databaseVars, windowVars, events, remembered, requestVars, app>>

\* btnConnectOnClick, without a client: connects, or asks for the server group.
Connect ==
  /\ Acts /\ link = "off" /\ HasDatabase /\ Answered
  /\ tasks' = tasks \cup ServerGroupRequest
  /\ link' = IF ServerGroupRequest = {} THEN "connecting" ELSE link
  /\ UNCHANGED <<databaseVars, windowVars, events, openingVars, lookup, app>>

\* menuContactAddOnClick, for a contact that is not known.
AddContactByIdentity(c, name) ==
  /\ Acts /\ HasDatabase /\ Answered /\ lookup = Nothing
  /\ ~HasContact(Db, c)
  /\ lookup' = <<c, name>>
  /\ UNCHANGED <<databaseVars, windowVars, events, openingVars, tasks, link, app>>

\* listContactsOnContextMenu, the entry to edit the contact.
EditContact(c, name) ==
  /\ Acts /\ HasDatabase /\ Answered
  /\ c \in DOMAIN shown.contacts
  /\ name # ContactData(Db, c).name
  /\ Post(<<[op |-> "setContactNickName", who |-> c, name |-> name]>>)
  /\ UNCHANGED <<tables, opened, authority, windowVars, events, openingVars, requestVars, app>>

\* A double click on an entry of the lists, or the entry of its menu.
OpenTab(w) ==
  /\ Acts /\ HasDatabase /\ Answered
  /\ w \in DOMAIN shown.contacts \cup DOMAIN shown.groups
  /\ w \notin tabs
  /\ backed' = Pool(w)
  /\ tabs' = tabs \cup {w}
  /\ UNCHANGED <<databaseVars, wrapper, shown, cache, events, openingVars, requestVars, app>>

\* The tab is closed; its backed object stays in the pool.
CloseTab(w) ==
  /\ Acts /\ w \in tabs
  /\ tabs' = tabs \ {w}
  /\ UNCHANGED <<databaseVars, wrapper, shown, backed, cache, events, openingVars, requestVars, app>>

\* menuFileOptionsOnClick: the dialog reads every option from the cache.  When
\* it is accepted it sets them one by one, changed or not: each is posted, and
\* all options are read back.
SetAllOptions(values) ==
  /\ Acts /\ HasDatabase /\ Answered
  /\ IF OptionsAreCached
     THEN LET outcome == SetOptions(Db, values) IN
          /\ tables' = [tables EXCEPT ![opened[wrapper]] = outcome.db]
          /\ events' = Relayed(wrapper, [i \in 1 .. Cardinality(OptionNames) |-> outcome.said[1]])
          /\ cache' = outcome.db.options
          /\ UNCHANGED app
     ELSE app' = "quit" /\ UNCHANGED <<tables, events, cache>>
  /\ UNCHANGED <<opened, authority, calls, wrapper, shown, tabs, backed, openingVars, requestVars>>

\* menuDatabaseImportLegacyContactsAndGroupsOnClick: two posted calls, carried
\* out before the lists are read again.
ImportLegacyFile ==
  /\ Acts /\ HasDatabase /\ Answered
  /\ LET contacts == AddContacts(Db, LegacyContacts)
         groups == AddGroups(contacts.db, LegacyGroups) IN
     IF contacts.ok /\ groups.ok
     THEN /\ tables' = [tables EXCEPT ![opened[wrapper]] = groups.db]
          /\ events' = Relayed(wrapper, contacts.said \o groups.said)
          /\ shown' = Lists(groups.db)
          /\ UNCHANGED app
     ELSE app' = "quit" /\ UNCHANGED <<tables, events, shown>>
  /\ UNCHANGED <<opened, authority, calls, wrapper, tabs, backed, cache, openingVars, requestVars>>

UserStep ==
  \/ \E d \in Databases : OpenDatabase(d)
  \/ Connect
  \/ \E c \in DOMAIN KeyOf, name \in Names \cup {<<>>} : AddContactByIdentity(c, name)
  \/ \E c \in DOMAIN shown.contacts, name \in Names : EditContact(c, name)
  \/ \E w \in DOMAIN shown.contacts \cup DOMAIN shown.groups : OpenTab(w)
  \/ \E w \in tabs : CloseTab(w)
  \/ \E values \in [OptionNames -> {0, 1}] : SetAllOptions(values)
  \/ ImportLegacyFile

-----------------------------------------------------------------------------
(* The servers and the message centre *)

\* The key of the contact to be added has been fetched, or not.  The window
\* waits for it in an event loop of its own, which ends after an opening that
\* was started inside it.
LookupEnds(ok) ==
  /\ app = "running" /\ opening.phase = "idle" /\ lookup # Nothing
  /\ LET c == lookup[1]
         name == lookup[2]
         store == <<[op |-> "storeNewContact", list |-> <<NewContact(c, KeyOf[c], <<>>)>>]>>
         rename == <<[op |-> "setContactNickName", who |-> c, name |-> name]>> IN
     IF ok THEN Post(IF name = <<>> THEN store ELSE store \o rename) ELSE UNCHANGED calls
  /\ lookup' = Nothing
  /\ UNCHANGED <<tables, opened, authority, windowVars, events, openingVars, tasks, link, app, left>>

\* What the server may say of a contact, by the kind of the request.
FeatureLevels == {LatestLevel - 1, LatestLevel}
AccountStates == {"inactive"}

Answers(t) ==
  CASE t.kind = "checkFeatureLevel" -> FeatureLevels
    [] t.kind = "checkStatus" -> AccountStates
    [] OTHER -> {None}

\* A background request is answered: for every contact asked for, or not at all.
TaskEnds(t, ok, result) ==
  /\ app = "running"
  /\ tasks' = tasks \ {t}
  /\ events' = Append(events, [kind |-> "taskFinished", who |-> None, task |-> t, ok |-> ok,
                               results |-> [c \in t.about |-> result]])
  /\ UNCHANGED <<databaseVars, windowVars, openingVars, lookup, link, app, left>>

\* The protocol client has logged in.
LoggedIn ==
  /\ app = "running" /\ link = "connecting"
  /\ link' = "on"
  /\ events' = Append(events, Plain("connected"))
  /\ UNCHANGED <<databaseVars, windowVars, openingVars, lookup, tasks, app, left>>

\* The message centre stores what the protocol client receives in the database
\* the authority holds, after asking it whether it knows sender and group.
MessageCenterStores(call) ==
  /\ app = "running" /\ link = "on" /\ Answered
  /\ left.messages > 0
  /\ left' = [left EXCEPT !.messages = @ - 1]
  /\ calls' = Append(calls, call @@ [on |-> authority])
  /\ UNCHANGED <<tables, opened, authority, windowVars, events, openingVars, requestVars, app>>

Received ==
  LET db == tables[opened[authority]]
      groups == {g \in GroupIds : HasGroup(db, g)} IN
  \/ \E w \in (DOMAIN db.contacts \ {db.self}) \cup groups :
       MessageCenterStores([op |-> "storeReceivedMessage", who |-> w])
  \/ \E g \in groups, title \in Names :
       MessageCenterStores([op |-> "storeReceivedGroupSetTitle", who |-> g, name |-> title])
  \/ \E g \in groups : \E c \in db.groups[g].members \ {db.self, OwnerOf[g]} :
       MessageCenterStores([op |-> "storeReceivedGroupLeave", who |-> g, member |-> c])

ServerStep ==
  \/ \E ok \in BOOLEAN : LookupEnds(ok)
  \/ \E t \in tasks, ok \in BOOLEAN : \E result \in Answers(t) : TaskEnds(t, ok, result)
  \/ LoggedIn
  \/ authority # 0 /\ Received

-----------------------------------------------------------------------------
Init ==
  /\ tables = Stored
  /\ opened = <<>>
  /\ authority = 0 /\ wrapper = 0
  /\ calls = <<>> /\ events = <<>>
  /\ remembered \in Databases \cup {None}
  /\ opening = IF remembered = None THEN Idle
               ELSE [phase |-> "asking", of |-> remembered, atStart |-> TRUE]
  /\ shown = NoLists /\ tabs = {} /\ backed = Nothing /\ cache = Nothing
  /\ lookup = Nothing /\ tasks = {} /\ link = "off"
  /\ app = "running"
  /\ left = [clicks |-> Clicks, messages |-> Messages]

OpeningStep == EnterPassword \/ GiveUp \/ SwitchDatabase \/ FinishOpening

Next == DatabaseStep \/ HandleEvent \/ OpeningStep \/ UserStep \/ ServerStep

\* Both threads come round to what is queued for them, and openDatabaseFile
\* goes on when it can.
Fairness ==
  /\ WF_vars(DatabaseStep) /\ WF_vars(HandleEvent)
  /\ WF_vars(SwitchDatabase) /\ WF_vars(FinishOpening)

Spec == Init /\ [][Next]_vars /\ Fairness

-----------------------------------------------------------------------------
(* Properties *)

\* Nothing is under way between the database and the window.
AtRest ==
  /\ app = "running" /\ opening.phase = "idle" /\ wrapper # 0
  /\ calls = <<>> /\ events = <<>>

\* What a backed object holds, except what nobody is told of: the results of
\* the daily checks are announced for the own contact only.
Lasting(w, data) ==
  IF w \in GroupIds THEN data ELSE [name |-> data.name, key |-> data.key]

\* Once all announced changes have been handled, the lists, the option cache
\* and every backed contact and group that was read from the open database
\* say what its tables say, whatever databases, tabs, checks, imports and
\* messages came before.
SettledWindowShowsTheDatabase ==
  AtRest =>
    /\ shown = Lists(Db)
    /\ cache = Db.options /\ OptionsAreCached
    /\ \A w \in DOMAIN backed : backed[w].from = wrapper =>
         Lasting(w, backed[w].data) = Lasting(w, Data(Db, w))

\* Opening a database comes to an end: the loop that waits for the wrapper to
\* hear of the new database is left, unless the application quits.
OpeningEnds ==
  opening.phase \in {"switching", "waiting"} ~> (opening.phase = "idle" \/ app = "quit")
=============================================================================
