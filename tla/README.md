# openMittsu in TLA+

openMittsu is a desktop messenger (C++/Qt).  This directory specifies how it
keeps its promises about messages, connections, contacts and stored data: models
of its threads, tables and formats, model checked with TLC on small instances,
and theorems proved with TLAPS for every instance.  Source paths below are
relative to the repository; `src/` holds the program, `test/` its tests.

## 1. The system

### Components

| component | state it keeps | operations | talks to |
|---|---|---|---|
| message center (`dataproviders/SimpleMessageCenter`, `MessageQueue`) | the current network acceptor; messages of groups it does not know yet | `send*`, `processReceived*`, `processMessageSend*`, `tryResendingMessagesToNetwork`, `setNetworkSentMessageAcceptor` | database (blocking calls for results, queued ones otherwise), protocol client through the acceptor |
| database (`database/SimpleDatabase`, `database/internal/*`) | contacts, groups, messages, media; per outgoing row `messagestate`, `is_queued`, `is_sent`, `modified_at` | insert, `setMessageState`, `setIsQueued`, `sendAllWaitingMessages`, `onQueueTimeoutTimerFire`, cursors with delete, creation and upgrade of tables | message center (`haveQueuedMessages`), acceptor (resend loop), UI (change signals) |
| media storage (`database/internal/ExternalMediaFileStorage`) | encrypted files beside the database, a row with the key of each | insert, remove, upgrade | database |
| network acceptor (`dataproviders/NetworkSentMessageAcceptor`) | a weak reference to one protocol client | `processSent*`, `isConnected`, `connectToFinished` → `readyConnect` | message center, protocol client |
| protocol client (`network/ProtocolClient`) | socket and session keys, both nonce counters, the unread rest of a packet, outgoing packets, awaited acknowledgments, running tasks, processors for unknown identities, reconnect attempts | handshake, timers, `handleIncoming*`, `callbackTaskFinished`, reconnect | server, message center, callback tasks, window |
| acknowledgment processors (`acknowledgments/*`) | message ID, deadline, count of open answers | `sendSuccess`, `sendFailed`, `sendFailedTimeout` | protocol client |
| callback tasks (`tasks/*`) | one upload, download, deletion, encryption or identity lookup each | `run`, `finished` | protocol client |
| key registry (`dataproviders/KeyRegistry`) | a copy of the keys in the table of contacts | `hasIdentity`, `onContactChanged` | protocol client, database |
| wire encoding (`protocol/*`, `messages/*`, `encoding/*`) | none | layouts of every message, flags, header, padding | protocol client |
| client window (`Client.cpp`, `ExceptionHandlingApplication.cpp`) | the protocol client's thread, the connection state shown, the open database, the lists of contacts and groups, the open tabs | connect, disconnect, open a database, import, edit names, daily checks, quit on an exception | all of the above |
| contacts and groups (`DatabaseContactAndGroupDataProvider`, `dataproviders/Backed*`, `DatabasePointerAuthority`, `DatabaseWrapper`) | the tables of contacts, groups, settings; backed objects with a copy of a row; which database object is in use | `storeNewContact`, batch setters, `setGroupMembers`, `onNewDatabase`, `onContactChanged` | database, window |
| options (`options/OptionReader`, `OptionMaster`) | a copy of the stored options | `ensureOptionsExist`, `refreshCache` | database, window |
| chat tabs (`widgets/*Tab`, `widgets/chat/*`, `dataproviders/Backed*`) | the items shown, how many are to be loaded | load, announce, change, delete, export | database, message center |
| backup wizard (`wizards/LoadBackup*`, `backup/*`) | a reader thread, the pages' state | import of a backup into a new database | database, media storage, window |
| image metadata (`utility/QExifImageHeader`) | the EXIF values of one picture | read, write | sending and receiving of images |
| wrappers (`*Wrapper`, `utility/Wrapping.h`) | a weak pointer to what they wrap | carry a call to another thread: `VOID` queued, `RETURN` blocking | between every two threads |
| updater, media player, other dialogs | see PROJECT.json | | |

Each of message center, database and protocol client lives in a thread with an
event loop.  They share no data; they post calls to each other.

### What is hard

* Interleaving: three ways lead to a resend (the message center's own post, the
  connection signal, a new acceptor) and three writers touch the same row (the
  resend loop, the queue timer, reports).
* Ordering: a report may be about an earlier copy of a message; a receipt may
  overtake an acknowledgment; packets may outlive their session; a message that
  waits for an identity or a group must not be passed by a later one.
* Timeouts: acknowledgments time out after 15 s, queued rows after 30 s, and
  the first changes what the second looks at.
* Failure: a connection breaks at any time, also within the blocking handshake; an
  upload, a download or a lookup fails; the process dies, and only the database
  and its folder survive.
* Stale references: a report names a row that has been deleted since; a window, its
  tabs and its background requests outlive the database they were made for; the
  membership of a sender is asked in one thread and used by a store that another
  thread runs later; a cache of contacts follows the table by a queued signal.
* Nesting: message boxes run the event loop inside a slot, so that signals are
  handled inside the handling of earlier ones.
* Partial failure: a backup is imported and a folder upgraded in many steps with no
  transaction around them, and files know nothing of the database's transactions.
* Numbers: lengths of two bytes, padding by random bytes, EXIF values that stand in
  their entry up to four bytes and elsewhere beyond.

PROJECT.json lists these under `hazards`, at the line where each one bites, with
the property that watches it or the reason why none does.

### What makes each component correct

* message center: posts nothing that is not stored; every waiting message is
  taken up after a connect; only members' messages are written, only the owner adds
  members, rows follow the deliveries, what the server has forgotten is stored.
* database: the two records of progress in a row agree; "sent" is final; media
  live as long as their message; whatever interrupts an import or an upgrade, a
  database that opens has all its tables and files.
* protocol client: a message is reported as sent only if the server took it, for
  a group message once per member; connected means authenticated; each packet is
  handled once and in order and the server can follow ours; a message that waits
  for an identity is either processed or given up, never overtaken in its own
  conversation, never lost.
* media: what is received is what was sent, captions included, and a blob is
  deleted only when everybody who needs it has it.
* window: a settled window shows the state of the client and the lists, options and
  names of the open database, the list of a settled tab is that of the database, an
  import's result is reported, opening a database comes to an end.

## 2. Modules

| module | role |
|---|---|
| `Delivery` | abstract specification: the stage of each outgoing message and the set of messages the server took |
| `Outbox`, `MCOutbox` | the life of an outgoing message across message center, database, protocol client and server |
| `OutboxProofs` | its invariants, its action property, and that it implements `Delivery` |
| `GroupInbox`, `MCGroupInbox`, `GroupInboxProofs` | received group messages from the server's mailbox to the tables: membership, message queue, synchronisation |
| `Session` | abstract specification: who asked for a connection, how often the client may redial |
| `Connection`, `MCConnection`, `ConnectionProofs` | button, signals, protocol client and socket from the click to the established session and back; implements `Session` |
| `Identities`, `MCIdentities`, `IdentitiesProofs` | messages that the protocol client holds back for an unknown identity or a download |
| `Payloads`, `Envelope` | the layout of every class of message; flags, header, padding, box |
| `PacketStream`, `MCPacketStream`, `PacketStreamProofs` | packets on a socket, in both directions and over several sessions; extends `Envelope` |
| `MediaContents`, `Captions`, `MediaTransfer`, `MCMediaTransfer`, `MediaProofs` | the steps of each class of media; EXIF captions byte by byte; the transfer between a sender, blob server and receivers |
| `History`, `MCHistory`, `HistoryProofs` | one conversation: its rows, media files and the tab that shows it |
| `BackupFiles`, `DatabaseFolder`, `BackupReader`, `Restore`, `MCRestore` | a backup's files; a database with its folder, its creation and upgrade; the import; wizard, reader thread and window around it |
| `ContactTables`, `Overview`, `MCOverview` | what each call on contacts, groups, options and the server group reads, changes and announces; the window over the databases it opens one after the other |
| `SequenceFacts` | lemmas on sequences that the proofs use |

Each `MC` module declares budgets for faults and clicks, gives the constants their
values and, where a run needs it, the fair specification.  The families meet in
the database and in the message center but share no row and are not composed:
`Outbox` knows outgoing rows, `GroupInbox` received ones and the group table,
`Identities` decides what the message center is handed, `Connection` when there is a
session, `PacketStream` what the bytes of one are, and `Overview` sees all of them only as
calls on the tables of contacts and groups.  `GroupInbox` takes a sent sync
request as stored (its row is one of `Outbox`'s control messages) and lets the
owner's answer come after it.

PROJECT.json `map` gives the lines each definition stands for.  Where classes are twins
that differ in the type of message they carry (the cursors, tabs, message classes and
backed messages of contacts and of groups), one definition stands for all of them.


### `Outbox`: state

| variable | code |
|---|---|
| `created`, `present` | rows ever inserted; rows that exist now |
| `queued`, `sent`, `fresh`, `state` | columns `is_queued`, `is_sent`, `modified_at IS NULL`, `messagestate` |
| `pending`, `willQueue` | the message center's thread inside a `send*`: it blocks in `storeSent*` and then posts if it was connected before |
| `acceptor` | `m_networkSentMessageAcceptor` as the message center sees it: none, set but not yet announced, current |
| `resends` | queued `tryResendingMessagesToNetwork` events |
| `reports` | queued `processMessageSend*` and receipt events, in order |
| `dbq` | calls queued for the database thread, in order; `live` is `willQueue` for a store call, and for a resend loop whether the acceptor it carries still has its client |
| `pcq` | messages posted to the protocol client |
| `uploads` | running upload tasks per message |
| `waiting` | the entry of `acknowledgmentWaitingMessages`: answers still to come, 0 when there is none |
| `outgoing` | `outgoingMessages`: encrypted packets; `live` while the session they were encrypted for stands |
| `connected` | `m_isConnected` after the handshake |
| `wire`, `acks`, `accepted` | the server: packets and answers under way; the recipients whose copy it took (history) |
| `app` | running, or ended by a crash or an uncaught exception |

A message is one value; its table, recipients and whether it needs an upload
are constants.  `Restored`, `Unresendable` and `MediaMissing` describe the
rows a backup restore leaves.  Contents, times and formats are left out: the two
timeouts are actions that may happen at any time, and the 30 s condition is the
choice of `old` in `OnQueueTimeoutTimerFire`.

### `Outbox`: actions

Each action is one handler of one thread.  `SendMessage` and
`ProcessSentMessage` are the two halves of `send*`, before and after the blocking
store call, because everything else may run between them.  `StoreSent`,
`StoreResult`, `StoreReceipt`, `SendAllWaitingMessages` are the database's
calls; `SendAllWaitingMessagesThrows` is the resend loop meeting a row type it
refuses.  `SendPostedMessage`, `CallbackTaskSucceeded`, `CallbackTaskFailed`,
`OutgoingMessagesTimerOnTimer`, `AcknowledgmentTimeout` and
`HandleIncomingAcknowledgment` are the client's; `ConnectToFinished`,
`SocketDisconnected` and `SetupProtocolClient` the connection's.  `Crash`,
`ServerTakesPacket` and `ReceiveReceipt` are the environment.  PROJECT.json `map`
has the lines of each.

Three points where the model is finer than one might expect:

* Reports to the message center keep their order (one sender thread, one
  receiver), resend events do not: they come by way of the acceptor and of the
  database.  They are therefore a counter beside the queue.
* A packet that was encrypted for a session that broke is still written to the
  next one and is useless there.  Nothing else tells packets apart.
* An exception on the database thread quits the application
  (`ExceptionHandlingApplication::notify`): all volatile state is lost, in the same
  step as what the call had done so far.

### `GroupInbox`: state

| variable | code |
|---|---|
| `status`, `members`, `titled` | table `groups`: `is_deleted` and `is_awaiting_sync` as `getGroupStatus` reads them, `members`, whether `groupname` is empty |
| `stored` | received rows of `group_messages`, in the order of insertion |
| `lastSync` | `getGroupLastSyncRequestTime`: never, within five minutes, longer ago |
| `inbox` | `processReceivedGroup*` events posted by the protocol client |
| `queue` | `MessageQueue::m_storedGroupMessages` |
| `replay` | the rest of the loop in `processReceivedGroupCreation` over the dequeued messages; the next event waits until it is empty |
| `dbq` | `storeReceivedGroup*` and `storeNewGroup` calls posted to the database thread |
| `acks` | acknowledgments posted to the protocol client or under way |
| `connected`, `posted`, `unacked`, `seen`, `delivered` | the session and the server's mailbox: what it was given, what it still keeps, what it delivered in this session (`posted` and `delivered` are history) |
| `lost` | messages whose store a crash or an exception cut off (history) |
| `app` | running, quitting after an exception, ended |

A message is one value with a kind, a sender and a group.  Audio, file, video
and image are one kind, "media", because they share their conditions; text and
location are "text": their store does not ask for the group.

### `GroupInbox`: actions

Each handler of the message center is one action per way through it.  Every
handler begins with a blocking question to the database, which is answered after
all calls posted before it; hence `Ready` asks for an empty `dbq`.  `IgnoreMessage` is
an early return; `AcceptMessage`, `TrustSender` and `QueueMessage` are the three
results of `checkAndFixGroupMembership` followed by what the handler does with
it; `ProcessReceivedGroupCreation` posts the group and starts the loop.
`ExecuteStore` is the database thread.  A store that throws, and the question for
the members of a deleted group, set `app` to "quitting"; the other threads go on
until `Exit`.  `Crash` may cut a call in two, between the row and the change of the
group, because the code opens no transaction.

The server is modelled from what the client relies on: it keeps a message until
it is acknowledged, delivers in the order of posting, and delivers what it keeps
once per session.  `Delayed` names messages that the protocol client may hold back
(an identity or a download is missing) and which are then overtaken.

### `Connection`: state and actions

| variable | code |
|---|---|
| `app`, `boxes`, `shown`, `button` | the application runs; open message boxes, each with its event loop; `m_connectionState` and the button |
| `setup`, `setups` | what the innermost `setupProtocolClient` waits for, and how many have not returned |
| `signals`, `calls` | signals queued for the window; calls queued for the client's thread |
| `client`, `listening`, `reconnects` | the client, whether its signals reach the window, the option that lets it redial |
| `socket`, `handshake`, `key` | the socket's state, the answer `socketConnected` blocks for, the server key held |
| `isConnected`, `isDisconnecting`, `attempts` | the flags and `failedReconnectAttempts` |
| `redials`, `barred` | automatic connects since the user's last click or success; a warning or disconnect since (history) |

Each slot of the window and of the client is one action, but for those that wait
(a blocking call, a message box, the handshake), which are cut at that point.  The
remote side may close at any time, in the handshake too, and may warn of a second
device.  `Session` knows only who wants a connection and how often the client has
dialled by itself.

### `Identities`: state and actions

| variable | code |
|---|---|
| `net.processorOf`, `net.groupProcessor`, `net.processor` | `missingIdentityProcessors`, `missingGroupProcessors`, and each processor's missing identities, group and queue |
| `net.lookups`, `net.tasks` | running identity lookups and downloads |
| `net.backlog` | the messages of a finished processor that the loop has still to handle |
| `net.handed`, `net.crashed` | what the message center was given (history); a null pointer was dereferenced |
| `known`, `outdated` | `KeyRegistry`'s copy and the signal that refreshes it |
| `centerq`, `dbq`, `nickname` | `addNewContact` on its way, calls for the database, the table of contacts |
| `dialog` | the window's dialog that adds a contact |
| `posted`, `coming`, `acked` | the server |

`HandleIncomingMessage` asks `needToWaitForMissingIdentity` and
`needToWaitForGroupData`; a lookup's end (`LookupFinishes`) adds the contact, ends or
empties processors and puts their messages into the backlog, which
`HandleQueuedMessage` works off one by one as the loop does.  An undecryptable message, and
the exception of `addContact` for another key, are left out.

### `MediaTransfer`: state and actions

`kind` says what is sent: a class, with or without a cover, and the picture.
`MediaContents` has one operator per step of the chain (`PreSend`, `PostReceive`), so that an
attempt or a slot of a receiver (`sending`, `opening`) holds the content whose task
runs.  `blobs` and `mailbox` are the two servers, `calls` and `kept` the way into the
receiver's database, `hurt` whoever lost something to a fault.  `Captions` writes and
reads the EXIF block the way `QExifImageHeader` does: entries of twelve bytes, values
in the entry or behind an offset, both byte orders, other segments kept.

### `PacketStream`: state and actions

`session` counts connections (the server's key differs in each), `link` and `key` follow
the handshake, `serverNonce` and `clientNonce` are the two counters.  Bytes go from
`written` by the server over `transit` and `socket` to `buffer`
(`m_readyReadRemainingData`); `wake` is a pending `socketOnReadyRead`, `reading` its loop
while a complete packet is in the buffer, `handled` what was opened.  One round of the
loop is one step, `ReadPacket`: take out, open, dispatch.  `outgoing`, `sender`, `wire` are our queue, its timer and what we wrote.
`received` holds what became of the messages opened in the last step, computed by
`Envelope` and `Payloads` for every class of message.

### `History`: state and actions

`disk` (files, media entries, rows) survives a crash, everything else does not.
`dbq`, `mcq`, `uiq` are the three event queues; `tab`, `loadDue`, `known`, `items`, `gui` the
tab: its timer, the messages it knows, the items it shows and what its thread
waits for.  `asked`, `cutOff` and `missed` are history: what the user asked to delete,
what a crash cut off, which items were changed between being fetched and being
connected to their signals.

### `Restore`: state and actions

`disk` is the folders with their databases, `remembered` the path in the options, `app`
a record of what runs: the wizard's page, the reader thread, the step of an import
or an upgrade at work, what the window waits for, reports under way, opened
databases, calls to the database.  `promised` is history: the databases a report
called restored.  The reader imports in the steps of `BackupReader::run`; each may fail, and
a crash may come between any two.

### `Overview` and `ContactTables`: state and actions

| variable | code |
|---|---|
| `tables` | the databases: rows of contacts and groups, options, server group |
| `opened`, `authority`, `wrapper` | database objects in the order of opening; the one `DatabasePointerAuthority` holds; the one the window's wrapper was last told of |
| `calls`, `events` | calls for the database thread, events for the window's thread |
| `opening`, `remembered` | how far `openDatabaseFile` has got; the file of the next start |
| `shown`, `tabs`, `backed`, `cache` | both lists, the open tabs, the pool of backed contacts and groups, the option reader's copy |
| `lookup`, `tasks`, `link` | the contact being added, the background requests, whether a client is connected |

`ContactTables` gives for each call the tables it leaves, the signals it emits and whether
it throws.  `DatabaseStep` carries out one call; `HandleEvent` one event of the window, which
waits for `calls` to be empty where the handler blocks for an answer.  Between
`EnterPassword` and `FinishOpening`, `openDatabaseFile` goes through `SwitchDatabase` (the
authority is set, wrappers are told by an event, and until then the window has no
database) and a nested event loop, in which everything else may happen.  `TaskEnds`,
`LookupEnds`, `LoggedIn` and `Received` are the servers and the message center.

## 3. Properties and runs

### Outgoing messages

| property | kind | says |
|---|---|---|
| `TypeOK` | invariant | types; no count goes below zero |
| `RowConsistent` | invariant, proved only | `messagestate` and the flags agree |
| `OnlyStoredMessagesTravel` | invariant | nothing is posted, uploaded, written or awaited before its row is stored |
| `ReportsAreJustified` | invariant | whatever says "sent" is about a message the server took; store calls are unique |
| `SentOnlyIfAccepted` | invariant | a row shown as sent was taken for every recipient |
| `CopiesNeedACause` | invariant | before the first timer firing or failure no copy goes out twice |
| `SentIsFinal` | action | a sent row never goes back to an earlier stage |
| `ImplementsDelivery` | refinement | the outbox is a `Delivery` |
| `SentUnlessLate`, `WaitingMessagesAreTried` | liveness | stored messages are sent unless an answer was late; waiting messages are tried after a connect |

### Received group messages

| property | kind | says |
|---|---|---|
| `TypeOK` | invariant, proved only | types; the queue holds nothing the loop over it has no case for |
| `NoMessageVanishes` | invariant | what the server forgot is stored, posted to the database, or was cut off by a crash |
| `QueuedGroupsWereAskedFor` | invariant | messages wait for another's group only after a sync request was stored, also over crashes |
| `StoresSucceed` | invariant | no call to the database throws |
| `KnownGroupsContainUs` | invariant | a group is in our list exactly if we are a member |
| `RowsFollowDeliveries` | invariant | no delivery is stored twice, and the texts of one sender come out as sent, over queue, redelivery and crash |
| `OnlyMembersSpeak` | action | content is written only if the sender is a member or the owner when the row is written |
| `OnlyTheOwnerAdds` | action | without TRUST_OTHERS only creations of the owner add members |
| `MessagesAreKept` | liveness | with an owner who answers, every message ends in the tables |

### Connection, identities, media, packets, conversations, backups, overview

| property | kind | says |
|---|---|---|
| `ConnectedIsAuthenticated` | invariant | who calls itself connected has finished the handshake of the standing connection, with that server's key |
| `SettledStateIsShown` | invariant | types; when nothing is on its way, button and label show the client's state |
| `ImplementsSession` | refinement | no connection nobody asked for, at most four redials in a row |
| `ButtonComesBack` | liveness | the button is usable again in the end |
| `LookupsMatchWaiters` | invariant | types; a contact is looked up exactly if messages wait for it, once; a group waits exactly while a member is missing |
| `HandedOverWithContacts` | invariant | whoever a message handed over is about is in the table; no null pointer is used |
| `NoOvertakingInOwnProcessor` | action | a message waiting for its own sender, owner or group is not overtaken in its conversation |
| `HeldMessagesComeFree` | liveness | every message held back is handed over or given up |
| `ReceivedAsSent` | invariant | what a receiver keeps is what was sent, with its caption |
| `BlobsLastAsLongAsNeeded` | invariant | types; every member can still fetch a blob it needs; a blob is deleted only when held |
| `MediaArrives` | liveness | media that can be opened arrive at everybody no fault has hit |
| `InOrderOnce` | invariant | types; packets are handled once, in order, and none ends the program, whatever pieces they arrive in |
| `ServerCanFollow` | invariant | what we write begins with the authentication, its nonces are consecutive and none comes twice |
| `ReadAsWritten` | invariant | each class of message is read as it was meant, but for the group photo, which is always dropped |
| `NothingIsLeftLying` | liveness | what has arrived is handled, what is queued is written, while the connection lasts |
| `MediaLiveWithTheirMessage` | invariant | a row has its media unless the user asked to delete it, and no file or entry stays without a row unless a crash cut off its store |
| `ItemsAreInOrder` | invariant | types; the items of a tab are in the order of the list, each once |
| `SettledTabIsRight` | invariant | a tab to which nothing is on its way shows the newest rows with their state |
| `OfferedDatabasesAreComplete` | invariant | a database the wizard has named as its result can be opened and, after the import of a data backup, holds everything of it, now and later |
| `OpenedDatabasesAreWhole` | invariant | types; a database that is open lacks no table, identity or contact, and its media are found under their names |
| `ImportsAreReported` | liveness | an import whose page is still shown ends in a report on it |
| `SettledWindowShowsTheDatabase` | invariant | when nothing is on its way, lists, option cache and what was read from the open database say what its tables say |
| `OpeningEnds` | liveness | the loop that waits for a new database is left, or the application quits |
| `PostedMediaCanBeOpened` | invariant, refuted | what a header comment claims |

### Runs and bounds

| run | question | bounds |
|---|---|---|
| `outbox_refines` | uploads, restored rows, a refused type, every fault at once, against `Delivery` | 2 messages; 1 each of timer, timeout, loss, crash, deletion, receipt |
| `outbox_live` | is everything sent in the end, is what waits taken up after a connect | a group message to two and a receipt; 1 timeout, 1 crash; queue timer unlimited |
| `inbox_kept` | two texts and the owner's answer for an unknown group: order, queue, redelivery, and is everything stored | 2 sessions, 1 crash, 1 wait of five minutes, 1 request of the user |
| `inbox_own` | both values of TRUST_OTHERS over every status of a group; strangers writing to a group of ours; every kind of control message | 1 session, 1 crash |
| `connection` | clicks, failures and warnings at any point | 3 clicks, 4 closes by the other side, 1 warning |
| `identities` | lookups and downloads that end in any order, beside the dialog | 3 of 5 messages by 3 contacts, both groups' creations before a text; 1 reconnect, 1 failed request, 1 dialog (alone) |
| `media` | 11 kinds of media, to a contact and to a group of two | 2 tasks at a time, 1 fault, a contact's media sent twice |
| `packets` | every class of message in pieces of any size, over a reconnect | 2 sessions, 2 packets of the server in each, 1 packet of another part, paddings 0 and 2 |
| `history` | load, announce, change, delete many, crash | 3 messages, pages of 2 and 1, 3 clicks, 1 restart |
| `restore` | import, failure, crash, upgrade, cancelled wizard, opening | 2 folders, 3 backups, 2 passwords, 3 of the 9 tables, 1 mishap, 2 jobs |
| `overview` | two databases opened in turn under tabs, checks, imports, lookups and messages | 2 opened objects, 2 actions of the user, 1 call of the message center; 4 identities, 2 groups, 1 option |
| `media_video` (violation) | a video or file with a cover | 1 attempt |

`MaxTimers`, `MaxTimeouts`, `MaxLosses` and their like limit steps of the outside world,
of the user and of timers; every other step only works off what these have
caused, so the state spaces are finite without a limit on queues.  The
interesting interleavings need few of each: a resend needs one timer firing, an
answer to the wrong copy one resend, a stale packet or a redelivery two sessions;
two deliveries around one creation already give every order in which queue, loop
and event queue can hold them; three contacts give a processor of one that keeps
messages about the two others; two packets with one-byte pieces give every way to
cut a length from its body; a page of two and one more message give every
boundary of a list; one switch, with two actions and a message around it, lets each kind of
answer arrive before, within and after it.  `MaxWork` limits how much may be under way when the unlimited
timer of `outbox_live` fires again; the real one fires every 30 s, with all earlier
work long done.  In `MCIdentities` other threads rest while the network thread works
off its backlog, because nothing the loop reads is theirs but `known`, which changes
by the loop's own events.  The sizes of a picture's caption are 0, 3, 4 and 5 bytes:
none, in the entry with and without room, and behind an offset.

Deadlock is not checked where the system may rest: a client without messages and
without a connection has nothing to do, and once the budgets are spent the models
may stop as well.  `restore` checks it.

### Fairness

* `outbox_live`: each thread's handlers (Qt event loops run what is posted), the
  outgoing timer, the queue timer as far as it looks at all queued rows (it is
  started in `enableTimers` and never stopped while the database is open), successful
  uploads, the server taking and answering packets, the connection coming up
  again, and the user starting the program and connecting it once when no client
  exists.  Nothing is assumed of faults, deletion, new messages or a failing upload.
* `inbox_kept`: message center and database thread, delivery, reconnecting and
  restarting, and that whoever has a message to post posts it, in particular the
  owner who was asked.  The last session is not broken: with an endless
  alternation of connections and losses the deliveries could always be cut off.
* `connection`: every event loop; TCP and the handshake end with success or a timeout;
  a closed socket closes; the user closes a message box, in front of which nothing
  else can be done.
* `identities`: every event loop; requests end; strong fairness of `OnContactChanged`,
  since the events of one thread keep their order and are not passed by later ones.
* `media`: each task ends, each event loop runs, the server delivers what it keeps.
* `packets`: something that is due in the event loop happens.
* `overview`: both threads handle what is queued, and `openDatabaseFile` goes on when it can.
* `restore`: the reader thread runs, busy windows come to an end, the wait for the
  reader returns after thirty seconds at the latest.  Nothing is asked of the user.

## 4. What the violation shows, and other behaviour met while modelling

`media_video`: videos and files with a cover are encrypted with two keys, one per task, and
only the second travels; the receiver can never open the video.

`outbox_live` shows the complement of a comment that does not hold: with answers in
time everything stored is sent.  After a timeout report (15 s) a row is neither
queued nor sent; the 30 s timer only looks at queued rows; so under a standing
connection nothing sends it again, where `DatabaseReadonlyContactMessage.cpp:64` says
that it "should be resent on reconnect or timeouts".

Behaviour that has no property of its own, because one could only restate it.
Steps marked * are taken by the models.

* Outgoing: a report for a deleted row throws and the application quits*
  (`SimpleDatabase.cpp:1026`).  `onQueueTimeoutTimerFire` combines three tables with `||`, so
  a contact row that can never be sent hides the others for ever.  A restored
  unsent video makes every connect throw*.  A waiting SET_IMAGE whose image is missing
  is resent as SET_TITLE (a missing `break`).
* Groups: a sync request is refused because sender and owner are compared the wrong
  way round* (`SimpleMessageCenter.cpp:1089`), so nobody ever answers one.  Under
  TRUST_OTHERS a text to a deleted group throws*, and a stranger's text to a known
  group writes the group anew, with an empty title*.  No second sync request is sent
  while a message waits*.
* Identities: group media whose download ends while the group waits are dropped until
  the next session*.  `ProtocolClient.cpp:832` logs that the result of a lookup for a known
  identity is ignored, but reads `KeyRegistry`: if the user enters the contact while its
  lookup runs, the result still finds it unknown, and `addContact` overwrites the name
  the user has chosen with an empty one*.  The window's own lookup does the same*.
* Packets: packets left over from a session are written into the next, under the old
  key*.  A length is truncated to 16 bits (`ProtocolClient.cpp:229`).  A group photo is
  always dropped by its reader*.
* Media: a failed upload after the cover's leaves a blob nobody names.  An identifier
  that comes twice overwrites a stored file with a new key
  (`ExternalMediaFileStorage.cpp:114`).
* EXIF: embedding a caption replaces other EXIF data*; no caption is written if the first
  segment is not as expected*; with positions the offsets are wrong.
* Tabs: `is_read` is never set, so that receipts are sent at each focus; deleting by age
  overflows an `int` of milliseconds* (`SimpleChatTab.cpp:141`); the dialog's weeks,
  months and years have a factor of 60 too many; a deletion rolled back by a crash has
  removed the files all the same*.
* Restore: leaving the page while the reader runs ends the program*; a crash between
  creating a table and its version makes the file unopenable*; an import that failed
  after the messages cannot be repeated in the same folder (unique identifiers)*; a
  half-restored database opens without a hint*; line breaks in texts are lost; the
  legacy import posts calls its `try` cannot catch*.
* Switching databases: the button is never disabled, so that a client connected for one
  database goes on in the other, and the answers to its requests (server group, feature
  levels, status, looked up contacts) are stored in whichever is open when they
  arrive*.  Messages received in between are dropped after their acknowledgment.  Tabs
  and backed objects outlive their database and keep its data, because they do not
  listen to `gotDatabase`*; a change announced later of a member of an old group, or one
  handled while the wrapper has no database, makes the read throw and the application
  quit*.  The window's thread destroys the old database object while the database thread
  may be running a call on it.
* Contacts: the batch setters announce the own contact only (a TODO in the code), so that
  tabs keep an old status*.  An exception of a posted
  `storeNewContact` or `storeNewGroup` is thrown in the database thread and never
  reaches the `catch` of the importer*.  The context menu keeps a pointer to an item of
  a list that is rebuilt at every change.
* Options: "Increase identity feature level" and "Send message seen notifications" are
  never read.  After a new database was opened by the button, the options are read
  before they are written, so that until the database thread has stored them a received
  message or the options dialog ends the program*.  The start of the program avoids this
  for its own reads, but not for a legacy contacts file and a brand-new database.

## 5. Proofs

All constants are arbitrary: any finite set of messages and contacts, any
assignment of tables, groups and recipients, any number of faults (the component
modules have no budgets but `MediaTransfer` and, for `CopiesNeedACause`, `MCOutbox`, where
they are any numbers; `MaxRedials` and `CountLimit` are numbers of the code).  What is
assumed of the constants is the `ASSUME` of each module, which TLC evaluates in every
run.  Each theorem rests on one lemma per action or group of actions.

### Outgoing messages (`OutboxProofs`)

Assumed is `OutboxAssumption` only: finiteness, the types of the constants, restored
rows are not control rows; for 8 also `BudgetAssumption` (budgets are numbers).

1. `TypeCorrect`: `TypeOK` is inductive by itself.  Calls are typed so that only
   the resend loop carries no message.
2. `RowsAreConsistent`: inductive relative to `TypeOK`.  `RowsAreTheDatabases` says
   which steps touch a row at all; what is left goes through `SetMessageState` and
   `SetIsQueued`.  The point is that `canSwitchTo` refuses SENDFAILED for every
   sent state, and that the timer only takes unsent rows off the queue.
3. `NothingUnstoredTravels`: needs 2, because the resend loop posts rows that are
   present and present rows are stored.
4. `SentMeansAccepted`: the table counts answers without telling whose they are, so
   the invariant has to.  `Counted` looks along the first-in first-out pipeline from our
   queue over the wire to the answers: for each message either every copy is
   taken, or nothing of it is under way, or there is a prefix of the packets that
   holds a copy for each missing recipient and, with the answers that wait, no more
   than the table entry asks for.  A resend appends a new round behind the old one; a
   broken session empties table, wire and answers together.
5. `ReportsAlwaysJustified`: needs 3.  An answer arises only when the server takes
   a packet, a report of success only from an answer, a call only from a report, a
   sent row only from a call; so each of the four queues is a sequence over
   messages already taken.  The second half says that a store call is unique and
   that its message has no row yet; it is what keeps a row from being overwritten
   by a later store call.
6. `SentStays`: an action property, from 1, 2 and 5.
7. `RefinesDelivery`: the mapping reads the stage off the row.  `StoreSent` maps to
   `Store`, a success report to `Confirm` (step 5 supplies "taken") or to a stutter, a
   failure report and the timer to `Requeue`, the resend loop to `Enqueue`, even
   when it throws halfway, deletion to `Delete`, the server's step to `Take`.
8. `NothingIsSentTwice`: `CopiesNeedACause`, a theorem of `MCSpec` for any budgets.  The
   invariant `OnceInv` follows a message through its places: promised by the message
   center, posted, uploading, in its one round of copies.  It is in one of them at most,
   and a row that waits is in none (`InOnePlace`); no post is in the queue twice; a
   recipient's copy is under way once and not when it was taken (`OneRound`).
   This also needs that what is promised is stored as queued and that nothing is reported
   as failed (`NothingFailed`), because either would let the resend loop see the row.  It
   is kept by every step but the queue timer, a timeout and a failed upload (`FreeStep`);
   those lower a budget that never rises.  1 to 3, 5 and the count of 4 say the rest: a
   message without a row is nowhere, and a lost session keeps no copies.

### Received group messages (`GroupInboxProofs`)

Assumed is `InboxAssumption`: we are none of our contacts, and how a group
identifier is completed when it is parsed (a title and a creation name their
sender as the owner, a sync request names us).

1. `InboxTypeCorrect`: `TypeOK` is inductive by itself.  That the queue holds no sync
   request needs `SyncIsRefused`: a request that passes the checks would have been
   sent by ourselves.
2. `StoresAlwaysSucceed`, `OnlyMembersEverSpeak`, `OnlyTheOwnerEverAdds`: none of these is
   inductive, as they speak about the head of `dbq` and not about why it is there.
   `CallsAreSound` says what the calls that wait are: those of one message, whose
   check still holds, with the group it needs before it.  A handler finds `dbq` empty
   and leaves the tables alone; the database thread makes the group before it saves
   the message.  `RowsComeFromCalls` says that a new row is the first call's, so that
   the check of its sender holds when it is written.
3. `KnownGroupsAlwaysContainUs`: relative to 2, because a leave is only executed for a
   known group, and nobody but a contact leaves.
4. `QueuedGroupsAlwaysAskedFor`: relative to `TypeOK`.
5. `NoMessageEverVanishes`: with `AcksAreKept`, only what is kept is acknowledged; the
   rest is that no step takes a message from all three keepers.
6. `OneRowPerDeliveryAtMost`: for each message, rows, calls, events, queued copies and
   the rest of the loop are counted together (`Total`); only a delivery adds one.
7. `RowsAlwaysFollowDeliveries`: if of two texts of one sender the later is anywhere on
   the way from the event queue to the rows, then the earlier is ahead of it there, or
   waits in the message queue of a group that does not recognise the sender, where
   the later one will have to queue behind it.  It has two hypotheses that
   `inbox_kept` satisfies: TRUST_OTHERS is off throughout (if it is switched on while a
   text waits, a later text makes the group and is stored first), and the protocol
   client delays no texts (those of known contacts are held back together with all
   later ones of the conversation, see `NeverOvertakenInOwnProcessor`).

### Connection (`ConnectionProofs`)

Assumed is `ConnectionAssumption`: the two numbers and the values of the option.

1. `ConnectedIsAlwaysAuthenticated`: connected, handshake, socket and key go together in
   each of the places where the blocking handshake may be interrupted.
2. `ConnectionImplementsSession`: the invariant bounds the history variable `redials` by the
   client's own count of attempts, which some paths set back, and says that a client
   that was told to stop or warned has its count at the limit or no socket.
3. `SettledStateIsAlwaysShown`: the last state signal that waits, or without one the
   window, tells the client's state as long as it listens; every slot that changes
   the state emits one, and a client that is replaced is cut off after the button
   is set.

### Identities (`IdentitiesProofs`)

Assumed is `IdentitiesAssumption`.  One inductive invariant, `IdInv`, carries all three
theorems: types; the tables, processors and lookups agree; a processor in use misses
somebody, and nobody who is known; messages of running downloads are settled, that
is, all they need is known; known contacts are in the table.

1. `LookupsAlwaysMatchWaiters`: a free processor is always found, because there are as many
   as contacts and groups and each one in use belongs to one of them.
2. `AlwaysHandedOverWithContacts`: a message that comes back from a download finds its
   owner known, since no contact is ever forgotten.
3. `NeverOvertakenInOwnProcessor`: whoever the processor misses makes the later message
   wait in the same processor, behind the earlier.

### Packets (`PacketStreamProofs`)

Assumed are `BoundsAssumption`, `DrawnAssumption` (padding is drawn from bytes) and
`MessagesAssumption`: a message has a value for each field of its layout and a tail that
is long enough.  Their values, lengths and classes are arbitrary.

1. `ServerCanAlwaysFollow`: what was written and what still waits are looked at as one
   sequence, `wire \o outgoing`.  Without a session its nonces go up (`Waiting`); once the
   authentication packet stands before it, packets of the session have higher nonces
   than that, one after the other, and what was left over has lower ones (`Running`).
   Only the whole sequence has this property, and so sending, which moves a packet
   from one part to the other, keeps it.
2. `PacketsAlwaysInOrder`: the bytes in the buffer, in the socket and on their way are,
   joined together, the packets written and not handled (`Stream`), wherever they
   are cut.  From the counts the client keeps it follows that a complete packet at
   the head of the buffer is the next one and opens under the nonce counter.  That
   handling does not throw needs the first part of every message's header in full
   (`PartsOfPacket`, `HeaderPositions`) and that every byte the flags can be is
   recognised (`FlagsAreKnown`), so it rests on `Envelope` too.
3. `MessagesAlwaysReadAsWritten`: of a tail of any length.  Writer and reader agree on
   where a field begins because both add up the same positive widths (`FieldsBegin`,
   on the sums of `SequenceFacts`), so what stands there is the value meant
   (`PlainIsReadAsWritten`).  That holds of any layout whose reader follows its writer;
   eighteen of the nineteen classes have one (`LayoutsArePlain`).  The group photo has
   not: its key is looked for behind the end (`PhotosAreRefused`).  `FlagsAreReadAsWritten`
   takes the flags out of their byte again, `PaddingComesOff` the padding off.

### Media (`MediaProofs`)

Assumed are `MediaTransferAssumption` (the kinds are classes of media, and which of them
may have a cover) and `LayoutsAssumption`, in which nothing is left open: the payloads of the
nine classes that travel, written and read, which TLC computes.  Numbers of attempts,
receivers, tasks at a time and faults are arbitrary.

A class of content says in what form its two parts are: plain, in a box, or as the id of
a blob (`Form`).  `ChainsAreRight` goes through the 37 classes once and finds that each step
of the two chains changes the form of one part and nothing else, within one family;
after it the proof knows steps only by that.  The inductive invariant `MediaInv` says that
whatever is on its way (`sending`, `mailbox`, `opening`) belongs to one attempt: its parts are
that attempt's in the form its class says (`Whole`), and a blob is the box of the attempt
its id names (`IsBlob`).  So two attempts, or two chains of one message, cannot be mixed
up although they share the message's identifier.

1. `BlobsAlwaysLastAsLongAsNeeded`: for each message the server keeps, the blob is there or
   the receiver has what it stands for (`Held`): it is stored, handed over, or in a slot
   where all that is left is to open it (`Past`), which cannot be refused (`PastOpens`) and
   leads to the message center at once (`DecryptStep`).  Groups never delete
   (`DeleteStep`: only images and recordings of contacts do), and a contact's message has
   one receiver, so nobody else waits for what is deleted.
2. `MediaAlwaysReceivedAsSent`: what has no task left is what was posted (`ArrivedIsDone`).
   That captions are read as they were written is a hypothesis of the theorem: it is
   what a recursive reader makes of bytes, and stays with the `media` run.

### Conversations (`HistoryProofs`)

Assumed is `HistoryAssumption`: finitely many messages, times that differ, numbers.  The
order of lists is proved of `Sorted` (`SortedEnumerates`: it enumerates the domain,
ascending) and of `Kept` (`KeptPicks`), which are functions and not recursive for this
reason.

1. `MediaAlwaysLiveWithTheirMessage`: a call is a sequence of steps on the disk of which
   a crash leaves a first part.  A store adds media and its row with the last step
   (`StoresSteps`), a deletion removes media first and its rows with the last
   (`DeletesSteps`); any first part of either keeps `MediaOK`.
2. `ItemsAreAlwaysInOrder`: `Queues` types the queues and says that the window waits
   for at most one call, which nothing in the queue follows that it also waits for
   (`WaitsFor`).  Relative to it, `TabOK`: what is being fetched is known but not yet an
   item, so it is added once, and behind those that are not younger (`InsertItemPlace`);
   a signal is destroyed with its item.  `SentOK` adds that what is sent has a row.
3. `SettledTabIsAlwaysRight`: that the tab is right when all is quiet needs to be said of
   every moment before, as what the queues still owe it.  `TabInvariant` has five more parts:
   * `OrderOK`: whatever the tab may know of is older than what is yet to be stored, and
     new messages are stored and announced in the order of their time;
   * `DeletesOK`: while the window holds rows it fetched but did not show yet, no deletion
     waits, because the call that fetched them blocked the window;
   * `RowsOK`: what is known and has a row is shown or being fetched, and an item
     without a row will hear of it;
   * `GapOK`: of a message shown, being shown or announced, all newer ones are, too, and the
     last page is, or is asked for, as long as nothing was deleted;
   * `MarksOK`: an item that differs from its row has a change on the way to it or is
     being loaded again, unless the change was `missed`.
   `missed` is a variable of the model that records the one case in which the code
   loses a change; the invariant shows there is no other.


## 6. Only model-checked

Out of the prover's reach are liveness under fairness, and what folds, `SelectSeq` or
recursion over data compute (no installed prover can instantiate an induction
theorem).  So the following stay with TLC:

* all liveness properties;
* of `ReceivedAsSent` the caption: what the writers and readers of EXIF blocks compute;
* `OfferedDatabasesAreComplete` and `OpenedDatabasesAreWhole`: they speak of three concrete
  backups and of what their files contain;
* `SettledWindowShowsTheDatabase`: imports of contacts and groups are folds that may stop
  halfway.

## 7. Not modelled

* Creation of groups and what a user changes in a group of ours, with the setup
  messages that follow.
* Switching databases under a running client but for what `Overview` shows of it: the
  outgoing messages, conversations and packets of two databases at once.
* Layout and contents of the dialogs; the parser of the legacy contacts file; the menu
  entries that change a group of ours.
* Codings below the level of a field: Base32, CRC, byte order, texts of locations,
  time stamps; libsodium's ciphers; the text format of the identity backup.
* Image metadata beyond captions: thumbnails, positions, the encodings JIS and Unicode.
* Updater, media player (adapted from an example of Qt), layout and wording.
* In `GroupInbox` every sender is in the contact list; an acknowledgment is lost with
  its session only.

The abstractions of each model are named in its header.  `PostedMediaCanBeOpened` fails
for videos and files with a cover, so `ReceivedAsSent` says nothing of those, and
`MediaArrives` is restricted to the kinds that can be opened.

### Behaviour the properties step around

Four hazards are met by the code as it stands.  No property would notice them, so
they have none in PROJECT.json:

* A report of a timeout clears `is_queued`; the timer that resends every 30 s looks at
  queued rows only (`DatabaseContactMessage::resetQueueStatus`).  Such a message is
  sent again only with the next connect or when the timer finds some other queued row.  `SentUnlessLate` excludes it.
* A received message is acknowledged once its store is posted (as in
  `SimpleMessageCenter::processReceivedGroupMessageText`).  A crash before the row is
  there loses it: `lost` in `NoMessageVanishes` and `MessagesAreKept`.
* A group creation may wait in the processor of a contact who is being looked up for
  another reason (`ProtocolClient::handleIncomingMessage`); messages of the group can
  overtake it there.  `NoOvertakingInOwnProcessor` exempts it.
* A blob is deleted on the server before the image is decrypted and stored
  (`ContactEncryptedImageAndKeyAndImageIdMessageContent`).  A failure in between loses
  the image: `BlobsLastAsLongAsNeeded` leaves out the receivers in `hurt`.
