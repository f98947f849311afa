------------------------------ MODULE History ------------------------------
(***************************************************************************)
(* The history of one conversation: the rows of its messages and the media *)
(* files beside them, which the database thread writes and deletes, and    *)
(* the chat tab that shows them.  The tab hears of a change by way of      *)
(* queued signals: a new message directly from the database, a changed or  *)
(* deleted one through the message center; it fetches what it shows with   *)
(* calls that block the window until the database has worked off what came *)
(* before.  The user deletes single messages, or many by age, date or      *)
(* count; these calls do not block.                                        *)
(*                                                                         *)
(* The conversation is with a contact; the code for groups is its twin.    *)
(* A file is written or removed at once, a table at the end of a statement *)
(* or of a transaction; the process may die between any two of these.      *)
(*                                                                         *)
(* Times are in seconds.  Bounds: what the user does (MaxClicks) and how   *)
(* often the process starts again (MaxRestarts).                           *)
(***************************************************************************)
EXTENDS Integers, Sequences, FiniteSets, SequencesExt

CONSTANTS
    Messages,          \* the messages of the conversation, by their UUIDs
    Kind,              \* message -> text, image or file (also audio and video)
    Ours,              \* those that we send
    SortBy, CreatedAt, \* message -> time; they differ for what others send
    Earlier,           \* messages stored before the program starts
    PageSize, More,    \* how many messages the tab loads at first, and when asked
    Ages, Dates,       \* what the user may enter in the dialog: <<number, unit>>, time
    Counts,
    Now,               \* the time when the user does so
    MaxClicks, MaxRestarts

ASSUME HistoryAssumption ==
    /\ IsFiniteSet(Messages)
    /\ Kind \in [Messages -> {"text", "image", "file"}]
    /\ Ours \subseteq Messages /\ Earlier \subseteq Messages
    /\ SortBy \in [Messages -> Nat] /\ CreatedAt \in [Messages -> Nat]
    /\ \A u, v \in Messages : SortBy[u] = SortBy[v] => u = v
    /\ PageSize \in Nat /\ More \in Nat /\ Now \in Nat /\ Counts \subseteq Nat
    /\ MaxClicks \in Nat /\ MaxRestarts \in Nat

VARIABLES
    disk,      \* files, entries of table media and rows of table contact_messages
    sent,      \* our messages whose row says that they are sent
    told,      \* what the message center has told the database, <<call, message>>
    dbq,       \* calls posted to the database thread
    mcq,       \* signals on their way to the message center
    uiq,       \* signals on their way to the window
    tab,       \* the tab is open
    loadDue,   \* its timer for the first load has not run
    known,     \* m_knownUuids
    items,     \* ChatWidget::m_items, in the order shown
    gui,       \* what the window's thread waits for, and which messages are to do
    app,       \* running, quitting after an exception, or stopped
    asked,     \* messages the user has asked to delete
    cutOff,    \* messages whose store a crash cut off
    missed,    \* items that were fetched before a change and listened after it
    clicks, restarts

tables  == <<disk, sent>>
widgets == <<tab, loadDue, known, items>>
record  == <<asked, cutOff>>
vars == <<tables, told, dbq, mcq, uiq, widgets, gui, app, record, missed, clicks, restarts>>

-----------------------------------------------------------------------------
(* The domain of a function whose values differ, in their order.           *)
Sorted(key) ==
    [k \in 1 .. Cardinality(DOMAIN key) |->
        CHOOSE x \in DOMAIN key : Cardinality({y \in DOMAIN key : key[y] < key[x]}) = k - 1]

(* What stands in a sequence at some places, in its order. *)
Kept(s, places) ==
    LET ps == Sorted([i \in places |-> i])
    IN  [k \in DOMAIN ps |-> s[ps[k]]]

-----------------------------------------------------------------------------
(* What is on the disk.                                                    *)

Parts(u) ==
    CASE Kind[u] = "text"  -> <<>>
      [] Kind[u] = "image" -> <<"standard">>
      [] Kind[u] = "file"  -> <<"standard", "thumbnail">>

File(u, p)  == <<"file", u, p>>
Entry(u, p) == <<"entry", u, p>>
Row(u)      == <<"row", u>>

Rows == {u \in Messages : Row(u) \in disk}

(* One step on the disk that happens as a whole or not at all. *)
Adds(facts)    == [adds |-> facts, removes |-> {}]
Removes(facts) == [adds |-> {}, removes |-> facts]

(* The steps of a call, which only adds or only removes. *)
Apply(effects, d) ==
    (d \cup UNION {effects[i].adds : i \in DOMAIN effects})
        \ UNION {effects[i].removes : i \in DOMAIN effects}

(* insertMediaItem of each part: the file, then the entry. *)
InsertMediaItems(u) ==
    [i \in 1 .. 2 * Len(Parts(u)) |->
        LET part == Parts(u)[(i + 1) \div 2]
        IN  Adds({IF i % 2 = 1 THEN File(u, part) ELSE Entry(u, part)})]

(* Mutated form of StoreEffects: the message first, then its media. *)
MutantStoreEffects(u) == <<Adds({Row(u)})>> \o InsertMediaItems(u)

(* storeSentContactMessage* and storeReceivedContactMessage*. *)
StoreEffects(u) == InsertMediaItems(u) \o <<Adds({Row(u)})>>

RemoveFiles(u) == <<Removes({File(u, "standard")}), Removes({File(u, "thumbnail")})>>

Entries(u) == {Entry(u, "standard"), Entry(u, "thumbnail")}

(* removeAllMediaItems, and then the row. *)
DeleteMessage(u) == RemoveFiles(u) \o <<Removes(Entries(u)), Removes({Row(u)})>>

(* Mutated form of DeletionHelper: the media stay. *)
MutantDeletionHelper(us) == <<Removes({Row(u) : u \in ToSet(us)})>>

(* deletionHelper: a transaction; the files know nothing of it. *)
DeletionHelper(us) ==
    [i \in 1 .. 2 * Len(us) |-> RemoveFiles(us[(i + 1) \div 2])[2 - (i % 2)]]
        \o <<Removes(UNION {Entries(u) \cup {Row(u)} : u \in ToSet(us)})>>

-----------------------------------------------------------------------------
(* Which messages a call is about.                                         *)

InOrder(us, old) == Sorted([u \in us |-> IF old THEN SortBy[u] ELSE -SortBy[u]])

First(n, us) == SubSeq(us, 1, IF n < Len(us) THEN n ELSE Len(us))

LastMessages(n) == First(n, InOrder(Rows, FALSE))

(* A rule of the dialog: the messages up to a time or from it on, or some  *)
(* number of them.                                                         *)
Fits(u, rule) == IF rule.old THEN SortBy[u] <= rule.limit ELSE SortBy[u] >= rule.limit

Ruled(rule) ==
    IF rule.by = "count" THEN First(rule.limit, InOrder(Rows, rule.old))
                         ELSE InOrder({u \in Rows : Fits(u, rule)}, rule.old)

(* The rows a call deletes, in the order in which it does. *)
Victims(call) ==
    CASE call[1] = "delete"     -> IF call[2] \in Rows THEN <<call[2]>> ELSE <<>>
      [] call[1] = "deleteMany" -> Ruled(call[2])
      [] OTHER                  -> <<>>

Effects(call) ==
    CASE call[1] = "store"      -> StoreEffects(call[2])
      [] call[1] = "delete"     -> DeleteMessage(call[2])
      [] call[1] = "deleteMany" -> DeletionHelper(Victims(call))
      [] OTHER                  -> <<>>

(* The cursor of a deletion, of a report and of a fetch throws if it does  *)
(* not find the row.                                                       *)
Throws(call) == call[1] \in {"delete", "result", "message"} /\ call[2] \notin Rows

-----------------------------------------------------------------------------
(* The window: what an item is, and the loop that shows messages.          *)

Item(u, isSent) == [uid |-> u, sent |-> isSent, deleted |-> FALSE]

Shown == {items[i].uid : i \in DOMAIN items}

Resting == [at |-> "idle", todo |-> <<>>, sent |-> FALSE]

(* addItem: behind the last item that is not younger. *)
InsertItem(item) ==
    LET notYounger == {i \in DOMAIN items : CreatedAt[items[i].uid] <= CreatedAt[item.uid]}
    IN  InsertAt(items, IF notYounger = {} THEN 1 ELSE 1 + CHOOSE i \in notYounger :
                                                       \A j \in notYounger : j <= i, item)

(* Mutated form of Show: what is known is shown again. *)
MutantShow(us) ==
    IF us = <<>>
    THEN gui' = Resting /\ UNCHANGED <<known, dbq>>
    ELSE /\ known' = known \cup {Head(us)}
         /\ dbq' = Append(dbq, <<"message", Head(us)>>)
         /\ gui' = [at |-> "message", todo |-> us, sent |-> FALSE]

(* onNewMessage for one message after the other, up to the first that is   *)
(* not known: it is fetched, and the thread waits.  (The code fetches it   *)
(* twice, and nothing this thread has to fear comes between.)              *)
Show(us) ==
    LET rest == Kept(us, {i \in DOMAIN us : us[i] \notin known})
    IN  IF rest = <<>>
        THEN gui' = Resting /\ UNCHANGED <<known, dbq>>
        ELSE /\ known' = known \cup {Head(rest)}
             /\ dbq' = Append(dbq, <<"message", Head(rest)>>)
             /\ gui' = [at |-> "message", todo |-> rest, sent |-> FALSE]

(* Mutated form of ToTheTab: the items of a closed tab keep their signals. *)
MutantToTheTab(signals) == signals

(* Destroying the items destroys the signals posted to them; that of a new *)
(* message goes to the tab.                                                *)
ToTheTab(signals) == Kept(signals, {i \in DOMAIN signals : signals[i][1] = "new"})

-----------------------------------------------------------------------------
(* The database thread.                                                    *)

Executed(call) ==
    /\ disk' = Apply(Effects(call), disk)
    /\ sent' = IF call[1] = "result" THEN sent \cup {call[2]} ELSE sent \ ToSet(Victims(call))
    /\ asked' = asked \cup ToSet(Victims(call))

(* announceNewMessage, announceMessageChanged and announceMessageDeleted.  *)
Announced(call) ==
    /\ uiq' = IF call[1] = "store" THEN Append(uiq, <<"new", call[2]>>) ELSE uiq
    /\ mcq' = mcq \o (IF call[1] = "result" THEN <<<<"changed", call[2]>>>>
                      ELSE [i \in DOMAIN Victims(call) |-> <<"deleted", Victims(call)[i]>>])

(* What a blocking call gives back to the window.                          *)
Answered(call) ==
    gui' = CASE call[1] = "last"    -> [gui EXCEPT !.at = "next", !.todo = LastMessages(call[2])]
             [] call[1] = "message" -> [gui EXCEPT !.at = IF @ = "message" THEN "add" ELSE "update",
                                                   !.sent = call[2] \in sent]
             [] OTHER               -> gui

(* The volatile state is gone. *)
Stop ==
    /\ app' = "stopped"
    /\ dbq' = <<>> /\ mcq' = <<>> /\ uiq' = <<>>
    /\ tab' = FALSE /\ loadDue' = FALSE /\ known' = {} /\ items' = <<>>
    /\ gui' = Resting /\ missed' = {}

(* An exception tells the application to quit; in a blocking call it also  *)
(* leaves the window with a null pointer.                                  *)
ExecuteCall ==
    /\ app # "stopped"
    /\ dbq # <<>>
    /\ LET call == Head(dbq)
       IN  \/ /\ ~Throws(call)
              /\ Executed(call) /\ Announced(call) /\ Answered(call)
              /\ dbq' = Tail(dbq)
              /\ UNCHANGED <<app, widgets, missed>>
           \/ /\ Throws(call) /\ call[1] # "message"
              /\ dbq' = Tail(dbq)
              /\ app' = "quitting"
              /\ UNCHANGED <<tables, mcq, uiq, widgets, gui, asked, missed>>
           \/ /\ Throws(call) /\ call[1] = "message"
              /\ Stop
              /\ UNCHANGED <<tables, asked>>
    /\ UNCHANGED <<told, cutOff, clicks, restarts>>

(* The message center has a message to store, one that we send or that has *)
(* come; they do so in the order of their time.                            *)
StoreMessage(u) ==
    /\ app # "stopped"
    /\ u \notin Earlier /\ <<"store", u>> \notin told
    /\ \A v \in Earlier \cup {t[2] : t \in told} : SortBy[v] <= SortBy[u]
    /\ told' = told \cup {<<"store", u>>}
    /\ dbq' = Append(dbq, <<"store", u>>)
    /\ UNCHANGED <<tables, mcq, uiq, widgets, gui, app, record, missed, clicks, restarts>>

(* One of ours has been sent (Outbox). *)
StoreResult(u) ==
    /\ app # "stopped"
    /\ u \in Ours /\ <<"store", u>> \in told /\ <<"store", u>> \notin ToSet(dbq)
    /\ <<"result", u>> \notin told
    /\ u \notin cutOff
    /\ told' = told \cup {<<"result", u>>}
    /\ dbq' = Append(dbq, <<"result", u>>)
    /\ UNCHANGED <<tables, mcq, uiq, widgets, gui, app, record, missed, clicks, restarts>>

(* Mutated form of Relay: only changes are passed on. *)
MutantRelay ==
    /\ app # "stopped"
    /\ mcq # <<>>
    /\ mcq' = Tail(mcq)
    /\ uiq' = IF Head(mcq)[2] \in Shown /\ Head(mcq)[1] = "changed" THEN Append(uiq, Head(mcq)) ELSE uiq
    /\ missed' = IF gui.at = "add" THEN missed \cup {Head(mcq)[2]} ELSE missed
    /\ UNCHANGED <<tables, told, dbq, widgets, gui, app, record, clicks, restarts>>

(* databaseOnMessageChanged and databaseOnMessageDeleted: passed on to the *)
(* items that listen now.  (The queue of an item's own wrapper, which the  *)
(* signal passes before the item, is not kept apart.)                      *)
Relay ==
    /\ app # "stopped"
    /\ mcq # <<>>
    /\ mcq' = Tail(mcq)
    /\ uiq' = IF Head(mcq)[2] \in Shown THEN Append(uiq, Head(mcq)) ELSE uiq
    /\ missed' = IF gui.at = "add" /\ Head(gui.todo) = Head(mcq)[2]
                 THEN missed \cup {Head(mcq)[2]} ELSE missed
    /\ UNCHANGED <<tables, told, dbq, widgets, gui, app, record, clicks, restarts>>

-----------------------------------------------------------------------------
(* The window's thread handles one event after the other.                  *)

Idle == app # "stopped" /\ gui.at = "idle"

Signalled(kind) == Idle /\ uiq # <<>> /\ Head(uiq)[1] = kind

(* The timer of the tab. *)
LoadLastNMessages ==
    /\ Idle /\ loadDue
    /\ loadDue' = FALSE
    /\ dbq' = Append(dbq, <<"last", PageSize>>)
    /\ gui' = [Resting EXCEPT !.at = "list"]
    /\ UNCHANGED <<tables, told, mcq, uiq, tab, known, items, app, record, missed, clicks, restarts>>

(* The list has come. *)
ShowLastMessages ==
    /\ app # "stopped" /\ gui.at = "next"
    /\ Show(gui.todo)
    /\ UNCHANGED <<tables, told, mcq, uiq, tab, loadDue, items, app, record, missed, clicks, restarts>>

OnNewMessage ==
    /\ Signalled("new")
    /\ uiq' = Tail(uiq)
    /\ IF tab THEN Show(<<Head(uiq)[2]>>) ELSE UNCHANGED <<known, dbq, gui>>
    /\ UNCHANGED <<tables, told, mcq, tab, loadDue, items, app, record, missed, clicks, restarts>>

(* The message has come, and perhaps more are to be shown. *)
AddChatWidgetItem ==
    /\ app # "stopped" /\ gui.at = "add"
    /\ items' = InsertItem(Item(Head(gui.todo), gui.sent))
    /\ Show(Tail(gui.todo))
    /\ UNCHANGED <<tables, told, mcq, uiq, tab, loadDue, app, record, missed, clicks, restarts>>

(* An item that the user has deleted is not loaded again. *)
OnMessageChanged ==
    /\ Signalled("changed")
    /\ uiq' = Tail(uiq)
    /\ LET u == Head(uiq)[2]
       IN  IF \E i \in DOMAIN items : items[i].uid = u /\ ~items[i].deleted
           THEN /\ dbq' = Append(dbq, <<"message", u>>)
                /\ gui' = [at |-> "reload", todo |-> <<u>>, sent |-> FALSE]
           ELSE UNCHANGED <<dbq, gui>>
    /\ UNCHANGED <<tables, told, mcq, widgets, app, record, missed, clicks, restarts>>

(* loadCache has come back. *)
UpdateItem ==
    /\ app # "stopped" /\ gui.at = "update"
    /\ items' = [i \in DOMAIN items |-> IF items[i].uid = Head(gui.todo)
                                        THEN [items[i] EXCEPT !.sent = gui.sent] ELSE items[i]]
    /\ gui' = Resting
    /\ UNCHANGED <<tables, told, dbq, mcq, uiq, tab, loadDue, known, app, record, missed, clicks,
                   restarts>>

(* The item is destroyed, and with it the signals posted to it. *)
OnItemMessageDeleted(u) ==
    /\ items' = Kept(items, {i \in DOMAIN items : items[i].uid # u})
    /\ uiq' = Kept(uiq, {i \in DOMAIN uiq : uiq[i][1] = "new" \/ uiq[i][2] # u})

OnMessageDeleted ==
    /\ Signalled("deleted")
    /\ OnItemMessageDeleted(Head(uiq)[2])
    /\ missed' = missed \ {Head(uiq)[2]}
    /\ UNCHANGED <<tables, told, dbq, mcq, tab, loadDue, known, gui, app, record, clicks, restarts>>

-----------------------------------------------------------------------------
(* The user.                                                               *)

Click == Idle /\ clicks < MaxClicks /\ clicks' = clicks + 1

OpenTab ==
    /\ Click /\ ~tab
    /\ tab' = TRUE /\ loadDue' = TRUE /\ known' = {} /\ items' = <<>>
    /\ UNCHANGED <<tables, told, dbq, mcq, uiq, gui, app, record, missed, restarts>>

CloseTab ==
    /\ Click /\ tab
    /\ tab' = FALSE /\ loadDue' = FALSE /\ known' = {} /\ items' = <<>>
    /\ uiq' = ToTheTab(uiq)
    /\ missed' = {}
    /\ UNCHANGED <<tables, told, dbq, mcq, gui, app, record, restarts>>

(* "Load 25 more messages": more than the tab has ever known. *)
LoadMoreMessages ==
    /\ Click /\ tab
    /\ dbq' = Append(dbq, <<"last", More + Cardinality(known)>>)
    /\ gui' = [Resting EXCEPT !.at = "list"]
    /\ UNCHANGED <<tables, told, mcq, uiq, widgets, app, record, missed, restarts>>

(* The menu of an item; it stays until the signal comes. *)
DeleteItem(i) ==
    /\ Click /\ tab
    /\ items' = [items EXCEPT ![i].deleted = TRUE]
    /\ dbq' = Append(dbq, <<"delete", items[i].uid>>)
    /\ UNCHANGED <<tables, told, mcq, uiq, tab, loadDue, known, gui, app, record, missed, restarts>>

(* The dialog: what the code makes of what the user chooses.               *)
DeleteMany(rule) ==
    /\ Click /\ tab
    /\ dbq' = Append(dbq, <<"deleteMany", rule>>)
    /\ UNCHANGED <<tables, told, mcq, uiq, widgets, gui, app, record, missed, restarts>>

DeleteByCount ==
    \E oldest \in BOOLEAN, n \in Counts :
        DeleteMany([by |-> "count", old |-> oldest, limit |-> n])

(* What getTabByAgeAge takes the units for: weeks and more are sixty times *)
(* too long.                                                               *)
UnitTaken == [minutes |-> 60, hours |-> 60 * 60, days |-> 60 * 60 * 24,
              weeks |-> 60 * 60 * 60 * 24 * 7, months |-> 60 * 60 * 60 * 24 * 30,
              years |-> 60 * 60 * 60 * 24 * 365]

(* 1000 * n as a signed number of 32 bits, taken apart into halves.        *)
Thousandfold(n) ==
    LET low  == (n % 2^16) * 1000
        high == ((n \div 2^16) * 1000 + low \div 2^16) % 2^16
    IN  (IF high < 2^15 THEN high ELSE high - 2^16) * 2^16 + (low % 2^16)

(* ageInSeconds * 1000 in int, in seconds again: if it overflows, a build  *)
(* may as well have the exact product.                                     *)
AgesTaken(n) == {n, -((-Thousandfold(n)) \div 1000)}

DeleteByAge ==
    \E older \in BOOLEAN, age \in Ages :
        \E seconds \in AgesTaken(age[1] * UnitTaken[age[2]]) :
            DeleteMany([by |-> "age", old |-> older, limit |-> Now - seconds])

(* The tab for dates asks the other tab's button which side is meant.      *)
DeleteByDate ==
    \E old \in BOOLEAN, date \in Dates : DeleteMany([by |-> "age", old |-> old, limit |-> date])

-----------------------------------------------------------------------------
(* The process ends: killed in the middle of a call, or after an exception.*)

Crash ==
    /\ app = "running" /\ restarts < MaxRestarts
    /\ LET call    == IF dbq = <<>> THEN <<"none">> ELSE Head(dbq)
           effects == IF Throws(call) THEN <<>> ELSE Effects(call)
       IN  \E k \in 0 .. Len(effects) :
              /\ disk' = Apply(SubSeq(effects, 1, k), disk)
              /\ sent' = {u \in sent : Row(u) \in disk'}
              /\ asked' = IF k > 0 THEN asked \cup ToSet(Victims(call)) ELSE asked
              /\ cutOff' = IF k > 0 /\ call[1] = "store" THEN cutOff \cup {call[2]} ELSE cutOff
    /\ Stop
    /\ UNCHANGED <<told, clicks, restarts>>

Quit ==
    /\ app = "quitting"
    /\ Stop
    /\ UNCHANGED <<tables, told, record, clicks, restarts>>

Restart ==
    /\ app = "stopped" /\ restarts < MaxRestarts
    /\ restarts' = restarts + 1
    /\ app' = "running"
    /\ UNCHANGED <<tables, told, dbq, mcq, uiq, widgets, gui, record, missed, clicks>>

Init ==
    /\ disk = UNION {Apply(StoreEffects(u), {}) : u \in Earlier}
    /\ sent = Earlier \cap Ours
    /\ told = {} /\ dbq = <<>> /\ mcq = <<>> /\ uiq = <<>>
    /\ tab = FALSE /\ loadDue = FALSE /\ known = {} /\ items = <<>>
    /\ gui = Resting /\ app = "running"
    /\ asked = {} /\ cutOff = {} /\ missed = {}
    /\ clicks = 0 /\ restarts = 0

UserStep ==
    \/ OpenTab \/ CloseTab \/ LoadMoreMessages
    \/ \E i \in DOMAIN items : DeleteItem(i)
    \/ DeleteByCount \/ DeleteByAge \/ DeleteByDate

WindowStep ==
    \/ LoadLastNMessages \/ ShowLastMessages \/ OnNewMessage \/ AddChatWidgetItem
    \/ OnMessageChanged \/ UpdateItem \/ OnMessageDeleted

Next ==
    \/ ExecuteCall
    \/ \E u \in Messages : StoreMessage(u) \/ StoreResult(u)
    \/ Relay
    \/ WindowStep
    \/ UserStep
    \/ Crash \/ Quit \/ Restart

Spec == Init /\ [][Next]_vars

-----------------------------------------------------------------------------
(* Types; and a signal for an item never outlives the item, or it would    *)
(* fetch what has been deleted.                                            *)
TypeOK ==
    /\ sent \subseteq Ours \cap Rows
    /\ told \subseteq {"store", "result"} \X Messages
    /\ \A i \in DOMAIN dbq : dbq[i][1] \in {"store", "result", "delete", "deleteMany", "last", "message"}
    /\ ToSet(mcq) \subseteq {"changed", "deleted"} \X Messages
    /\ \A s \in ToSet(uiq) : s[1] = "new" \/ s[2] \in Shown
    /\ Shown \subseteq known /\ known \subseteq Messages
    /\ gui.at \in {"idle", "list", "next", "message", "add", "reload", "update"}
    /\ (gui.at # "idle" \/ loadDue \/ items # <<>>) => tab
    /\ app \in {"running", "quitting", "stopped"}

(* Whenever the process dies, a message that is there has all its media,   *)
(* unless the user has asked for its deletion (storeSentContactMessage*,   *)
(* storeReceivedContactMessage*, deleteMessage, deletionHelper).           *)
MediaLastAsLongAsTheirMessage ==
    \A u \in Rows \ asked : \A p \in ToSet(Parts(u)) : {File(u, p), Entry(u, p)} \subseteq disk

(* Nothing of a deleted message stays behind, neither a file nor an entry; *)
(* only a store that was cut off leaves them without a message.            *)
NoMediaAreLeftOver ==
    \A u \in Messages \ (Rows \cup cutOff) :
        \A p \in ToSet(Parts(u)) : {File(u, p), Entry(u, p)} \cap disk = {}

(* A message and its media come and go together, whenever the process dies *)
(* (ExternalMediaFileStorage.cpp, DatabaseMessageCursor::deleteMessage).   *)
MediaLiveWithTheirMessage == MediaLastAsLongAsTheirMessage /\ NoMediaAreLeftOver

(* However lists that were asked for and announcements are interleaved, a  *)
(* message has one item, the items are in the order of their making, and   *)
(* no signal outlives the item it is for (ChatWidget::addItem).            *)
ItemsAreInOrder ==
    /\ TypeOK
    /\ \A i, j \in DOMAIN items :
          i < j => /\ items[i].uid # items[j].uid
                   /\ CreatedAt[items[i].uid] <= CreatedAt[items[j].uid]

Settled ==
    /\ app = "running" /\ gui.at = "idle" /\ tab /\ ~loadDue
    /\ dbq = <<>> /\ mcq = <<>> /\ uiq = <<>>

(* A tab that has nothing more to hear of shows the history as it is: no   *)
(* message that has been deleted, the newest ones without a gap, at least  *)
(* a page if nothing was ever deleted, and each as it is in the table.     *)
(* Only a change that was passed on between the fetch of a message and the *)
(* making of its item is missed.                                           *)
SettledTabIsRight ==
    Settled =>
        /\ Shown \subseteq Rows
        /\ \A u \in Shown : \A v \in Rows : SortBy[v] > SortBy[u] => v \in Shown
        /\ asked = {} => ToSet(LastMessages(PageSize)) \subseteq Shown
        /\ \A i \in DOMAIN items :
              items[i].uid \notin missed => (items[i].sent <=> items[i].uid \in sent)

=============================================================================
