-------------------------------- MODULE Restore --------------------------------
(***************************************************************************)
(* From a backup to an open database: the wizard that asks for a backup    *)
(* and a folder, the reader that fills a database in a thread of its own,  *)
(* the creation of an empty database, the opening with its password and    *)
(* the upgrade of an old one, and the import of an old file of contacts.   *)
(*                                                                         *)
(*   disk        the folders, which survive the program                    *)
(*   remembered  the database to open at the next start (QSettings)        *)
(*   app         what the process holds: the wizard, the BackupReader with *)
(*               the steps it has left, work (a database that is being     *)
(*               created or opened while the window waits), what the       *)
(*               window is at (gui), reports (finished() in the event      *)
(*               queue), the opened database, and the steps of calls in    *)
(*               the database thread's queue                               *)
(*   promised    history: the databases the wizard has named as the result *)
(*   mishaps     steps that may still fail, and crashes that may happen    *)
(*   jobs        imports, creations and openings that may still begin      *)
(***************************************************************************)
EXTENDS BackupReader, TLC

CONSTANTS
    Folders,       \* folders on the disk
    OldFolders,    \* what the disk may hold at first
    Backups,       \* names of data backups, whose identities are identity backups
    Content,       \* what is in each of them
    Self,          \* the contact an identity backup is about
    Passwords,     \* that the user may enter
    LegacySteps,   \* the calls an old file of contacts makes
    MaxMishaps,
    MaxJobs        \* databases that are filled, created or opened

VARIABLES disk, remembered, app, promised, mishaps, jobs

vars == <<disk, remembered, app, promised, mishaps, jobs>>

-----------------------------------------------------------------------------
(* State. *)

Idle == [at |-> "idle", folder |-> None]

Ended == [up |-> FALSE, wizard |-> None, reader |-> None, work |-> None, gui |-> Idle,
          reports |-> <<>>, opened |-> None, calls |-> <<>>]

Started == [Ended EXCEPT !.up = TRUE]

NewWizard(page) ==
    [pages |-> <<page>>, preset |-> page = "target", backup |-> None, location |-> None,
     fileName |-> None, pageFile |-> None, complete |-> FALSE, success |-> FALSE]

(* Something that runs through the steps of a plan: a reader, or the       *)
(* creation or opening the window waits for.  "at" is the next step of the *)
(* plan, "first" are steps that come before it.                            *)
Imports == [b \in Backups |-> ImportSteps(Content[b], Content[b].password)]

Plan(kind, backup) ==
    CASE kind = "import" -> Imports[backup]
      [] kind = "create" -> CreateSteps(Self)
      [] kind = "open"   -> OpenSteps

Work(kind, backup, folder, password, compatible) ==
    [kind |-> kind, backup |-> backup, folder |-> folder, password |-> password,
     compatible |-> compatible, at |-> 1, end |-> Len(Plan(kind, backup)), first |-> <<>>,
     result |-> "ok", connected |-> TRUE, finished |-> FALSE]

HasStep(work) == work.first # <<>> \/ work.at <= work.end

NextStep(work) ==
    IF work.first # <<>> THEN Head(work.first) ELSE Plan(work.kind, work.backup)[work.at]

(* What is left to do after a step: an exception ends it all. *)
After(work, outcome) ==
    IF outcome.result # "ok"
    THEN [work EXCEPT !.first = <<>>, !.at = work.end + 1, !.result = outcome.result]
    ELSE IF work.first # <<>> THEN [work EXCEPT !.first = outcome.first \o Tail(@)]
    ELSE [work EXCEPT !.first = outcome.first, !.at = @ + 1]

ReaderRuns(a) == a.reader # None /\ ~a.reader.finished

(* The end of a wizard destroys its reader; destroying a thread that runs  *)
(* ends the program.                                                       *)
WizardGone(a) ==
    IF ReaderRuns(a) THEN Ended
    ELSE [a EXCEPT !.wizard = None, !.reader = None, !.reports = <<>>, !.gui = Idle]

Asking(at, folder) == [at |-> at, folder |-> folder]

Page == Last(app.wizard.pages)

(* The pages that have been visited decide what the wizard is going to do. *)
(* "id" stands for the page of an old client configuration too, which has  *)
(* an identity backup in it.                                               *)
CreatesOnly(w) == w.preset \/ "id" \in ToSet(w.pages)

(* An empty folder, as the file dialog's result is tested for. *)
IsEmptyFolder(folder) == ~folder.exists /\ folder.files = {}

-----------------------------------------------------------------------------
(* The start of the program and the window. *)

(* delayedStartup opens the database of the last time or asks whether to   *)
(* forget it.                                                              *)
AtStart(file, d) ==
    IF file = None THEN Started
    ELSE [Started EXCEPT !.gui = Asking(IF d[file].exists THEN "password" ELSE "forget", file)]

Init ==
    /\ disk \in OldFolders
    /\ remembered = IF \E f \in Folders : disk[f].exists THEN CHOOSE f \in Folders : disk[f].exists
                    ELSE None
    /\ app = AtStart(remembered, disk)
    /\ promised = {} /\ mishaps = MaxMishaps /\ jobs = MaxJobs

(* What the user does is handled after the reports that were there before. *)
UserMayAct == app.up /\ app.gui.at = "idle" /\ app.reports = <<>>

MayClick(page) == UserMayAct /\ app.wizard # None /\ Page = page

(* menuIdentityLoadBackupOnClick; with an old client configuration the     *)
(* wizard begins with the target. *)
ShowWizard(page) ==
    /\ UserMayAct /\ app.wizard = None
    /\ app' = [app EXCEPT !.wizard = NewWizard(page)]
    /\ UNCHANGED <<disk, remembered, promised, mishaps, jobs>>

ChooseType(page) ==
    /\ MayClick("type")
    /\ app' = [app EXCEPT !.wizard.pages = Append(@, page)]
    /\ UNCHANGED <<disk, remembered, promised, mishaps, jobs>>

(* The backup and its password are tried; the target page starts empty. *)
ChooseBackup(page, backup) ==
    /\ MayClick(page)
    /\ app' = [app EXCEPT !.wizard.pages = Append(@, "target"),
                          !.wizard.backup = backup, !.wizard.location = None]
    /\ UNCHANGED <<disk, remembered, promised, mishaps, jobs>>

(* Mutated form of PickFolder: any folder will do. *)
MutantPickFolder(f) ==
    /\ MayClick("target")
    /\ app' = [app EXCEPT !.wizard.location = f]
    /\ UNCHANGED <<disk, remembered, promised, mishaps, jobs>>

PickFolder(f) ==
    /\ MayClick("target")
    /\ app' = [app EXCEPT !.wizard.location = IF IsEmptyFolder(disk[f]) THEN f ELSE None]
    /\ UNCHANGED <<disk, remembered, promised, mishaps, jobs>>

(* Next on the target page starts a reader, or creates a database for the  *)
(* identity while the window waits.  The old reader is cleaned up by then. *)
StartReader(w, password) ==
    [app EXCEPT !.wizard.pages = Append(@, "progress"), !.wizard.pageFile = w.location,
                !.reader = Work("import", w.backup, w.location, password, TRUE)]

StartCreating(w, password) ==
    [app EXCEPT !.wizard.pages = Append(@, "done"), !.wizard.fileName = None,
                !.gui = Asking("busy", w.location),
                !.work = Work("create", None, w.location, password, TRUE)]

LeaveTarget(password) ==
    /\ MayClick("target") /\ app.wizard.location # None
    /\ app' = IF CreatesOnly(app.wizard) THEN StartCreating(app.wizard, password)
              ELSE StartReader(app.wizard, password)
    /\ jobs > 0 /\ jobs' = jobs - 1
    /\ UNCHANGED <<disk, remembered, promised, mishaps>>

(* isComplete: nothing takes the success of an earlier import back. *)
LeaveProgress ==
    /\ MayClick("progress") /\ app.wizard.complete /\ app.wizard.success
    /\ app' = [app EXCEPT !.wizard.pages = Append(@, "done")]
    /\ UNCHANGED <<disk, remembered, promised, mishaps, jobs>>

GoBack(w) == [w EXCEPT !.pages = Front(@)]

Back ==
    /\ \E page \in {"data", "id", "target"} : MayClick(page)
    /\ Len(app.wizard.pages) > 1
    /\ app' = [app EXCEPT !.wizard = [GoBack(@) EXCEPT !.location = None, !.backup = None]]
    /\ UNCHANGED <<disk, remembered, promised, mishaps, jobs>>

(* cleanupPage of the progress page cuts the reader's signals off and then *)
(* waits for its end, but for half a minute only.  A report that is in the *)
(* queue already will still come.                                          *)
BackFromProgress ==
    /\ app.up /\ app.gui.at = "idle" /\ app.wizard # None /\ app.wizard.pages # <<>>
    /\ Page = "progress"
    /\ app' = [app EXCEPT !.reader.connected = FALSE, !.gui = Asking("waiting", None)]
    /\ UNCHANGED <<disk, remembered, promised, mishaps, jobs>>

ReaderIsAwaited ==
    /\ app.gui.at = "waiting"
    /\ app' = IF ReaderRuns(app) THEN Ended
              ELSE [app EXCEPT !.wizard = GoBack(@), !.reader = None, !.gui = Idle]
    /\ UNCHANGED <<disk, remembered, promised, mishaps, jobs>>

(* The dialog is closed, but the wizard lives until the database is opened. *)
Finish ==
    /\ MayClick("done")
    /\ app' = IF app.wizard.fileName = None THEN WizardGone(app)
              ELSE [app EXCEPT !.wizard.pages = <<>>,
                               !.gui = Asking("password", app.wizard.fileName)]
    /\ UNCHANGED <<disk, remembered, promised, mishaps, jobs>>

Cancel ==
    /\ UserMayAct /\ app.wizard # None /\ app.wizard.pages # <<>>
    /\ app' = WizardGone(app)
    /\ UNCHANGED <<disk, remembered, promised, mishaps, jobs>>

-----------------------------------------------------------------------------
(* The reader. *)

(* One statement or file operation, which may also fail. *)
OutcomeOf(folder, work, fails) ==
    IF fails THEN Failed(folder) ELSE Execute(folder, work, NextStep(work))

Spend(fails) == (fails => mishaps > 0) /\ mishaps' = IF fails THEN mishaps - 1 ELSE mishaps

ReaderDoes(folder, outcome) ==
    /\ disk' = [disk EXCEPT ![folder] = outcome.folder]
    /\ app' = [app EXCEPT !.reader = After(@, outcome)]

ReaderStep(fails) ==
    /\ app.up /\ ReaderRuns(app) /\ HasStep(app.reader)
    /\ ReaderDoes(app.reader.folder, OutcomeOf(disk[app.reader.folder], app.reader, fails))
    /\ Spend(fails)
    /\ UNCHANGED <<remembered, promised, jobs>>

(* Mutated form of ReaderFinishes: an exception leaves the thread silently. *)
MutantReaderFinishes ==
    /\ app.up /\ ReaderRuns(app) /\ ~HasStep(app.reader)
    /\ app' = [app EXCEPT !.reader.finished = TRUE,
                          !.reports = IF app.reader.connected /\ app.reader.result = "ok"
                                      THEN Append(@, FALSE) ELSE @]
    /\ UNCHANGED <<disk, remembered, promised, mishaps, jobs>>

(* finished(hadError), queued for the page unless it has been cut off. *)
ReaderFinishes ==
    /\ app.up /\ ReaderRuns(app) /\ ~HasStep(app.reader)
    /\ app' = [app EXCEPT !.reader.finished = TRUE,
                          !.reports = IF app.reader.connected THEN Append(@, app.reader.result # "ok") ELSE @]
    /\ UNCHANGED <<disk, remembered, promised, mishaps, jobs>>

(* The wizard's result: what it promises is in that folder. *)
Promise(folder, backup, whole) == [folder |-> folder, backup |-> backup, whole |-> whole]

(* Mutated form of OnFinished: the error is not looked at. *)
MutantOnFinished ==
    /\ app.up /\ app.reports # <<>> /\ app.gui.at \notin {"busy", "waiting"}
    /\ app' = [app EXCEPT !.reports = Tail(@), !.wizard.complete = TRUE, !.wizard.success = TRUE,
                          !.wizard.fileName = app.wizard.pageFile]
    /\ promised' = promised \cup {Promise(app.wizard.pageFile, app.wizard.backup, TRUE)}
    /\ UNCHANGED <<disk, remembered, mishaps, jobs>>

OnFinished ==
    /\ app.up /\ app.reports # <<>> /\ app.gui.at \notin {"busy", "waiting"}
    /\ IF Head(app.reports)
       THEN /\ app' = [app EXCEPT !.reports = Tail(@), !.wizard.complete = TRUE]
            /\ UNCHANGED promised
       ELSE /\ app' = [app EXCEPT !.reports = Tail(@), !.wizard.complete = TRUE,
                                  !.wizard.success = TRUE, !.wizard.fileName = app.wizard.pageFile]
            /\ promised' = promised \cup {Promise(app.wizard.pageFile, app.wizard.backup, TRUE)}
    /\ UNCHANGED <<disk, remembered, mishaps, jobs>>

-----------------------------------------------------------------------------
(* Creating and opening, while the window waits. *)

WorkDoes(folder, outcome) ==
    /\ disk' = [disk EXCEPT ![folder] = outcome.folder]
    /\ app' = [app EXCEPT !.work = After(@, outcome)]

WorkStep(fails) ==
    /\ app.up /\ app.work # None /\ HasStep(app.work)
    /\ app.work.kind = "open" => app.calls = <<>>
    /\ WorkDoes(app.work.folder, OutcomeOf(disk[app.work.folder], app.work, fails))
    /\ Spend(fails)
    /\ UNCHANGED <<remembered, promised, jobs>>

WorkIsDone(kind) ==
    app.up /\ app.work # None /\ app.work.kind = kind /\ ~HasStep(app.work)

(* The end of pageNextOnClick for the last page: after an exception the    *)
(* wizard goes back to the target.                                         *)
CreationEnds ==
    /\ WorkIsDone("create")
    /\ IF app.work.result = "ok"
       THEN /\ app' = [app EXCEPT !.work = None, !.gui = Idle, !.wizard.fileName = app.work.folder]
            /\ promised' = promised \cup {Promise(app.work.folder, app.wizard.backup, FALSE)}
       ELSE /\ app' = [app EXCEPT !.work = None, !.gui = Idle, !.wizard = GoBack(@)]
            /\ UNCHANGED promised
    /\ UNCHANGED <<disk, remembered, mishaps, jobs>>

(* openDatabaseFile: a password is tried in the present format, then in    *)
(* the one of SQLCipher 3, and asked for again.                            *)
OpenDatabase(f) ==
    /\ UserMayAct /\ app.wizard = None /\ disk[f].exists
    /\ app' = [app EXCEPT !.gui = Asking("password", f)]
    /\ UNCHANGED <<disk, remembered, promised, mishaps, jobs>>

EnterPassword(password) ==
    /\ app.up /\ app.gui.at = "password"
    /\ app' = [app EXCEPT !.gui.at = "busy",
                          !.work = Work("open", None, app.gui.folder, password, FALSE)]
    /\ jobs > 0 /\ jobs' = jobs - 1
    /\ UNCHANGED <<disk, remembered, promised, mishaps>>

CancelPassword ==
    /\ app.up /\ app.gui.at = "password"
    /\ remembered' = None
    /\ app' = WizardGone(app)
    /\ UNCHANGED <<disk, promised, mishaps, jobs>>

OpeningEnds ==
    /\ WorkIsDone("open")
    /\ LET w == app.work
           a == [app EXCEPT !.work = None]
       IN  \/ /\ w.result = "ok"
              /\ remembered' = w.folder
              /\ app' = WizardGone([a EXCEPT !.opened = w.folder])
           \/ /\ w.result = "password" /\ ~w.compatible
              /\ app' = [a EXCEPT !.work = Work("open", None, w.folder, w.password, TRUE)]
              /\ UNCHANGED remembered
           \/ /\ w.result = "password" /\ w.compatible
              /\ app' = [a EXCEPT !.gui.at = "password"]
              /\ UNCHANGED remembered
           \/ /\ w.result = "error"
              /\ app' = [a EXCEPT !.gui.at = "forget"]
              /\ UNCHANGED remembered
    /\ UNCHANGED <<disk, promised, mishaps, jobs>>

(* askForDatabaseRemovalFromConfig *)
AnswerForget(yes) ==
    /\ app.up /\ app.gui.at = "forget"
    /\ remembered' = IF yes THEN None ELSE remembered
    /\ app' = WizardGone(app)
    /\ UNCHANGED <<disk, promised, mishaps, jobs>>

-----------------------------------------------------------------------------
(* An old file of contacts and groups.  Two calls go to the database       *)
(* thread; what is in the file takes the place of what a backup said.      *)

ImportLegacyContactsAndGroups ==
    /\ UserMayAct /\ app.wizard = None /\ app.opened # None /\ app.calls = <<>>
    /\ app' = [app EXCEPT !.calls = LegacySteps]
    /\ promised' = {p \in promised : p.folder # app.opened}
    /\ UNCHANGED <<disk, remembered, mishaps, jobs>>

(* An exception in the database thread ends the program. *)
CallDoes(outcome) ==
    /\ disk' = [disk EXCEPT ![app.opened] = outcome.folder]
    /\ app' = IF outcome.result = "ok" THEN [app EXCEPT !.calls = Tail(@)] ELSE Ended

CallStep ==
    /\ app.up /\ app.calls # <<>>
    /\ CallDoes(Execute(disk[app.opened], None, Head(app.calls)))
    /\ UNCHANGED <<remembered, promised, mishaps, jobs>>

-----------------------------------------------------------------------------
Crash ==
    /\ app.up
    /\ app' = Ended /\ Spend(TRUE)
    /\ UNCHANGED <<disk, remembered, promised, jobs>>

Restart ==
    /\ ~app.up
    /\ app' = AtStart(remembered, disk)
    /\ UNCHANGED <<disk, remembered, promised, mishaps, jobs>>

Next ==
    \/ \E page \in {"type", "target"} : ShowWizard(page)
    \/ \E page \in {"data", "id"} : ChooseType(page)
    \/ ChooseBackup("id", None)
    \/ \E b \in Backups : ChooseBackup("data", b)
    \/ \E f \in Folders : PickFolder(f) \/ OpenDatabase(f)
    \/ \E p \in Passwords : LeaveTarget(p) \/ EnterPassword(p)
    \/ LeaveProgress \/ Back \/ BackFromProgress \/ ReaderIsAwaited \/ Finish \/ Cancel
    \/ \E fails \in BOOLEAN : ReaderStep(fails) \/ WorkStep(fails)
    \/ ReaderFinishes \/ OnFinished \/ CreationEnds
    \/ CancelPassword \/ OpeningEnds
    \/ \E yes \in BOOLEAN : AnswerForget(yes)
    \/ ImportLegacyContactsAndGroups \/ CallStep
    \/ Crash \/ Restart

(* The reader is a thread of its own, its report is an event of the        *)
(* window's, a window that is busy comes to an end, and one that waits for *)
(* the reader does so for thirty seconds.  Nothing is asked of the user.   *)
Fairness ==
    /\ WF_vars(\E fails \in BOOLEAN : ReaderStep(fails))
    /\ WF_vars(\E fails \in BOOLEAN : WorkStep(fails))
    /\ WF_vars(ReaderFinishes)
    /\ WF_vars(OnFinished)
    /\ WF_vars(ReaderIsAwaited)
    /\ WF_vars(CreationEnds)
    /\ WF_vars(OpeningEnds)
    /\ WF_vars(CallStep)

Spec == Init /\ [][Next]_vars /\ Fairness

=============================================================================
