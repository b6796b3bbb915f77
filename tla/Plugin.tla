------------------------------- MODULE Plugin -------------------------------
(***************************************************************************)
(* The plugin: what the player and the user do to it from its start to its *)
(* end, the settings in memory and on disk, and the scanning thread as far *)
(* as its life and its rests are concerned (what a scan does is ScanThread).*)
(*                                                                         *)
(* The player calls the plugin, and GTK the handlers of the widget, one at *)
(* a time; only the modal settings dialog runs a main loop of its own, and *)
(* the player may disconnect the plugin meanwhile.  The player may end at  *)
(* any moment, and then starts again with what is on disk.                 *)
(***************************************************************************)
EXTENDS Integers

CONSTANTS
    Dirs,                \* the directories the settings may name
    InitialFiles,        \* the settings file before the first start
    sleepMs, maxSleepMs  \* as in scan_thread.cpp

\* Settings::directories: path -> recursive
Settings == UNION {[S -> BOOLEAN] : S \in SUBSET Dirs}

NoDirs == [d \in {} |-> TRUE]

\* The settings file: not there, cut off while it was written, or whole.
Absent == [state |-> "absent", dirs |-> NoDirs]
Torn == [state |-> "torn", dirs |-> NoDirs]
Whole(settings) == [state |-> "whole", dirs |-> settings]

ASSUME PluginAssumption ==
    /\ InitialFiles \subseteq {Absent, Torn} \cup {Whole(s) : s \in Settings}
    /\ sleepMs \in Nat \ {0} /\ maxSleepMs \in Nat /\ sleepMs <= maxSleepMs

VARIABLES
    phase,       \* how far the player has got with the plugin
    file,        \* the settings file
    settings_,   \* what SettingsProvider holds
    gui,         \* where MainWidget::onSettings and storeSettings are
    draft,       \* the settings the dialog edits
    wanted,      \* history: the settings the user may expect to be in force
    db_, widget, \* whether DbOwner and MainWidget exist
    call,        \* destroyWidget or disconnect is joining the thread
    tpc,         \* where ScanThread::operator() is
    stop_, restart_, continue_,
    bound,       \* whether ActiveRecords::onChanged is bound to a thread
    sleepTimeMs, slept,  \* the static local of operator(), and `i' of its inner loop
    delay        \* history: the time a request has waited for the thread to stop resting

settingsVars == <<file, settings_, gui, draft, wanted>>
objectVars == <<phase, db_, widget, call>>
flagVars == <<stop_, restart_, continue_, bound>>
restVars == <<sleepTimeMs, slept, delay>>
vars == <<settingsVars, objectVars, tpc, flagVars, restVars>>

Init ==
    /\ file \in InitialFiles /\ wanted = {file.dirs}
    /\ settings_ = NoDirs /\ gui = "idle" /\ draft = NoDirs
    /\ phase = "off" /\ db_ = FALSE /\ widget = FALSE /\ call = "none"
    /\ tpc = "none" /\ stop_ = FALSE /\ restart_ = FALSE /\ continue_ = FALSE /\ bound = FALSE
    /\ sleepTimeMs = sleepMs /\ slept = 0 /\ delay = 0

\* The player ends, whether it quits or is killed; a torn file stays torn.
Exit ==
    /\ phase # "off"
    /\ settings_' = NoDirs /\ gui' = "idle" /\ draft' = NoDirs
    /\ phase' = "off" /\ db_' = FALSE /\ widget' = FALSE /\ call' = "none"
    /\ tpc' = "none" /\ stop_' = FALSE /\ restart_' = FALSE /\ continue_' = FALSE
    /\ bound' = FALSE /\ sleepTimeMs' = sleepMs /\ slept' = 0 /\ delay' = 0
    /\ UNCHANGED <<file, wanted>>

-----------------------------------------------------------------------------
(* Start: Impl::Impl and Settings::load. *)

\* Mutant: a file that cannot be parsed counts as an empty one.
StartWithDefaults ==
    /\ phase = "off"
    /\ settings_' = file.dirs
    /\ phase' = "started"
    /\ UNCHANGED <<file, gui, draft, wanted, db_, widget, call, tpc, flagVars, restVars>>

\* An exception of read_json or write_json makes the player do without the plugin.
Start ==
    /\ phase = "off"
    /\ \/ /\ file.state = "whole"
          /\ settings_' = file.dirs
          /\ phase' = "started"
          /\ UNCHANGED file
       \/ /\ file.state = "torn"
          /\ phase' = "failed"
          /\ UNCHANGED <<settings_, file>>
       \/ /\ file.state = "absent"
          /\ \/ phase' = "starting" /\ file' = Torn
             \/ phase' = "failed" /\ UNCHANGED file
          /\ UNCHANGED settings_
    /\ UNCHANGED <<gui, draft, wanted, db_, widget, call, tpc, flagVars, restVars>>

\* The file that was not there is written.
SaveDefaults ==
    /\ phase = "starting"
    /\ \/ phase' = "started" /\ file' = Whole(settings_)
       \/ phase' = "failed" /\ UNCHANGED file
    /\ UNCHANGED <<settings_, gui, draft, wanted, db_, widget, call, tpc, flagVars, restVars>>

\* connect: the widget is registered last, once the database is open.
Connect ==
    /\ phase = "started"
    /\ \/ phase' = "connected" /\ db_' = TRUE
       \/ phase' = "failed" /\ db_' \in BOOLEAN
    /\ UNCHANGED <<settingsVars, widget, call, tpc, flagVars, restVars>>

-----------------------------------------------------------------------------
(* The widget and the thread that works for it. *)

\* createWidget; the widget is registered as DDB_WF_SINGLE_INSTANCE.
CreateWidget ==
    /\ phase = "connected" /\ call = "none" /\ ~widget
    /\ widget' = TRUE
    /\ tpc' = "loop"
    /\ stop_' = FALSE /\ restart_' = TRUE /\ continue_' = FALSE
    /\ UNCHANGED <<settingsVars, phase, db_, call, bound, restVars>>

\* notify_all is noticed by a thread that is waiting, and by no other.
NotifyAll == tpc' = IF tpc = "slice" THEN "woken" ELSE tpc

\* pScanThread_.reset(): ~ScanThread up to the join.
StopThread ==
    IF tpc = "none"
    THEN UNCHANGED <<tpc, stop_>>
    ELSE stop_' = TRUE /\ NotifyAll

DestroyWidget ==
    /\ widget /\ call = "none" /\ gui = "idle"
    /\ call' = "destroy"
    /\ StopThread
    /\ UNCHANGED <<settingsVars, phase, db_, widget, restart_, continue_, bound, restVars>>

\* Mutant: the database is closed first.
DisconnectDbFirst ==
    /\ phase = "connected" /\ call = "none" /\ gui \in {"idle", "dialog"}
    /\ call' = "disconnect"
    /\ db_' = FALSE
    /\ StopThread
    /\ UNCHANGED <<settingsVars, phase, widget, restart_, continue_, bound, restVars>>

Disconnect ==
    /\ phase = "connected" /\ call = "none" /\ gui \in {"idle", "dialog"}
    /\ call' = "disconnect"
    /\ StopThread
    /\ UNCHANGED <<settingsVars, phase, db_, widget, restart_, continue_, bound, restVars>>

\* The thread has ended; what it used goes after it.
Joined ==
    /\ call # "none" /\ tpc \in {"none", "ended"}
    /\ call' = "none"
    /\ tpc' = "none"
    /\ \/ /\ call = "destroy"
          /\ widget' = FALSE /\ bound' = FALSE
          /\ UNCHANGED <<phase, db_>>
       \/ /\ call = "disconnect"
          /\ db_' = FALSE /\ phase' = "disconnected"
          /\ UNCHANGED <<widget, bound>>
    /\ UNCHANGED <<settingsVars, stop_, restart_, continue_, restVars>>

-----------------------------------------------------------------------------
(* The user. *)

\* A row is expanded or collapsed, or the tree refreshed: onActiveFilesChanged.
Ask(rest) ==
    /\ phase = "connected" /\ widget /\ call = "none" /\ gui = "idle" /\ bound
    /\ IF rest
       THEN restart_' = TRUE /\ UNCHANGED continue_
       ELSE continue_' = TRUE /\ UNCHANGED restart_
    /\ NotifyAll
    /\ UNCHANGED <<settingsVars, objectVars, stop_, bound, restVars>>

\* onSettings: the dialog edits a copy.
OpenDialog ==
    /\ phase = "connected" /\ widget /\ call = "none" /\ gui = "idle"
    /\ draft' = settings_
    /\ gui' = "dialog"
    /\ UNCHANGED <<file, settings_, wanted, objectVars, tpc, flagVars, restVars>>

\* onAddDir and onDelDir.  A directory that is there already keeps its setting.
EditDraft ==
    /\ gui = "dialog" /\ call = "none"
    /\ \E d \in Dirs :
          \/ draft' = [e \in DOMAIN draft \cup {d} |-> e \in DOMAIN draft => draft[e]]
          \/ draft' = [e \in DOMAIN draft \ {d} |-> draft[e]]
    /\ UNCHANGED <<file, settings_, gui, wanted, objectVars, tpc, flagVars, restVars>>

Cancel ==
    /\ gui = "dialog" /\ call = "none"
    /\ gui' = "idle" /\ draft' = NoDirs
    /\ UNCHANGED <<file, settings_, wanted, objectVars, tpc, flagVars, restVars>>

\* storeSettings: write_json truncates the file before it writes it.  If it fails
\* nobody catches the exception: that is Exit.
Save ==
    /\ gui = "dialog" /\ call = "none"
    /\ file' = Torn
    /\ wanted' = {settings_, draft}
    /\ gui' = "saving"
    /\ UNCHANGED <<settings_, draft, objectVars, tpc, flagVars, restVars>>

\* Mutant: the file is written when the plugin is disconnected.
SetOnly ==
    /\ gui = "saving"
    /\ file' = Whole(settings_)
    /\ settings_' = draft
    /\ wanted' = {draft}
    /\ gui' = "stored" /\ draft' = NoDirs
    /\ UNCHANGED <<objectVars, tpc, flagVars, restVars>>

\* The rest of save, and setSettings.
Store ==
    /\ gui = "saving"
    /\ file' = Whole(draft)
    /\ settings_' = draft
    /\ wanted' = {draft}
    /\ gui' = "stored" /\ draft' = NoDirs
    /\ UNCHANGED <<objectVars, tpc, flagVars, restVars>>

\* pScanThread_->restart(), where a disconnected plugin has no thread: that is Exit.
Restart ==
    /\ gui = "stored" /\ tpc # "none"
    /\ restart_' = TRUE
    /\ NotifyAll
    /\ gui' = "idle"
    /\ UNCHANGED <<file, settings_, draft, wanted, objectVars, stop_, continue_, bound, restVars>>

-----------------------------------------------------------------------------
(* ScanThread::operator() *)

shouldBreak == stop_ \/ restart_ \/ continue_

LoopHead ==
    /\ tpc = "loop"
    /\ tpc' = IF stop_ THEN "ended" ELSE IF restart_ THEN "roots" ELSE "scan"
    /\ UNCHANGED <<settingsVars, objectVars, flagVars, restVars>>

BeginInitialScan ==
    /\ tpc = "roots"
    /\ restart_' = FALSE /\ bound' = FALSE /\ continue_' = FALSE
    /\ tpc' = "initial"
    /\ UNCHANGED <<settingsVars, objectVars, stop_, restVars>>

EndInitialScan ==
    /\ tpc = "initial"
    /\ bound' = TRUE
    /\ tpc' = "scan"
    /\ UNCHANGED <<settingsVars, objectVars, stop_, restart_, continue_, restVars>>

\* A round: the thread rests unless something has changed.
Scan ==
    /\ tpc = "scan"
    /\ \/ ~stop_ /\ tpc' = "test" /\ slept' = 0 /\ UNCHANGED sleepTimeMs
       \/ tpc' = "tail" /\ sleepTimeMs' = sleepMs /\ UNCHANGED slept
    /\ UNCHANGED <<settingsVars, objectVars, flagVars, delay>>

\* Whatever a round throws ends the thread.
ScanThrows ==
    /\ tpc = "scan"
    /\ tpc' = "ended"
    /\ UNCHANGED <<settingsVars, objectVars, flagVars, restVars>>

\* Mutant: the rests grow without a limit.
RestsGrow ==
    /\ sleepTimeMs' = 2 * sleepTimeMs
    /\ delay' = 0
    /\ tpc' = "tail"

\* The rest is over and the next one longer.
Rested ==
    /\ sleepTimeMs' = IF 2 * sleepTimeMs > maxSleepMs THEN maxSleepMs ELSE 2 * sleepTimeMs
    /\ delay' = 0
    /\ tpc' = "tail"

\* The head of the inner loop.
Test ==
    /\ tpc = "test"
    /\ IF slept < sleepTimeMs
       THEN tpc' = "slice" /\ UNCHANGED <<sleepTimeMs, delay>>
       ELSE Rested
    /\ UNCHANGED <<settingsVars, objectVars, flagVars, slept>>

\* Mutant: the whole rest is one wait.
SliceIsRest ==
    /\ tpc = "slice"
    /\ delay' = IF shouldBreak THEN delay + sleepTimeMs ELSE delay
    /\ tpc' = "woken"
    /\ UNCHANGED <<settingsVars, objectVars, flagVars, sleepTimeMs, slept>>

\* Mutant: the thread waits until it is notified.
SliceUntilNotified ==
    /\ tpc = "slice" /\ slept < 0
    /\ tpc' = "woken"
    /\ UNCHANGED <<settingsVars, objectVars, flagVars, restVars>>

\* wait_for runs out or returns early.  A request that was there when it began
\* has not been noticed for that long.
Slice ==
    /\ tpc = "slice"
    /\ \E passed \in {0, sleepMs} : delay' = IF shouldBreak THEN delay + passed ELSE delay
    /\ tpc' = "woken"
    /\ UNCHANGED <<settingsVars, objectVars, flagVars, sleepTimeMs, slept>>

Woken ==
    /\ tpc = "woken"
    /\ IF shouldBreak
       THEN Rested /\ UNCHANGED slept
       ELSE tpc' = "test" /\ slept' = slept + sleepMs /\ UNCHANGED <<sleepTimeMs, delay>>
    /\ UNCHANGED <<settingsVars, objectVars, flagVars>>

Tail ==
    /\ tpc = "tail"
    /\ continue_' = FALSE
    /\ tpc' = "loop"
    /\ UNCHANGED <<settingsVars, objectVars, stop_, restart_, bound, restVars>>

-----------------------------------------------------------------------------
ThreadStep ==
    \/ LoopHead \/ BeginInitialScan \/ EndInitialScan \/ Scan \/ ScanThrows
    \/ Test \/ Slice \/ Woken \/ Tail

PlayerStep ==
    \/ Start \/ SaveDefaults \/ Connect \/ CreateWidget \/ DestroyWidget \/ Disconnect
    \/ Joined \/ Exit

UserStep ==
    \/ \E rest \in BOOLEAN : Ask(rest)
    \/ OpenDialog \/ EditDraft \/ Cancel \/ Save \/ Store \/ Restart

Next == ThreadStep \/ PlayerStep \/ UserStep

Spec == Init /\ [][Next]_vars

\* The thread runs, and who joins it goes on when it has ended.
FairSpec == Spec /\ WF_vars(ThreadStep) /\ WF_vars(Joined)

=============================================================================
