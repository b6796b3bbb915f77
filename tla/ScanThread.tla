----------------------------- MODULE ScanThread -----------------------------
(***************************************************************************)
(* The scanning thread of scan_thread.cpp: operator() and everything it    *)
(* calls, the flags other threads set to interrupt it, and the events it   *)
(* posts for the widget.                                                   *)
(*                                                                         *)
(* The thread is sequential; `pc' names the statement it is about to       *)
(* execute.  A step covers a stretch of code in which nothing another      *)
(* thread or another program changes is read twice.  shouldBreak() reads   *)
(* three atomics; the others only ever set them while the thread is past   *)
(* them, so reading them in one step gives the same outcomes.              *)
(***************************************************************************)
EXTENDS Database, FileSystem, Sequences

CONSTANTS
    Supported,       \* the paths whose extension a decoder supports
    SettingsValues,  \* the values Settings::directories may be given: path -> recursive
    InitialTables,   \* the tables an earlier run may have left
    PromptWidget,    \* whether the widget forgets an expanded row as soon as
                     \* the deletion of its record is committed
    MaxRequests,     \* bound: calls made by the GUI thread
    MaxFaults        \* bound: failing database or directory reads

ASSUME ScanThreadAssumption ==
    /\ Supported \subseteq Paths
    /\ \A s \in SettingsValues : DOMAIN s \subseteq Paths /\ s \in [DOMAIN s -> BOOLEAN]
    /\ \A db \in InitialTables : IsTable(db) /\ ParentsAreOlder(db)
    /\ PromptWidget \in BOOLEAN
    /\ MaxRequests \in Nat
    /\ MaxFaults \in Nat

VARIABLES
    stop_, restart_, continue_,  \* the flags of ScanThread
    settings,      \* what SettingsProvider holds
    storing,       \* storeSettings has set the settings and not yet restarted
    ids,           \* ActiveRecords::ids, the expanded rows
    onChanged,     \* whether ActiveRecords::onChanged is bound to this thread
    events,        \* everything pushed to eventSink_, in order
    pc,
    roots,         \* local of operator(): the directories read from the settings
    hasChanged,    \* local of operator()
    initial,       \* the scan in progress is the one of the root directories
    todo,          \* directories scanDirs has still to check
    dirId,         \* argument of scanDir
    entries,       \* entries scanDir has still to visit
    oldRecords,    \* records of dirId no entry has been found for yet
    part,          \* the Changes of the checkDir or scanDir call in progress
    changes,       \* the Changes of the whole scan
    requests, faults,  \* calls and failures so far
    cutShort,      \* history: this round's scan was left at a shouldBreak()
    dropped        \* history: records an interrupted save left undeleted

flagVars == <<stop_, restart_, continue_>>
guiVars == <<settings, storing, ids, onChanged>>
scanVars == <<roots, hasChanged, initial, todo, dirId, entries, oldRecords, part, changes>>
histVars == <<cutShort, dropped>>
boundVars == <<requests, faults>>
vars == <<dbVars, fsVars, flagVars, guiVars, events, pc, scanVars, histVars, boundVars>>

-----------------------------------------------------------------------------
(* struct Changes *)

Changes == [deleted : Seq(RecordID), changed : Seq(FileRecord), added : Seq(FileInfo)]

NoChanges == [deleted |-> <<>>, changed |-> <<>>, added |-> <<>>]

delEntry(c, id) == [c EXCEPT !.deleted = Append(@, id)]
replaceEntry(c, rec) == [c EXCEPT !.changed = Append(@, rec)]
addEntry(c, info) == [c EXCEPT !.added = Append(@, info)]

\* Mutant: the deletions of the other are forgotten.
SpliceForgettingDeletions(c, d) ==
    [c EXCEPT !.changed = @ \o d.changed, !.added = @ \o d.added]

\* Changes::operator+=
Splice(c, d) ==
    [deleted |-> c.deleted \o d.deleted,
     changed |-> c.changed \o d.changed,
     added   |-> c.added \o d.added]

\* struct ScanEvent
Event(type, id) == [type |-> type, id |-> id]
ScanEvent == [type : {"ADDED", "DELETED", "UPDATED"}, id : RecordID]

-----------------------------------------------------------------------------
shouldBreak == stop_ \/ restart_ \/ continue_

\* A row of the tree can be expanded if it has rows below it and its own row
\* is shown.
Expandable(db, id, expanded) ==
    /\ childrenFiles(db, id) # {}
    /\ db[id].parentID \in expanded \cup {ROOT_RECORD_ID}

\* The widget is built, and has restored its expanded rows, before the thread
\* is started.
Init ==
    /\ FsInit
    /\ files \in InitialTables /\ committed = files /\ inTx = FALSE /\ failed = {}
    /\ stop_ = FALSE /\ restart_ = TRUE /\ continue_ = FALSE
    /\ settings \in SettingsValues /\ storing = FALSE
    /\ ids \in {S \in SUBSET dirs(files) : \A id \in S : Expandable(files, id, S)}
    /\ onChanged = FALSE
    /\ events = <<>>
    /\ pc = "loop"
    /\ roots = <<>> /\ hasChanged = TRUE /\ initial = FALSE
    /\ todo = {} /\ dirId = ROOT_RECORD_ID /\ entries = {} /\ oldRecords = {}
    /\ part = NoChanges /\ changes = NoChanges
    /\ requests = 0 /\ faults = 0
    /\ cutShort = FALSE /\ dropped = {}

-----------------------------------------------------------------------------
(* operator(): the head of the loop and the start of the initial scan. *)

\* Mutant: "while (true)".
LoopForever ==
    /\ pc = "loop"
    /\ pc' = IF restart_ THEN "readSettings" ELSE "scanDirs"
    /\ UNCHANGED <<dbVars, fsVars, flagVars, guiVars, events, scanVars, histVars, boundVars>>

LoopHead ==
    /\ pc = "loop"
    /\ pc' = IF stop_ THEN "stopped" ELSE IF restart_ THEN "readSettings" ELSE "scanDirs"
    /\ UNCHANGED <<dbVars, fsVars, flagVars, guiVars, events, scanVars, histVars, boundVars>>

ReadSettings ==
    /\ pc = "readSettings"
    /\ roots' = settings
    /\ pc' = "clearRestart"
    /\ UNCHANGED <<dbVars, fsVars, flagVars, guiVars, events, hasChanged, initial, todo,
                   dirId, entries, oldRecords, part, changes, histVars, boundVars>>

ClearRestart ==
    /\ pc = "clearRestart"
    /\ restart_' = FALSE
    /\ pc' = "unhook"
    /\ UNCHANGED <<dbVars, fsVars, stop_, continue_, guiVars, events, scanVars, histVars,
                   boundVars>>

\* Mutant: the widget may interrupt the initial scan.
UnhookForgotten ==
    /\ pc = "unhook"
    /\ pc' = "clearContinue"
    /\ UNCHANGED <<dbVars, fsVars, flagVars, guiVars, events, scanVars, histVars, boundVars>>

Unhook ==
    /\ pc = "unhook"
    /\ onChanged' = FALSE
    /\ pc' = "clearContinue"
    /\ UNCHANGED <<dbVars, fsVars, flagVars, settings, storing, ids, events, scanVars,
                   histVars, boundVars>>

ClearContinue ==
    /\ pc = "clearContinue"
    /\ continue_' = FALSE
    /\ hasChanged' = TRUE
    /\ initial' = TRUE
    /\ changes' = NoChanges
    /\ cutShort' = FALSE
    /\ pc' = "scanRoots"
    /\ UNCHANGED <<dbVars, fsVars, stop_, restart_, guiVars, events, roots, todo, dirId,
                   entries, oldRecords, part, dropped, boundVars>>

-----------------------------------------------------------------------------
(* scanDir and scanEntry *)

\* scanDir up to its loop: `names' is what it is to iterate over and `found'
\* the changes its caller has already noted for the directory.
EnterScanDir(id, names, found) ==
    /\ dirId' = id
    /\ IF shouldBreak
       THEN /\ cutShort' = TRUE
            /\ part' = NoChanges
            /\ changes' = Splice(changes, found)
            /\ entries' = {} /\ oldRecords' = {}
            /\ pc' = IF initial THEN "save" ELSE "checkDir"
       ELSE /\ Ready("childrenFiles")
            /\ part' = found
            /\ entries' = names
            /\ oldRecords' = childrenFiles(files, id)
            /\ pc' = IF names = {} THEN "missing" ELSE "entry"
            /\ UNCHANGED <<changes, cutShort>>

\* The end of scanDir: its changes are added to those of the whole scan.
LeaveScanDir ==
    /\ changes' = Splice(changes, part)
    /\ part' = NoChanges
    /\ entries' = {} /\ oldRecords' = {}
    /\ pc' = IF initial THEN "save" ELSE "checkDir"

ScanRoots ==
    /\ pc = "scanRoots"
    /\ EnterScanDir(ROOT_RECORD_ID, DOMAIN roots, NoChanges)
    /\ UNCHANGED <<dbVars, fsVars, flagVars, guiVars, events, roots, hasChanged, initial,
                   todo, dropped, boundVars>>

\* The settings are a std::map and come sorted; a directory is read in any order.
NextEntries ==
    {p \in entries : dirId = ROOT_RECORD_ID => \A q \in entries : p <= q}

\* isRecursive
Recursive(p) == dirId = ROOT_RECORD_ID => roots[p]

\* What std::equal_range finds in oldRecords: at most one record, by the
\* assertion; the first of them otherwise.
EqualRange(p) == {r \in oldRecords : r[2].fileName = p}

\* What std::lower_bound finds: the first record that does not sort before p.
LowerBound(p) ==
    {r \in oldRecords :
        /\ p <= r[2].fileName
        /\ \A q \in oldRecords : p <= q[2].fileName => r[2].fileName <= q[2].fileName}

\* oldRecords.erase(it), where `it' may be end().
Erase(range) ==
    IF range = {} THEN UNCHANGED oldRecords
                  ELSE \E r \in range : oldRecords' = oldRecords \ {r}

NewInfo(p, time) ==
    [parentID |-> dirId, lastWriteTime |-> time, isDir |-> is_directory(p), fileName |-> p]

\* The query of the entry's status throws: unless it is gone, keep its record.
EntryUnreadable(p) ==
    /\ Unreadable(p)
    /\ Erase(LowerBound(p))
    /\ UNCHANGED part

EntryIsDir(p) ==
    /\ ~Unreadable(p) /\ is_directory(p) /\ Recursive(p)
    /\ part' = IF EqualRange(p) = {} THEN addEntry(part, NewInfo(p, 0)) ELSE part
    /\ Erase(EqualRange(p))

\* No decoder for it, or its write time cannot be read because it is gone.
EntryIgnored(p) ==
    /\ ~Unreadable(p) /\ ~(is_directory(p) /\ Recursive(p))
    /\ p \notin Supported \/ ~Exists(p)
    /\ UNCHANGED <<part, oldRecords>>

EntryIsFile(p) ==
    /\ ~Unreadable(p) /\ ~(is_directory(p) /\ Recursive(p))
    /\ p \in Supported /\ Exists(p)
    /\ LET info == NewInfo(p, disk[p].mtime)
       IN  IF EqualRange(p) = {}
           THEN part' = addEntry(part, info) /\ UNCHANGED oldRecords
           ELSE \E r \in EqualRange(p) :
                    /\ part' = IF r[2].lastWriteTime = info.lastWriteTime
                               THEN part ELSE replaceEntry(part, <<r[1], info>>)
                    /\ oldRecords' = oldRecords \ {r}

\* One round of scanDir's loop, up to the test that ends it.
ScanEntry ==
    /\ pc = "entry"
    /\ \E p \in NextEntries :
          /\ entries' = entries \ {p}
          /\ IF shouldBreak
             THEN UNCHANGED <<part, oldRecords>>
             ELSE \/ EntryUnreadable(p)
                  \/ EntryIsDir(p)
                  \/ EntryIgnored(p)
                  \/ EntryIsFile(p)
    /\ pc' = "entryDone"
    /\ UNCHANGED <<dbVars, fsVars, flagVars, guiVars, events, roots, hasChanged, initial,
                   todo, dirId, changes, histVars, boundVars>>

EntryDone ==
    /\ pc = "entryDone"
    /\ IF shouldBreak
       THEN LeaveScanDir /\ cutShort' = TRUE
       ELSE /\ pc' = IF entries = {} THEN "missing" ELSE "entry"
            /\ UNCHANGED <<changes, part, entries, oldRecords, cutShort>>
    /\ UNCHANGED <<dbVars, fsVars, flagVars, guiVars, events, roots, hasChanged, initial,
                   todo, dirId, dropped, boundVars>>

\* Mutant: the handler keeps what was noted so far.
IterationFailsHalfway ==
    /\ pc = "entry" /\ dirId # ROOT_RECORD_ID
    /\ faults < MaxFaults /\ faults' = faults + 1
    /\ LeaveScanDir
    /\ UNCHANGED <<dbVars, fsVars, flagVars, guiVars, events, roots, hasChanged, initial,
                   todo, dirId, histVars, requests>>

\* directory_iterator::operator++ throws out of scanDir and into checkDir's
\* handler: everything noted for this directory is lost.
IterationFails ==
    /\ pc = "entry" /\ dirId # ROOT_RECORD_ID
    /\ faults < MaxFaults /\ faults' = faults + 1
    /\ part' = NoChanges /\ entries' = {} /\ oldRecords' = {}
    /\ pc' = "checkDir"
    /\ UNCHANGED <<dbVars, fsVars, flagVars, guiVars, events, roots, hasChanged, initial,
                   todo, dirId, changes, histVars, requests>>

\* The records no entry was found for, in the order of their names.
Missing ==
    /\ pc = "missing"
    /\ IF oldRecords = {}
       THEN LeaveScanDir
       ELSE /\ \E r \in LowerBound(0) :
                  /\ part' = delEntry(part, r[1])
                  /\ oldRecords' = oldRecords \ {r}
            /\ UNCHANGED <<changes, entries, pc>>
    /\ UNCHANGED <<dbVars, fsVars, flagVars, guiVars, events, roots, hasChanged, initial,
                   todo, dirId, histVars, boundVars>>

-----------------------------------------------------------------------------
(* scanDirs and checkDir *)

\* Mutant: an idle scan looks at no directory.
ScanDirsOnlyIfChanged ==
    /\ pc = "scanDirs"
    /\ initial' = FALSE
    /\ changes' = NoChanges
    /\ cutShort' = FALSE
    /\ todo' = IF hasChanged THEN dirs(files) ELSE {}
    /\ pc' = "checkDir"
    /\ UNCHANGED <<dbVars, fsVars, flagVars, guiVars, events, roots, hasChanged, dirId,
                   entries, oldRecords, part, dropped, boundVars>>

ScanDirs ==
    /\ pc = "scanDirs"
    /\ hasChanged => Ready("dirs")
    /\ initial' = FALSE
    /\ changes' = NoChanges
    /\ cutShort' = FALSE
    /\ todo' = IF hasChanged THEN dirs(files) ELSE ids
    /\ pc' = "checkDir"
    /\ UNCHANGED <<dbVars, fsVars, flagVars, guiVars, events, roots, hasChanged, dirId,
                   entries, oldRecords, part, dropped, boundVars>>

ScanDirsDone ==
    /\ pc = "checkDir"
    /\ todo = {} \/ (~hasChanged /\ shouldBreak)
    /\ todo' = {}
    /\ cutShort' = (cutShort \/ todo # {})
    /\ pc' = "save"
    /\ UNCHANGED <<dbVars, fsVars, flagVars, guiVars, events, roots, hasChanged, initial,
                   dirId, entries, oldRecords, part, changes, dropped, boundVars>>

\* The part of checkDir that decides whether the directory is to be scanned.
\* An idle scan looks the record up first and skips one that is gone.
CheckDir ==
    /\ pc = "checkDir"
    /\ todo # {} /\ ~(~hasChanged /\ shouldBreak)
    /\ ~hasChanged => Ready("getFile")
    /\ LET id   == Min(todo)
           path == files[id].fileName
       IN  /\ todo' = todo \ {id}
           /\ dirId' = id
           /\ IF id \notin DOMAIN files \/ Unreadable(path)
              THEN UNCHANGED <<part, changes, pc>>
              ELSE IF ~is_directory(path)
              THEN changes' = delEntry(changes, id) /\ UNCHANGED <<part, pc>>
              ELSE IF disk[path].mtime = files[id].lastWriteTime
              THEN UNCHANGED <<part, changes, pc>>
              ELSE /\ part' = replaceEntry(NoChanges,
                          <<id, [files[id] EXCEPT !.lastWriteTime = disk[path].mtime]>>)
                   /\ pc' = "openDir"
                   /\ UNCHANGED changes
    /\ UNCHANGED <<dbVars, fsVars, flagVars, guiVars, events, roots, hasChanged, initial,
                   entries, oldRecords, histVars, boundVars>>

\* fs::directory_iterator(dirPath) throws if the directory has gone or cannot be
\* read.
Opens(path) == is_directory(path) /\ ~Unreadable(path)

\* scanDir(recDir.first, fs::directory_iterator(dirPath))
OpenDir ==
    /\ pc = "openDir"
    /\ LET path == files[dirId].fileName
       IN  IF Opens(path)
           THEN EnterScanDir(dirId, Listing(path), part)
           ELSE /\ part' = NoChanges
                /\ pc' = "checkDir"
                /\ UNCHANGED <<dirId, entries, oldRecords, changes, cutShort>>
    /\ UNCHANGED <<dbVars, fsVars, flagVars, guiVars, events, roots, hasChanged, initial,
                   todo, dropped, boundVars>>

\* A call that runs `stmt' throws: it fails, or the cache repeats its last failure.
Throws(stmt) ==
    \/ StepFails(stmt) /\ faults < MaxFaults /\ faults' = faults + 1
    \/ GetThrows(stmt) /\ UNCHANGED faults

\* A query of the database throws.  checkDir handles what childrenFiles throws
\* for its directory and the initial scan what it throws for the root; nothing
\* handles dirs or getFile, and the thread ends.
QueryFails ==
    /\ \/ pc = "scanRoots" /\ ~shouldBreak /\ Throws("childrenFiles") /\ pc' = "hook"
       \/ /\ pc = "openDir" /\ ~shouldBreak /\ Opens(files[dirId].fileName)
          /\ Throws("childrenFiles") /\ pc' = "checkDir"
       \/ pc = "scanDirs" /\ hasChanged /\ Throws("dirs") /\ pc' = "stopped"
       \/ /\ pc = "checkDir" /\ ~hasChanged /\ ~shouldBreak /\ todo # {}
          /\ Throws("getFile") /\ pc' = "stopped"
    /\ part' = NoChanges
    /\ UNCHANGED <<tableVars, fsVars, flagVars, guiVars, events, roots, hasChanged, initial,
                   todo, dirId, entries, oldRecords, changes, histVars, requests>>

-----------------------------------------------------------------------------
(* save *)

\* Back from save: the initial scan ignores what it returns.
SaveReturns(result) ==
    /\ changes' = NoChanges
    /\ hasChanged' = IF initial THEN hasChanged ELSE result
    /\ pc' = IF initial THEN "hook" ELSE "pause"

\* A DbException: the initial scan has a handler, any other one ends the thread.
SaveThrows ==
    /\ changes' = NoChanges
    /\ pc' = IF initial THEN "hook" ELSE "stopped"
    /\ UNCHANGED hasChanged

\* An exception leaves a destructor: std::terminate.
Terminates ==
    /\ changes' = NoChanges
    /\ pc' = "terminated"
    /\ UNCHANGED hasChanged

\* Mutant: the loops of save in another order.
ChangedBeforeAdded == <<"changing", "adding", "deleting">>

\* The loops of save, in the order of the code.
SaveOrder == <<"adding", "changing", "deleting">>

PhaseAfter(phase) ==
    IF phase = SaveOrder[3] THEN "committing"
    ELSE IF phase = SaveOrder[2] THEN SaveOrder[3]
    ELSE SaveOrder[2]

Save ==
    /\ pc = "save"
    /\ IF changes = NoChanges
       THEN SaveReturns(FALSE) /\ UNCHANGED dbVars
       ELSE beginTransaction /\ pc' = SaveOrder[1] /\ UNCHANGED <<changes, hasChanged>>
    /\ UNCHANGED <<fsVars, flagVars, guiVars, events, roots, initial, todo, dirId, entries,
                   oldRecords, part, histVars, boundVars>>

\* BEGIN fails; it always does while a transaction is open.
BeginFails ==
    /\ pc = "save" /\ changes # NoChanges
    /\ \/ Throws("beginTransaction")
       \/ inTx /\ StepFails("beginTransaction") /\ UNCHANGED faults
    /\ SaveThrows
    /\ UNCHANGED <<tableVars, fsVars, flagVars, guiVars, events, roots, initial, todo, dirId,
                   entries, oldRecords, part, histVars, requests>>

\* Mutant: the additions are not interrupted.
SaveAllAdded ==
    /\ pc = "adding"
    /\ IF changes.added = <<>>
       THEN pc' = PhaseAfter("adding") /\ UNCHANGED <<dbVars, events, changes>>
       ELSE /\ addFile(Head(changes.added))
            /\ events' = Append(events, Event("ADDED", NewRowId(files)))
            /\ changes' = [changes EXCEPT !.added = Tail(@)]
            /\ UNCHANGED pc
    /\ UNCHANGED <<fsVars, flagVars, guiVars, roots, hasChanged, initial, todo, dirId,
                   entries, oldRecords, part, histVars, boundVars>>

SaveAdded ==
    /\ pc = "adding"
    /\ IF changes.added = <<>> \/ shouldBreak
       THEN pc' = PhaseAfter("adding") /\ UNCHANGED <<dbVars, events, changes>>
       ELSE /\ addFile(Head(changes.added))
            /\ events' = Append(events, Event("ADDED", NewRowId(files)))
            /\ changes' = [changes EXCEPT !.added = Tail(@)]
            /\ UNCHANGED pc
    /\ UNCHANGED <<fsVars, flagVars, guiVars, roots, hasChanged, initial, todo, dirId,
                   entries, oldRecords, part, histVars, boundVars>>

SaveChanged ==
    /\ pc = "changing"
    /\ IF changes.changed = <<>> \/ shouldBreak
       THEN pc' = PhaseAfter("changing") /\ UNCHANGED <<dbVars, events, changes>>
       ELSE /\ replaceFile(Head(changes.changed)[1], Head(changes.changed)[2])
            /\ events' = Append(events, Event("UPDATED", Head(changes.changed)[1]))
            /\ changes' = [changes EXCEPT !.changed = Tail(@)]
            /\ UNCHANGED pc
    /\ UNCHANGED <<fsVars, flagVars, guiVars, roots, hasChanged, initial, todo, dirId,
                   entries, oldRecords, part, histVars, boundVars>>

\* Mutant: the event is pushed before the loop is left.
SaveDeletedEventFirst ==
    /\ pc = "deleting"
    /\ events' = IF changes.deleted = <<>> THEN events
                 ELSE Append(events, Event("DELETED", Head(changes.deleted)))
    /\ IF changes.deleted = <<>> \/ shouldBreak
       THEN pc' = PhaseAfter("deleting") /\ UNCHANGED <<dbVars, changes>>
       ELSE /\ delFile(Head(changes.deleted))
            /\ changes' = [changes EXCEPT !.deleted = Tail(@)]
            /\ UNCHANGED pc
    /\ UNCHANGED <<fsVars, flagVars, guiVars, roots, hasChanged, initial, todo, dirId,
                   entries, oldRecords, part, histVars, boundVars>>

\* Mutant: the widget is not told.
SaveDeletedSilently ==
    /\ pc = "deleting"
    /\ IF changes.deleted = <<>> \/ shouldBreak
       THEN pc' = PhaseAfter("deleting") /\ UNCHANGED <<dbVars, changes>>
       ELSE /\ delFile(Head(changes.deleted))
            /\ changes' = [changes EXCEPT !.deleted = Tail(@)]
            /\ UNCHANGED pc
    /\ UNCHANGED <<fsVars, flagVars, guiVars, events, roots, hasChanged, initial, todo, dirId,
                   entries, oldRecords, part, histVars, boundVars>>

SaveDeleted ==
    /\ pc = "deleting"
    /\ IF changes.deleted = <<>> \/ shouldBreak
       THEN pc' = PhaseAfter("deleting") /\ UNCHANGED <<dbVars, events, changes>>
       ELSE /\ delFile(Head(changes.deleted))
            /\ events' = Append(events, Event("DELETED", Head(changes.deleted)))
            /\ changes' = [changes EXCEPT !.deleted = Tail(@)]
            /\ UNCHANGED pc
    /\ UNCHANGED <<fsVars, flagVars, guiVars, roots, hasChanged, initial, todo, dirId,
                   entries, oldRecords, part, histVars, boundVars>>

\* The statement about to be executed would leave a row without its parent.
ForeignKeyFails ==
    \/ /\ pc = "adding" /\ changes.added # <<>>
       /\ ~ParentExists(files, Head(changes.added))
    \/ /\ pc = "changing" /\ changes.changed # <<>>
       /\ Head(changes.changed)[1] \in DOMAIN files
       /\ ~ParentExists(files, Head(changes.changed)[2])

\* The statement save is about to execute.
Executes(stmt) ==
    /\ ~shouldBreak
    /\ \/ pc = "adding" /\ changes.added # <<>> /\ stmt = "addFile"
       \/ pc = "changing" /\ changes.changed # <<>> /\ stmt = "replaceFile"
       \/ pc = "deleting" /\ changes.deleted # <<>> /\ stmt = "delFile"

\* An exception leaves save while `f' are the failed statements: the transaction
\* is rolled back from a destructor, so one that rollback() itself throws ends
\* the process.
SaveUnwinds(f, undone) ==
    /\ rollback(f, undone)
    /\ IF "rollback" \in f
       THEN Terminates
       ELSE SaveThrows

\* Some statement of the transaction fails: foreign key, lock or I/O.  After an
\* I/O error or with the disk full SQLite has undone the transaction.
StatementFails ==
    /\ \E stmt \in Statements :
          /\ Executes(stmt)
          /\ IF ~Ready(stmt)
             THEN SaveUnwinds(failed \ {stmt}, FALSE) /\ UNCHANGED faults
             ELSE \/ /\ faults < MaxFaults /\ faults' = faults + 1
                     /\ \E undone \in BOOLEAN : SaveUnwinds(failed \cup {stmt}, undone)
                  \/ /\ ForeignKeyFails /\ UNCHANGED faults
                     /\ SaveUnwinds(failed \cup {stmt}, FALSE)
    /\ UNCHANGED <<fsVars, flagVars, guiVars, events, roots, initial, todo, dirId, entries,
                   oldRecords, part, histVars, requests>>

\* The expanded rows once the widget has seen which records are gone.
IdsAfterCommit == IF PromptWidget THEN ids \cap DOMAIN committed' ELSE ids

\* The deletions that save was interrupted before.
Undeleted == {changes.deleted[k] : k \in DOMAIN changes.deleted}

\* Mutant: an interrupted save neither commits nor rolls back.
CommitUnlessInterrupted ==
    /\ pc = "committing"
    /\ IF shouldBreak THEN UNCHANGED <<dbVars, ids>> ELSE commit /\ ids' = IdsAfterCommit
    /\ SaveReturns(TRUE)
    /\ UNCHANGED <<fsVars, flagVars, settings, storing, onChanged, events, roots, initial,
                   todo, dirId, entries, oldRecords, part, histVars, boundVars>>

\* Mutant: an interrupted save returns false.
CommitReturningCompleted ==
    /\ pc = "committing"
    /\ commit
    /\ ids' = IdsAfterCommit
    /\ SaveReturns(~shouldBreak)
    /\ UNCHANGED <<fsVars, flagVars, settings, storing, onChanged, events, roots, initial,
                   todo, dirId, entries, oldRecords, part, histVars, boundVars>>

Commit ==
    /\ pc = "committing"
    /\ commit
    /\ ids' = IdsAfterCommit
    /\ dropped' = (dropped \cup Undeleted) \cap DOMAIN files
    /\ SaveReturns(TRUE)
    /\ UNCHANGED <<fsVars, flagVars, settings, storing, onChanged, events, roots, initial,
                   todo, dirId, entries, oldRecords, part, cutShort, boundVars>>

\* COMMIT fails; commit() only says so.  Depending on the error SQLite has
\* undone the transaction or left it open.
CommitFails ==
    /\ pc = "committing"
    /\ StepFails("commit") /\ faults < MaxFaults /\ faults' = faults + 1
    /\ Undo \/ UNCHANGED tableVars
    /\ SaveReturns(TRUE)
    /\ UNCHANGED <<fsVars, flagVars, guiVars, events, roots, initial, todo, dirId, entries,
                   oldRecords, part, histVars, requests>>

\* commit() throws from the destructor of save's scope guard: whether that ends
\* the process depends on how Boost declares it.
CommitThrows ==
    /\ pc = "committing"
    /\ GetThrows("commit")
    /\ SaveThrows \/ Terminates
    /\ UNCHANGED <<tableVars, fsVars, flagVars, guiVars, events, roots, initial, todo, dirId,
                   entries, oldRecords, part, histVars, boundVars>>

-----------------------------------------------------------------------------
(* operator(): the rest of the loop. *)

\* activeFiles_->onChanged = bind(...), after the initial scan.
Hook ==
    /\ pc = "hook"
    /\ onChanged' = TRUE
    /\ pc' = "scanDirs"
    /\ UNCHANGED <<dbVars, fsVars, flagVars, settings, storing, ids, events, scanVars,
                   histVars, boundVars>>

\* Mutant: restart_ is reset with continue_.
PauseForgettingRestart ==
    /\ pc = "pause"
    /\ continue_' = FALSE /\ restart_' = FALSE
    /\ pc' = "loop"
    /\ UNCHANGED <<dbVars, fsVars, stop_, guiVars, events, scanVars, histVars, boundVars>>

\* The wait on cond_ or the yield, and continue_ = false.  How long the thread
\* waits is left open.
Pause ==
    /\ pc = "pause"
    /\ continue_' = FALSE
    /\ pc' = "loop"
    /\ UNCHANGED <<dbVars, fsVars, stop_, restart_, guiVars, events, scanVars, histVars,
                   boundVars>>

ScanStep ==
    \/ LoopHead \/ ReadSettings \/ ClearRestart \/ Unhook \/ ClearContinue
    \/ ScanRoots \/ ScanEntry \/ EntryDone \/ IterationFails \/ Missing
    \/ ScanDirs \/ ScanDirsDone \/ CheckDir \/ OpenDir \/ QueryFails
    \/ Save \/ BeginFails \/ SaveAdded \/ SaveChanged \/ SaveDeleted \/ StatementFails
    \/ Commit \/ CommitFails \/ CommitThrows \/ Hook \/ Pause

-----------------------------------------------------------------------------
(* Calls from the GUI thread.  It makes no other call within storeSettings, *)
(* nor while it waits for this thread in ~ScanThread.                       *)

Alive == pc # "terminated"

GuiIsFree == Alive /\ ~storing /\ ~stop_

Request == GuiIsFree /\ requests < MaxRequests /\ requests' = requests + 1

\* onActiveFilesChanged(false), if it is bound and the expanded rows change.
NotifyContinue == continue_' = (continue_ \/ (onChanged /\ ids' # ids))

\* MainWidget::onRowExpanded, for a row the widget shows.
RowExpanded(id) ==
    /\ Request
    /\ ids' = ids \cup {id}
    /\ NotifyContinue
    /\ UNCHANGED <<dbVars, fsVars, stop_, restart_, settings, storing, onChanged, events,
                   pc, scanVars, histVars, faults>>

\* MainWidget::onRowCollapsed: the rows below it are no longer expanded either.
RowsCollapsed(gone) ==
    /\ Request
    /\ ids' = ids \ gone
    /\ NotifyContinue
    /\ UNCHANGED <<dbVars, fsVars, stop_, restart_, settings, storing, onChanged, events,
                   pc, scanVars, histVars, faults>>

\* Without the widget, the rows are taken to be those of the committed table.
onRowExpanded(id) ==
    /\ id \in dirs(committed) \ ids
    /\ Expandable(committed, id, ids)
    /\ RowExpanded(id)

onRowCollapsed(id) ==
    /\ id \in ids \cap DOMAIN committed
    /\ RowsCollapsed(Cascade(committed, id))

\* MainWidget::onPreDeleteRow, when the widget gets to a DELETED event.
ForgetRow(id) ==
    /\ GuiIsFree
    /\ id \in ids \ DOMAIN committed
    /\ ids' = ids \ {id}
    /\ UNCHANGED <<dbVars, fsVars, flagVars, settings, storing, onChanged, events, pc,
                   scanVars, histVars, boundVars>>

\* MainWidget::onRefresh
onRefresh ==
    /\ Request
    /\ onChanged
    /\ restart_' = TRUE
    /\ UNCHANGED <<dbVars, fsVars, stop_, continue_, guiVars, events, pc, scanVars,
                   histVars, faults>>

\* Plugin::storeSettings: the new settings, and then ScanThread::restart().
storeSettings(s) ==
    /\ Request
    /\ settings' = s
    /\ storing' = TRUE
    /\ UNCHANGED <<dbVars, fsVars, flagVars, ids, onChanged, events, pc, scanVars,
                   histVars, faults>>

restart ==
    /\ Alive /\ storing
    /\ storing' = FALSE
    /\ restart_' = TRUE
    /\ UNCHANGED <<dbVars, fsVars, stop_, continue_, settings, ids, onChanged, events, pc,
                   scanVars, histVars, boundVars>>

\* ~ScanThread
Stop ==
    /\ Request
    /\ stop_' = TRUE
    /\ UNCHANGED <<dbVars, fsVars, restart_, continue_, guiVars, events, pc, scanVars,
                   histVars, faults>>

\* The calls that are not about rows.
UserStep ==
    \/ onRefresh
    \/ \E s \in SettingsValues : storeSettings(s)
    \/ restart
    \/ Stop

GuiStep ==
    \/ \E id \in dirs(committed) : onRowExpanded(id)
    \/ \E id \in ids : onRowCollapsed(id) \/ ForgetRow(id)
    \/ UserStep

DiskStep ==
    /\ FsNext
    /\ UNCHANGED <<dbVars, flagVars, guiVars, events, pc, scanVars, histVars, boundVars>>

Next == ScanStep \/ GuiStep \/ DiskStep

Spec == Init /\ [][Next]_vars

FairSpec == Spec /\ WF_vars(ScanStep) /\ WF_vars(restart)

=============================================================================
