--------------------------- MODULE LibraryProofs ---------------------------
(***************************************************************************)
(* Proofs that the records of a directory are those of its entries once    *)
(* the directory's own record is up to date.                               *)
(***************************************************************************)
EXTENDS CourseProofs, FileSystemProofs

-----------------------------------------------------------------------------
(* The steps, by what is new after them. *)

\* Nothing is written, and nothing is noted that was not noted before.
NothingNew ==
    /\ UNCHANGED <<files, committed>>
    /\ Added(part)' \cup Added(changes)' \subseteq Added(part) \cup Added(changes)
    /\ Changed(part)' \cup Changed(changes)' \subseteq Changed(part) \cup Changed(changes)

\* Entry p has no record yet, or the record r, which is out of date.
NotesNew(p) ==
    /\ Adds(p)
    /\ Added(part)' \cup Added(changes)' = Added(part) \cup Added(changes) \cup {InfoOf(p)}
    /\ Changed(part)' \cup Changed(changes)' = Changed(part) \cup Changed(changes)

NotesOld(p, r) ==
    /\ Finds(p, r) /\ ~Scans(p)
    /\ Added(part)' \cup Added(changes)' = Added(part) \cup Added(changes)
    /\ Changed(part)' \cup Changed(changes)'
           = Changed(part) \cup Changed(changes) \cup {<<r[1], InfoOf(p)>>}

LEMMA NewThings ==
    ASSUME WorkInv, [Next]_vars
    PROVE  \/ NothingNew
           \/ /\ pc = "entry" /\ UNCHANGED <<files, committed, fsVars>>
              /\ \E p \in entries : /\ p \in Paths
                                    /\ NotesNew(p) \/ \E r \in EqualRange(p) : NotesOld(p, r)
           \/ CheckDir /\ RenewsDir(Min(todo))
           \/ SaveStep /\ (Inserts \/ Updates \/ Deletes \/ Ends)
<1>0. TypeOK /\ Course /\ TransactionInv /\ RootedInv
  BY DEF WorkInv, CourseInv, RootedInv
<1>a. pc = "openDir" => dirId # ROOT_RECORD_ID
  BY <1>0 DEF Course
<1>b. ASSUME part' \in {part, NoChanges}, changes' \in {changes, NoChanges},
             UNCHANGED <<files, committed>>
      PROVE  NothingNew
  <2>1. /\ Added(part)' \subseteq Added(part) /\ Changed(part)' \subseteq Changed(part)
        /\ Added(changes)' \subseteq Added(changes) /\ Changed(changes)' \subseteq Changed(changes)
    BY <1>b, NothingNoted DEF Added, Changed
  <2> QED
    BY <1>b, <2>1 DEF NothingNew
<1>1. CASE RestStep
  BY <1>1, <1>b, RestEffect
<1>2. CASE ClearContinue \/ ScanDirs \/ ScanDirsDone
  BY <1>2, <1>b DEF ClearContinue, ScanDirs, ScanDirsDone, dbVars, tableVars
<1>3. CASE CheckDir
  <2>1. UNCHANGED <<files, committed>>
    BY <1>0, <1>3, CheckDirEffect
  <2>2. CASE SkipsDir(Min(todo))
    BY <1>b, <2>1, <2>2 DEF SkipsDir
  <2>3. CASE DropsDir(Min(todo))
    BY <2>1, <2>3 DEF DropsDir, NothingNew, Added, Changed
  <2> QED
    BY <1>0, <1>3, <2>2, <2>3, CheckDirNotes
<1>4. CASE ScanEntry
  <2>1. UNCHANGED <<files, committed, changes, fsVars>> /\ pc = "entry"
        /\ Added(changes)' = Added(changes) /\ Changed(changes)' = Changed(changes)
    BY <1>0, <1>4, ScanEntryEffect DEF Added, Changed
  <2>2. PICK p \in entries : p \in Paths /\ (\/ Passes(p) \/ Spares(p) \/ Adds(p)
                                             \/ \E r \in EqualRange(p) : Finds(p, r))
    BY <1>0, <1>4, ScanEntryEffect
  <2>3. CASE Passes(p) \/ Spares(p)
    BY <1>b, <2>1, <2>3 DEF Passes, Spares, EntryUnreadable
  <2>4. CASE Adds(p)
    BY <2>1, <2>2, <2>4 DEF NotesNew, Adds
  <2>5. ASSUME NEW r \in EqualRange(p), Finds(p, r)
        PROVE  NothingNew \/ NotesOld(p, r)
    <3>1. CASE part' = part
      BY <1>b, <2>1, <3>1
    <3>2. CASE ~Scans(p) /\ Changed(part)' = Changed(part) \cup {<<r[1], InfoOf(p)>>}
      <4>1. Added(part)' = Added(part)
        BY <2>5 DEF Finds, Added
      <4> QED
        BY <2>1, <2>5, <3>2, <4>1 DEF NotesOld
    <3> QED
      BY <2>5, <3>1, <3>2 DEF Finds
  <2> QED
    BY <2>1, <2>2, <2>3, <2>4, <2>5
<1>5. CASE (Enters \/ Leaves \/ GivesUp \/ GoesOn \/ NotesMissing) /\ UNCHANGED <<files, committed>>
  <2>1. CASE Leaves
    BY <1>0, <1>5, <2>1, LeavesEffect DEF NothingNew
  <2>2. CASE NotesMissing
    BY <1>0, <1>5, <2>2, NotesMissingEffect DEF NotesMissing, NothingNew, Added, Changed
  <2>3. CASE Enters \/ GivesUp \/ GoesOn
    BY <1>5, <1>b, <2>3 DEF Enters, GivesUp, GoesOn
  <2> QED
    BY <1>5, <2>1, <2>2, <2>3
<1>6. CASE SaveStep
  <2>1. CASE Begins \/ PhaseEnds
    BY <1>6, <1>b, <2>1 DEF SaveStep, Begins, PhaseEnds
  <2> QED
    BY <1>6, <2>1 DEF SaveStep
<1>7. CASE OutsideStep
  BY <1>7, <1>b, OutsideLeavesScan DEF OutsideStep
<1> QED
  BY <1>0, <1>a, <1>1, <1>2, <1>3, <1>4, <1>5, <1>6, <1>7, StepKinds

\* The thread and the widget only look at the file system.
LEMMA OthersLeaveDisk ==
    ASSUME [Next]_vars
    PROVE  UNCHANGED fsVars \/ DiskStep
<1>1. CASE ScanStep
  BY <1>1 DEF ScanStep, LoopHead, ReadSettings, ClearRestart, Unhook, ClearContinue, ScanRoots,
              ScanEntry, EntryDone, IterationFails, Missing, ScanDirs, ScanDirsDone, CheckDir,
              OpenDir, QueryFails, Save, BeginFails, SaveAdded, SaveChanged, SaveDeleted,
              StatementFails, Commit, CommitFails, CommitThrows, Hook, Pause
<1>2. CASE GuiStep
  BY <1>2 DEF GuiStep, UserStep, onRowExpanded, onRowCollapsed, RowExpanded, RowsCollapsed,
              ForgetRow, onRefresh, storeSettings, restart, Stop
<1>3. CASE UNCHANGED vars
  BY <1>3 DEF vars
<1> QED
  BY <1>1, <1>2, <1>3 DEF Next

LEMMA DiskStepEffect ==
    ASSUME DiskStep
    PROVE  /\ FsNext
           /\ UNCHANGED <<files, committed, inTx, pc, part, changes, initial, todo, dirId, entries,
                          oldRecords, dropped, ids, flagVars>>
  BY DEF DiskStep, dbVars, tableVars, scanVars, guiVars, histVars

\* What was not interrupted after a step was not before it, in the middle of a scan.
LEMMA NotInterrupted ==
    ASSUME TypeOK, [Next]_vars, InWork, ~shouldBreak'
    PROVE  ~shouldBreak
  BY FlagsStaySet DEF InWork, InScan, InRounds, InSave

-----------------------------------------------------------------------------
(* Records of directories. *)

\* Whether the record of a directory is up to date does not depend on the record alone,
\* but no change makes one so that was not.
LEMMA CurrentBefore ==
    ASSUME TypeOK, UNCHANGED fsVars \/ DiskStep,
           NEW info \in FileInfo, info.lastWriteTime <= clock, Current(info)'
    PROVE  /\ Current(info)
           /\ \A q \in Paths : Up[q] = info.fileName => disk'[q].kind = disk[q].kind
<1>1. CASE UNCHANGED fsVars
  BY <1>1 DEF fsVars, Current, is_directory
<1>2. CASE DiskStep
  <2>1. FsNext /\ FsTypeOK /\ info.fileName \in Paths
    BY <1>2 DEF DiskStep, TypeOK, FileInfo
  <2>2. is_directory(info.fileName)' /\ disk'[info.fileName].mtime <= clock
    BY DEF Current
  <2> QED
    BY <2>1, <2>2, DirectoryKept DEF Current
<1> QED
  BY <1>1, <1>2

\* What has been noted of directories and songs has their types.
LEMMA NotedOfTypes ==
    ASSUME TypeOK
    PROVE  /\ Added(part) \cup Added(changes) \subseteq FileInfo
           /\ Changed(part) \cup Changed(changes) \subseteq FileRecord
           /\ \A i \in DOMAIN files : files[i] \in FileInfo /\ i \in RecordID
           /\ \A i \in DOMAIN committed : committed[i] \in FileInfo /\ i \in RecordID
<1>1. part \in ChangesOver(FileRecord, FileInfo) /\ changes \in ChangesOver(FileRecord, FileInfo)
  BY ChangesIsOver DEF TypeOK
<1> QED
  BY <1>1, NotedTypes DEF TypeOK, IsTable

\* What scanEntry finds to have changed is a song, and so is what its record is of.
LEMMA ChangedIsSong ==
    ASSUME WellNamed, TypeOK, Kinds, RootedInv, pc = "entry",
           NEW p \in Paths, NEW r \in EqualRange(p), NotesOld(p, r)
    PROVE  /\ ~InfoOf(p).isDir
           /\ r[1] \in DOMAIN files /\ r = <<r[1], files[r[1]]>>
           /\ files[r[1]].parentID = dirId /\ files[r[1]].fileName = p /\ ~files[r[1]].isDir
<1>1. p \in Supported /\ ~is_directory(p)
  BY DEF NotesOld, Finds, Takes, Kinds, WellNamed
<1>2. r \in childrenFiles(files, dirId) /\ r[2].fileName = p
  BY DEF RootedInv, ChangesApply, InScanDir, EqualRange
<1>3. /\ r[1] \in DOMAIN files /\ r = <<r[1], files[r[1]]>>
      /\ files[r[1]].parentID = dirId /\ files[r[1]].fileName = p
  BY <1>2 DEF childrenFiles
<1> QED
  BY <1>1, <1>3, InfoOfType DEF Kinds

LEMMA KindsStep ==
    ASSUME WellNamed, WorkInv, Kinds, [Next]_vars
    PROVE  Kinds'
<1>0. TypeOK /\ RootedInv /\ NamesKept
  BY DEF WorkInv, CourseInv, RootedInv
<1> DEFINE
      OnDisk == \A p \in Paths : is_directory(p) => p \in MayBeDir
      InTable(db) == \A i \in DOMAIN db : db[i].isDir => db[i].fileName \notin Supported
      Additions == \A a \in Added(part) \cup Added(changes) :
                      a.isDir => a.fileName \notin Supported /\ a.lastWriteTime = 0
      Replacements == \A rec \in Changed(part) \cup Changed(changes) :
                          rec[1] \in DOMAIN files => files[rec[1]].isDir = rec[2].isDir
<1>1. OnDisk /\ InTable(files) /\ InTable(committed) /\ Additions /\ Replacements
  BY DEF Kinds
<1>2. OnDisk'
  <2>1. CASE UNCHANGED fsVars
    BY <1>1, <2>1 DEF fsVars, is_directory
  <2>2. CASE DiskStep
    BY <1>0, <1>1, <2>2, DirectoriesWhereTheyMayBe DEF DiskStep, TypeOK
  <2> QED
    BY <2>1, <2>2, OthersLeaveDisk
<1>b. ASSUME InTable(files)', InTable(committed)', Additions', Replacements' PROVE Kinds'
  BY <1>2, <1>b DEF Kinds
<1>3. CASE NothingNew
  BY <1>1, <1>3, <1>b DEF NothingNew
<1>4. CASE /\ pc = "entry" /\ UNCHANGED <<files, committed, fsVars>>
           /\ \E p \in entries : /\ p \in Paths
                                 /\ NotesNew(p) \/ \E r \in EqualRange(p) : NotesOld(p, r)
  <2>1. PICK p \in Paths : NotesNew(p) \/ \E r \in EqualRange(p) : NotesOld(p, r)
    BY <1>4
  <2>2. /\ InfoOf(p).fileName = p /\ InfoOf(p).isDir = is_directory(p)
        /\ InfoOf(p).lastWriteTime = IF Scans(p) THEN 0 ELSE disk[p].mtime
    BY <1>0, InfoOfType
  <2>3. CASE NotesNew(p)
    <3>1. InfoOf(p).isDir => p \notin Supported /\ InfoOf(p).lastWriteTime = 0
      BY <1>1, <2>2, <2>3 DEF NotesNew, Adds, Takes, WellNamed
    <3> QED
      BY <1>1, <1>4, <1>b, <2>2, <2>3, <3>1 DEF NotesNew
  <2>4. ASSUME NEW r \in EqualRange(p), NotesOld(p, r) PROVE Kinds'
    <3>1. files[r[1]].isDir = InfoOf(p).isDir
      BY <1>0, <1>4, <2>4, ChangedIsSong, NotedOfTypes, InfoOfType DEF FileInfo
    <3> QED
      BY <1>1, <1>4, <1>b, <2>4, <3>1 DEF NotesOld
  <2> QED
    BY <2>1, <2>3, <2>4
<1>5. CASE CheckDir /\ RenewsDir(Min(todo))
  <2> DEFINE id == Min(todo)
             new == [files[id] EXCEPT !.lastWriteTime = disk[files[id].fileName].mtime]
  <2>1. /\ UNCHANGED <<files, committed>> /\ id \in DOMAIN files
        /\ Changed(part)' = {<<id, new>>} /\ Added(part)' = {}
        /\ Changed(changes)' = Changed(changes) /\ Added(changes)' = Added(changes)
    BY <1>0, <1>5, CheckDirEffect DEF RenewsDir, Changed, Added
  <2>2. new.isDir = files[id].isDir
    BY <1>0, <2>1 DEF TypeOK, IsTable, FileInfo
  <2> HIDE DEF new
  <2>3. Additions' /\ Replacements'
    BY <1>1, <2>1, <2>2
  <2> QED
    BY <1>1, <1>b, <2>1, <2>3
<1>6. CASE SaveStep /\ (Inserts \/ Updates \/ Deletes \/ Ends)
  <2>1. Added(part)' = {} /\ Changed(part)' = {}
    BY <1>6, NothingNoted DEF SaveStep, Added, Changed
  <2>2. CASE Inserts
    <3>1. Changed(changes) \subseteq Replacing(files)
      BY <1>0, <2>2, NotedTypes DEF Inserts, RootedInv, ChangesApply, Applicable
    <3>2. \A rec \in Changed(changes) : rec[1] \in DOMAIN files
      BY <3>1 DEF Replacing
    <3>3. committed' = committed
      BY <2>2 DEF Inserts
    <3> QED
      BY <1>0, <1>1, <1>b, <2>1, <2>2, <3>2, <3>3, InsertsEffect, RowsAfterInsert
  <2>3. CASE Updates
    <3> DEFINE rec == Head(changes.changed)
    <3>1. rec \in Changed(changes) /\ committed' = committed
          /\ Changed(changes)' \subseteq Changed(changes) /\ Added(changes)' = Added(changes)
      BY <1>0, <2>3, UpdatesEffect DEF Updates
    <3>2. rec[1] \in DOMAIN files
      BY <1>0, <2>3, <3>1, NotedTypes DEF Updates, RootedInv, ChangesApply, Applicable, Replacing
    <3>3. DOMAIN files' = DOMAIN files
          /\ \A i \in DOMAIN files : /\ files'[i].isDir = files[i].isDir
                                     /\ files'[i].fileName = files[i].fileName
      BY <1>0, <1>1, <2>3, <3>1, <3>2, RowsAfterUpdate DEF NamesKept
    <3> QED
      BY <1>1, <1>b, <2>1, <3>1, <3>3
  <2>4. CASE Deletes
    <3>1. committed' = committed
      BY <2>4 DEF Deletes
    <3> QED
      BY <1>0, <1>1, <1>b, <2>1, <2>4, <3>1, RowsAfterDelete, DeletesEffect
  <2>5. CASE Ends
    <3>1. Added(changes)' = {} /\ Changed(changes)' = {}
      BY <2>5, NothingNoted DEF Ends, Added, Changed
    <3>2. files' \in {files, committed} /\ committed' \in {files, committed}
      BY <2>5 DEF Ends, Undo, commit
    <3> QED
      BY <1>1, <1>b, <2>1, <3>1, <3>2
  <2> QED
    BY <1>6, <2>2, <2>3, <2>4, <2>5
<1> QED
  BY <1>3, <1>4, <1>5, <1>6, NewThings

LEMMA TimesStep ==
    ASSUME WorkInv, Times, [Next]_vars
    PROVE  Times'
<1>0. TypeOK /\ RootedInv
  BY DEF WorkInv, CourseInv, RootedInv
<1> DEFINE
      InTable(db) == \A i \in DOMAIN db : db[i].lastWriteTime <= clock
      Additions == \A a \in Added(part) \cup Added(changes) : a.lastWriteTime <= clock
      Replacements == \A rec \in Changed(part) \cup Changed(changes) : rec[2].lastWriteTime <= clock
<1>1. /\ WriteTimesPast /\ InTable(files) /\ InTable(committed) /\ Additions /\ Replacements
      /\ clock \in Nat
  BY <1>0, FileSystemAssumption DEF Times, WriteTimesPast, TypeOK, FsTypeOK
<1>2. WriteTimesPast' /\ clock <= clock' /\ clock' \in Nat
  <2>1. CASE UNCHANGED fsVars
    BY <1>1, <2>1 DEF fsVars, WriteTimesPast
  <2>2. CASE DiskStep
    <3>1. FsTypeOK /\ FsTypeOK' /\ FsNext
      BY <1>0, <2>2, TypeStep DEF TypeOK, DiskStep
    <3> QED
      BY <1>1, <3>1, WriteTimesStayPast, FileSystemAssumption DEF FsTypeOK
  <2> QED
    BY <2>1, <2>2, OthersLeaveDisk
<1>b. ASSUME InTable(files)', InTable(committed)', Additions', Replacements' PROVE Times'
  BY <1>2, <1>b DEF Times, WriteTimesPast
<1>3. CASE NothingNew
  <2>1. /\ \A a \in Added(part) \cup Added(changes) : a.lastWriteTime <= clock'
        /\ \A rec \in Changed(part) \cup Changed(changes) : rec[2].lastWriteTime <= clock'
        /\ \A i \in DOMAIN files : files[i].lastWriteTime <= clock'
        /\ \A i \in DOMAIN committed : committed[i].lastWriteTime <= clock'
    BY <1>0, <1>1, <1>2, NotedOfTypes DEF FileInfo, FileRecord
  <2> QED
    BY <1>3, <1>b, <2>1 DEF NothingNew
<1>4. CASE /\ pc = "entry" /\ UNCHANGED <<files, committed, fsVars>>
           /\ \E p \in entries : /\ p \in Paths
                                 /\ NotesNew(p) \/ \E r \in EqualRange(p) : NotesOld(p, r)
  <2>1. PICK p \in Paths : NotesNew(p) \/ \E r \in EqualRange(p) : NotesOld(p, r)
    BY <1>4
  <2>2. InfoOf(p).lastWriteTime <= clock /\ clock' = clock
    BY <1>0, <1>1, <1>4, InfoOfType DEF WriteTimesPast, fsVars
  <2> QED
    BY <1>1, <1>4, <1>b, <2>1, <2>2 DEF NotesNew, NotesOld
<1>5. CASE CheckDir /\ RenewsDir(Min(todo))
  <2> DEFINE id == Min(todo)
             new == [files[id] EXCEPT !.lastWriteTime = disk[files[id].fileName].mtime]
  <2>1. /\ UNCHANGED <<files, committed, fsVars>> /\ id \in DOMAIN files
        /\ Changed(part)' = {<<id, new>>} /\ Added(part)' = {}
        /\ Changed(changes)' = Changed(changes) /\ Added(changes)' = Added(changes)
    BY <1>0, <1>5, CheckDirEffect DEF RenewsDir, Changed, Added
  <2>2. new.lastWriteTime <= clock /\ clock' = clock
    BY <1>0, <1>1, <2>1 DEF TypeOK, IsTable, FileInfo, WriteTimesPast, fsVars
  <2> HIDE DEF new
  <2>3. Additions' /\ Replacements'
    BY <1>1, <2>1, <2>2
  <2> QED
    BY <1>1, <1>b, <2>1, <2>2, <2>3
<1>6. CASE SaveStep /\ (Inserts \/ Updates \/ Deletes \/ Ends)
  <2>1. Added(part)' = {} /\ Changed(part)' = {} /\ clock' = clock
    BY <1>6, NothingNoted DEF SaveStep, Added, Changed, fsVars
  <2>2. CASE Inserts
    <3>1. committed' = committed
      BY <2>2 DEF Inserts
    <3> QED
      BY <1>0, <1>1, <1>b, <2>1, <2>2, <3>1, InsertsEffect, RowsAfterInsert
  <2>3. CASE Updates
    <3> DEFINE rec == Head(changes.changed)
    <3>1. rec \in Changed(changes) /\ committed' = committed
          /\ Changed(changes)' \subseteq Changed(changes) /\ Added(changes)' = Added(changes)
      BY <1>0, <2>3, UpdatesEffect DEF Updates
    <3>2. rec[1] \in DOMAIN files
      BY <1>0, <2>3, <3>1, NotedTypes DEF Updates, RootedInv, ChangesApply, Applicable, Replacing
    <3>3. InTable(files)'
      BY <1>0, <1>1, <2>1, <2>3, <3>1, <3>2, RowsAfterUpdate
    <3> QED
      BY <1>1, <1>b, <2>1, <3>1, <3>3
  <2>4. CASE Deletes
    <3>1. committed' = committed
      BY <2>4 DEF Deletes
    <3> QED
      BY <1>0, <1>1, <1>b, <2>1, <2>4, <3>1, RowsAfterDelete, DeletesEffect
  <2>5. CASE Ends
    <3>1. Added(changes)' = {} /\ Changed(changes)' = {}
      BY <2>5, NothingNoted DEF Ends, Added, Changed
    <3>2. files' \in {files, committed} /\ committed' \in {files, committed}
      BY <2>5 DEF Ends, Undo, commit
    <3> QED
      BY <1>1, <1>b, <2>1, <3>1, <3>2
  <2> QED
    BY <1>6, <2>2, <2>3, <2>4, <2>5
<1> QED
  BY <1>3, <1>4, <1>5, <1>6, NewThings

LEMMA ScannedOnceStep ==
    ASSUME WellNamed, WorkInv, DirectoriesInv, [Next]_vars
    PROVE  ScannedOnce'
<1> USE DEF InScanDir, InRounds
<1>0. /\ TypeOK /\ RootedInv /\ TransactionInv /\ Course /\ Kinds /\ Times
  BY DEF WorkInv, CourseInv, RootedInv, DirectoriesInv
<1>a. pc = "openDir" => dirId # ROOT_RECORD_ID
  BY <1>0 DEF Course
<1>m. ROOT_RECORD_ID \notin DOMAIN files
  BY <1>0 DEF TypeOK, IsTable, RecordID, ROOT_RECORD_ID
<1> DEFINE
      PartOnce == \A rec \in Changed(part) : rec[2].isDir => rec[1] = dirId
      Outdated == dirId \in DOMAIN files => ~Current(files[dirId])
      NotAgain == \A rec \in Changed(changes) : rec[2].isDir => rec[1] \notin todo
      NotNow == \A rec \in Changed(changes) : rec[2].isDir => rec[1] # dirId
<1>s. ScannedOnce <=> /\ InScanDir => PartOnce /\ Outdated /\ NotNow
                      /\ InRounds => NotAgain
  BY DEF ScannedOnce, DirectoriesInv
<1>t. /\ InScanDir => PartOnce /\ Outdated /\ NotNow
      /\ InRounds => NotAgain
  BY <1>s DEF DirectoriesInv
<1>b. ASSUME InScanDir' => (PartOnce /\ Outdated /\ NotNow)', InRounds' => NotAgain'
      PROVE  ScannedOnce'
  BY <1>b DEF ScannedOnce
<1> HIDE DEF PartOnce, Outdated, NotAgain, NotNow
<1>1. CASE RestStep \/ ClearContinue \/ ScanDirsDone \/ SaveStep
  BY <1>0, <1>1, <1>b, RestEffect DEF ClearContinue, ScanDirsDone, SaveStep, InWork, InScan
<1>2. CASE ScanDirs
  <2>1. Changed(changes)' = {} /\ pc' = "checkDir"
    BY <1>2, NothingNoted DEF ScanDirs, Changed
  <2> QED
    BY <1>b, <2>1 DEF NotAgain
<1>3. CASE CheckDir
  <2> DEFINE id == Min(todo)
  <2>1. /\ pc = "checkDir" /\ id \in todo /\ todo' = todo \ {id} /\ dirId' = id
        /\ UNCHANGED <<files, fsVars>>
    BY <1>0, <1>3, CheckDirEffect
  <2>2. Changed(changes)' = Changed(changes) /\ (pc' = "checkDir" \/ (pc' = "openDir" /\ RenewsDir(id)))
    BY <1>0, <1>3, <2>1, CheckDirNotes DEF SkipsDir, DropsDir, RenewsDir, Changed
  <2>3. NotAgain' /\ NotNow'
    BY <1>t, <2>1, <2>2 DEF NotAgain, NotNow
  <2>4. CASE RenewsDir(id)
    <3>1. PartOnce'
      BY <2>1, <2>4 DEF RenewsDir, PartOnce
    <3>2. Outdated'
      BY <2>1, <2>4 DEF RenewsDir, Outdated, Current, fsVars
    <3> QED
      BY <1>b, <2>3, <3>1, <3>2
  <2> QED
    BY <1>b, <2>2, <2>3, <2>4
<1>4. CASE ScanEntry
  <2>1. /\ UNCHANGED <<files, fsVars, dirId, todo>> /\ pc = "entry"
        /\ Changed(changes)' = Changed(changes)
    BY <1>0, <1>4, ScanEntryEffect DEF Changed
  <2>2. Outdated' /\ NotNow' /\ NotAgain'
    BY <1>t, <2>1 DEF Outdated, NotNow, NotAgain, Current, is_directory, fsVars
  <2>3. PICK p \in entries : p \in Paths /\ (\/ Passes(p) \/ Spares(p) \/ Adds(p)
                                             \/ \E r \in EqualRange(p) : Finds(p, r))
    BY <1>0, <1>4, ScanEntryEffect
  <2>4. \/ Changed(part)' = Changed(part)
        \/ ~Scans(p) /\ p \in Supported /\ \E r : Changed(part)' = Changed(part) \cup {<<r, InfoOf(p)>>}
    BY <2>3 DEF Passes, Spares, EntryUnreadable, Adds, Finds, Takes, Changed
  <2>5. p \in Supported => ~InfoOf(p).isDir
    BY <1>0, <2>3, InfoOfType DEF WellNamed, Kinds
  <2>6. PartOnce'
    BY <1>t, <2>1, <2>4, <2>5 DEF PartOnce
  <2> QED
    BY <1>b, <2>2, <2>6
<1>5. CASE Enters /\ UNCHANGED <<files, fsVars>>
  <2>1. UNCHANGED <<part, changes, todo>> /\ (pc = "openDir" => dirId' = dirId)
        /\ (pc = "scanRoots" => dirId' = ROOT_RECORD_ID) /\ pc \in {"scanRoots", "openDir"}
    BY <1>5 DEF Enters
  <2>2. pc = "scanRoots" => Changed(part) = {} /\ Changed(changes) = {}
    BY <1>0, NothingNoted DEF Course, RootedInv, ChangesApply
  <2>3. PartOnce' /\ NotNow' /\ NotAgain'
    BY <1>t, <2>1, <2>2 DEF PartOnce, NotNow, NotAgain, Changed
  <2>4. Outdated'
    BY <1>5, <1>m, <1>t, <2>1 DEF Outdated, Current, is_directory, fsVars
  <2> QED
    BY <1>b, <2>3, <2>4
<1>6. CASE Leaves
  <2>1. Changed(changes)' = Changed(changes) \cup Changed(part) /\ pc' \in {"save", "checkDir"}
        /\ todo' = todo
    BY <1>0, <1>6, LeavesEffect DEF Leaves
  <2>2. pc' = "checkDir" => InScanDir
    BY <1>0, <1>6 DEF Leaves, Course
  <2>3. InScanDir => dirId \notin todo
    BY <1>0 DEF Course
  <2>4. InScanDir => NotAgain'
    BY <1>t, <2>1, <2>3 DEF NotAgain, PartOnce
  <2> QED
    BY <1>b, <2>1, <2>2, <2>4
<1>7. CASE GivesUp
  <2>1. UNCHANGED <<changes, todo>> /\ (pc' = "checkDir" => InScanDir) /\ ~InScanDir'
    BY <1>7 DEF GivesUp
  <2>2. NotAgain => NotAgain'
    BY <2>1 DEF NotAgain, Changed
  <2> QED
    BY <1>b, <1>t, <1>7, <2>1, <2>2 DEF GivesUp
<1>8. CASE (GoesOn \/ NotesMissing) /\ UNCHANGED <<files, fsVars>>
  <2>1. UNCHANGED <<files, fsVars, dirId, todo>> /\ Changed(changes)' = Changed(changes)
        /\ Changed(part)' = Changed(part) /\ InScanDir
    BY <1>0, <1>8, NotesMissingEffect DEF GoesOn, NotesMissing, Changed
  <2>2. (PartOnce /\ Outdated /\ NotNow /\ NotAgain)'
    BY <1>t, <2>1 DEF PartOnce, Outdated, NotNow, NotAgain, Current, is_directory, fsVars
  <2> QED
    BY <1>b, <2>2
<1>9. CASE OutsideStep
  <2>1. UNCHANGED <<files, pc, part, changes, dirId, todo>>
    BY <1>9, OutsideLeavesScan DEF OutsideStep
  <2>2. (PartOnce => PartOnce') /\ (NotNow => NotNow') /\ (NotAgain => NotAgain')
    BY <2>1 DEF PartOnce, NotNow, NotAgain, Changed
  <2>3. Outdated => Outdated'
    <3>1. ASSUME dirId \in DOMAIN files PROVE Current(files[dirId])' => Current(files[dirId])
      <4>1. files[dirId] \in FileInfo /\ files[dirId].lastWriteTime <= clock
        BY <1>0, <3>1, NotedOfTypes DEF Times
      <4>2. ASSUME NEW info \in FileInfo, info.lastWriteTime <= clock, Current(info)'
            PROVE  Current(info)
        BY <1>0, <4>2, CurrentBefore, OthersLeaveDisk
      <4>3. files'[dirId'] = files[dirId]
        BY <2>1
      <4> QED
        BY <4>1, <4>2, <4>3 DEF Current, is_directory
    <3> QED
      BY <2>1, <3>1 DEF Outdated
  <2> QED
    BY <1>b, <1>t, <2>1, <2>2, <2>3
<1> QED
  BY <1>0, <1>a, <1>1, <1>2, <1>3, <1>4, <1>5, <1>6, <1>7, <1>8, <1>9, StepKinds

-----------------------------------------------------------------------------
(* Deletions, and what an idle scan looks at. *)

\* A row goes with its parent or for its own sake.
LEMMA CascadeGoesDown ==
    ASSUME NEW db, NEW id \in DOMAIN db, NEW i \in Cascade(db, id), i # id
    PROVE  db[i].parentID \in Cascade(db, id)
<1> DEFINE C == Cascade(db, id)
<1> SUFFICES ASSUME db[i].parentID \notin C PROVE FALSE
  OBVIOUS
<1>1. id \in C /\ C \subseteq DOMAIN db /\ i \in C
  BY DEF Cascade
<1>2. ClosedUnderChildren(db, C)
  BY DEF Cascade, ClosedUnderChildren
<1>3. \A S \in SUBSET DOMAIN db : id \in S /\ ClosedUnderChildren(db, S) => i \in S
  BY DEF Cascade
<1> HIDE DEF C
<1>4. C \ {i} \in SUBSET DOMAIN db /\ id \in C \ {i} /\ ClosedUnderChildren(db, C \ {i})
  BY <1>1, <1>2 DEF ClosedUnderChildren
<1> QED
  BY <1>3, <1>4

\* A row whose parent stays goes only if it is the one to be deleted.
LEMMA DeletedWithParent ==
    ASSUME TypeOK, Deletes, NEW j \in DOMAIN files, j # Head(changes.deleted),
           files[j].parentID \in DOMAIN files'
    PROVE  j \in DOMAIN files'
<1> DEFINE d == Head(changes.deleted)
<1>1. CASE d \in DOMAIN files
  <2>1. DOMAIN files' = DOMAIN files \ Cascade(files, d)
    BY <1>1 DEF Deletes, DeleteRow
  <2> QED
    BY <1>1, <2>1, CascadeGoesDown
<1>2. CASE d \notin DOMAIN files
  BY <1>2 DEF Deletes, DeleteRow
<1> QED
  BY <1>1, <1>2

LEMMA DeletionsInOrderStep ==
    ASSUME WorkInv, DeletionsInOrder, [Next]_vars
    PROVE  DeletionsInOrder'
<1> USE DEF InScanDir, InRounds, InLoop
<1>0. /\ TypeOK /\ RootedInv /\ TransactionInv /\ Course /\ Stages /\ DeletionsKnown
      /\ ParentsAreOlder(files)
  BY DEF WorkInv, CourseInv, RootedInv, Rooted
<1>a. pc = "openDir" => dirId # ROOT_RECORD_ID
  BY <1>0 DEF Course
<1> DEFINE
      NotAgain == \A i \in Deleted(changes) : files[i].parentID \notin todo
      NotNow == \A i \in Deleted(changes) : files[i].parentID # dirId
      NotYet == \A r \in oldRecords : r[1] \notin Deleted(part)
<1>t. (InRounds => NotAgain) /\ (InScanDir => NotNow) /\ (InLoop => NotYet)
  BY DEF DeletionsInOrder
<1>b. ASSUME InRounds' => NotAgain', InScanDir' => NotNow', InLoop' => NotYet'
      PROVE  DeletionsInOrder'
  BY <1>b DEF DeletionsInOrder
<1> HIDE DEF NotAgain, NotNow, NotYet
<1>1. CASE RestStep \/ ClearContinue \/ ScanDirsDone \/ SaveStep
  BY <1>0, <1>1, <1>b, RestEffect DEF ClearContinue, ScanDirsDone, SaveStep, InWork, InScan
<1>2. CASE ScanDirs
  <2>1. Deleted(changes)' = {} /\ pc' = "checkDir"
    BY <1>2, NothingNoted DEF ScanDirs, Deleted
  <2> QED
    BY <1>b, <2>1 DEF NotAgain
<1>3. CASE CheckDir
  <2> DEFINE id == Min(todo)
  <2>1. /\ pc = "checkDir" /\ id \in todo /\ todo' = todo \ {id} /\ dirId' = id
        /\ files' = files /\ pc' \in {"checkDir", "openDir"}
    BY <1>0, <1>3, CheckDirEffect
  <2>2. CASE SkipsDir(id) \/ RenewsDir(id)
    <3>1. Deleted(changes)' = Deleted(changes)
      BY <2>2 DEF SkipsDir, RenewsDir, Deleted
    <3> QED
      BY <1>b, <1>t, <2>1, <3>1 DEF NotAgain, NotNow
  <2>3. CASE DropsDir(id)
    <3>1. Deleted(changes)' = Deleted(changes) \cup {id} /\ pc' = "checkDir" /\ id \in DOMAIN files
      BY <2>1, <2>3 DEF DropsDir
    <3>2. files[id].parentID \notin todo
      <4>1. files[id].parentID < id /\ files[id].parentID \in Nat /\ id \in Nat
        BY <1>0, <3>1 DEF ParentsAreOlder, TypeOK, IsTable, FileInfo, RecordID
      <4>2. todo \in SUBSET Nat /\ \A x \in todo : id <= x
        BY <1>0, <2>1, MinIsMember DEF TypeOK, RecordID
      <4> QED
        BY <4>1, <4>2
    <3> QED
      BY <1>b, <1>t, <2>1, <3>1, <3>2 DEF NotAgain
  <2> QED
    BY <1>0, <1>3, <2>2, <2>3, CheckDirNotes
<1>4. CASE ScanEntry
  <2>1. /\ UNCHANGED <<files, dirId, todo>> /\ pc = "entry"
        /\ Deleted(changes)' = Deleted(changes)
    BY <1>0, <1>4, ScanEntryEffect DEF Deleted
  <2>2. Deleted(part)' = Deleted(part) /\ oldRecords' \subseteq oldRecords
    BY <1>0, <1>4, ScanEntryEffect, EraseShrinks
       DEF Passes, Spares, EntryUnreadable, Adds, Finds, Deleted
  <2> QED
    BY <1>b, <1>t, <2>1, <2>2 DEF NotAgain, NotNow, NotYet
<1>5. CASE Enters /\ files' = files
  <2>1. UNCHANGED <<part, changes, todo>> /\ pc \in {"scanRoots", "openDir"}
        /\ (pc = "openDir" => dirId' = dirId)
    BY <1>5 DEF Enters
  <2>2. Deleted(part)' = {}
    BY <1>0, <2>1, NothingNoted DEF Stages, RootedInv, ChangesApply, Deleted
  <2>3. pc = "scanRoots" => Deleted(changes) = {}
    BY <1>0, NothingNoted DEF Course
  <2> QED
    BY <1>5, <1>b, <1>t, <2>1, <2>2, <2>3 DEF NotAgain, NotNow, NotYet, Deleted
<1>6. CASE Leaves /\ files' = files
  <2>1. Deleted(changes)' = Deleted(changes) \cup Deleted(part) /\ pc' \in {"save", "checkDir"}
        /\ todo' = todo
    BY <1>0, <1>6, LeavesEffect DEF Leaves
  <2>2. pc' = "checkDir" => InScanDir
    BY <1>0, <1>6 DEF Leaves, Course
  <2>3. InScanDir => dirId \notin todo /\ \A i \in Deleted(part) : files[i].parentID = dirId
    BY <1>0 DEF Course, DeletionsKnown, RowsBelow
  <2>4. InScanDir => NotAgain'
    BY <1>6, <1>t, <2>1, <2>3 DEF NotAgain
  <2> QED
    BY <1>b, <2>1, <2>2, <2>4
<1>7. CASE GivesUp /\ files' = files
  <2>1. UNCHANGED <<changes, todo>> /\ (pc' = "checkDir" => InScanDir) /\ ~InScanDir'
    BY <1>7 DEF GivesUp
  <2>2. NotAgain => NotAgain'
    BY <1>7, <2>1 DEF NotAgain, Deleted
  <2> QED
    BY <1>b, <1>t, <1>7, <2>1, <2>2 DEF GivesUp
<1>8. CASE GoesOn /\ files' = files
  BY <1>8, <1>b, <1>t DEF GoesOn, NotAgain, NotNow, NotYet, Deleted
<1>9. CASE NotesMissing /\ files' = files
  <2>1. PICK r \in oldRecords : /\ Deleted(part)' = Deleted(part) \cup {r[1]}
                                /\ oldRecords' = oldRecords \ {r}
    BY <1>0, <1>9, NotesMissingEffect
  <2>2. UNCHANGED <<todo, dirId>> /\ Deleted(changes)' = Deleted(changes) /\ pc = "missing"
    BY <1>9 DEF NotesMissing, Deleted
  <2>3. \A q \in oldRecords : q = <<q[1], files[q[1]]>>
    BY <1>0, <2>2 DEF RootedInv, ChangesApply, childrenFiles
  <2>4. NotYet'
    BY <1>t, <2>1, <2>2, <2>3 DEF NotYet
  <2> QED
    BY <1>9, <1>b, <1>t, <2>2, <2>4 DEF NotAgain, NotNow
<1>10. CASE OutsideStep
  BY <1>10, <1>b, <1>t, OutsideLeavesScan DEF OutsideStep, NotAgain, NotNow, NotYet, Deleted
<1> QED
  BY <1>0, <1>a, <1>1, <1>2, <1>3, <1>4, <1>5, <1>6, <1>7, <1>8, <1>9, <1>10, StepKinds

LEMMA OutsideIds ==
    ASSUME OutsideStep
    PROVE  ids' \subseteq ids \cup dirs(committed)
<1>1. CASE DiskStep \/ UNCHANGED vars
  BY <1>1 DEF DiskStep, vars, guiVars
<1>2. CASE GuiStep
  BY <1>2 DEF GuiStep, UserStep, onRowExpanded, onRowCollapsed, RowExpanded, RowsCollapsed,
              ForgetRow, onRefresh, storeSettings, restart, Stop, guiVars
<1> QED
  BY <1>1, <1>2 DEF OutsideStep

LEMMA ExpandedAreDirectoriesStep ==
    ASSUME PromptWidget, WellNamed, WorkInv, Kinds, ExpandedAreDirectories, [Next]_vars
    PROVE  ExpandedAreDirectories'
<1> USE DEF InRounds, dirs
<1>0. /\ TypeOK /\ RootedInv /\ TransactionInv /\ Course /\ Uncommitted
  BY DEF WorkInv, CourseInv, RootedInv
<1>a. pc = "openDir" => dirId # ROOT_RECORD_ID
  BY <1>0 DEF Course
<1>t. /\ ids \subseteq dirs(committed)
      /\ \A i \in DOMAIN files \cap DOMAIN committed : files[i].isDir = committed[i].isDir
      /\ pc \in {"adding", "changing"} => DOMAIN committed \subseteq DOMAIN files
      /\ InRounds /\ ~initial => todo \cap DOMAIN files \subseteq dirs(files)
  BY DEF ExpandedAreDirectories
<1>b. ASSUME UNCHANGED <<files, committed, ids>>, pc' \notin {"adding", "changing"},
             InRounds' /\ ~initial' => todo' \cap DOMAIN files \subseteq dirs(files)
      PROVE  ExpandedAreDirectories'
  BY <1>b, <1>t DEF ExpandedAreDirectories
<1>1. CASE RestStep \/ ClearContinue \/ ScanDirsDone
  BY <1>0, <1>1, <1>b, RestEffect
     DEF ClearContinue, ScanDirsDone, InWork, InScan, InSave, dbVars, tableVars, guiVars
<1>2. CASE ScanDirs
  <2>1. todo' = dirs(files) \/ todo' = ids
    BY <1>2 DEF ScanDirs
  <2>2. todo' \cap DOMAIN files \subseteq dirs(files)
    BY <1>t, <2>1
  <2> QED
    BY <1>2, <1>b, <2>2 DEF ScanDirs, dbVars, tableVars, guiVars
<1>3. CASE CheckDir
  BY <1>0, <1>3, <1>b, <1>t, CheckDirEffect
<1>4. CASE ScanEntry
  BY <1>0, <1>4, <1>b, <1>t, ScanEntryEffect DEF ScanEntry
<1>5. CASE (Enters \/ Leaves \/ GivesUp \/ GoesOn \/ NotesMissing) /\ UNCHANGED <<files, committed, ids>>
  <2>1. CASE Enters
    BY <1>0, <1>5, <1>b, <1>t, <2>1 DEF Enters, Course
  <2>2. CASE Leaves \/ GivesUp
    BY <1>0, <1>5, <1>b, <1>t, <2>2 DEF Leaves, GivesUp, Course, InScanDir
  <2>3. CASE GoesOn \/ NotesMissing
    BY <1>5, <1>b, <1>t, <2>3 DEF GoesOn, NotesMissing
  <2> QED
    BY <1>5, <2>1, <2>2, <2>3
<1>6. CASE SaveStep
  <2>1. ~InRounds'
    BY <1>6 DEF SaveStep, InScan
  <2>2. CASE Begins \/ PhaseEnds
    <3>1. UNCHANGED <<files, committed, ids>>
      BY <1>6, <2>2 DEF SaveStep, Begins, PhaseEnds
    <3>2. pc' \in {"adding", "changing"} => DOMAIN committed \subseteq DOMAIN files
      BY <1>0, <1>t, <2>2 DEF Begins, PhaseEnds, Uncommitted
    <3> QED
      BY <1>t, <2>1, <3>1, <3>2 DEF ExpandedAreDirectories
  <2>3. CASE Inserts
    <3>1. UNCHANGED <<committed, ids>> /\ pc = "adding"
      BY <1>6, <2>3 DEF SaveStep, Inserts
    <3> QED
      BY <1>0, <1>t, <2>1, <2>3, <3>1, RowsAfterInsert DEF ExpandedAreDirectories
  <2>4. CASE Updates
    <3> DEFINE rec == Head(changes.changed)
    <3>1. UNCHANGED <<committed, ids, pc>> /\ pc = "changing" /\ rec \in Changed(changes)
      BY <1>0, <1>6, <2>4, UpdatesEffect DEF SaveStep, Updates
    <3>2. rec[1] \in DOMAIN files
      BY <1>0, <2>4, <3>1, NotedTypes DEF Updates, RootedInv, ChangesApply, Applicable, Replacing
    <3>3. DOMAIN files' = DOMAIN files
          /\ \A i \in DOMAIN files : files'[i].isDir = files[i].isDir
      BY <1>0, <2>4, <3>1, <3>2, RowsAfterUpdate DEF Kinds
    <3> QED
      BY <1>t, <2>1, <3>1, <3>3 DEF ExpandedAreDirectories
  <2>5. CASE Deletes
    <3>1. UNCHANGED <<committed, ids, pc>> /\ pc = "deleting"
      BY <1>6, <2>5 DEF SaveStep, Deletes
    <3> QED
      BY <1>t, <2>1, <2>5, <3>1, RowsAfterDelete DEF ExpandedAreDirectories
  <2>6. CASE Ends
    <3>1. pc' \notin {"adding", "changing"}
      BY <2>6 DEF Ends
    <3>2. CASE UNCHANGED <<committed, ids>> /\ files' \in {files, committed}
      BY <1>t, <2>1, <3>1, <3>2 DEF ExpandedAreDirectories
    <3>3. CASE commit /\ ids' = IdsAfterCommit
      <4>1. committed' = files /\ files' = files /\ ids' = ids \cap DOMAIN files
        BY <3>3 DEF commit, IdsAfterCommit
      <4> QED
        BY <1>t, <2>1, <3>1, <4>1 DEF ExpandedAreDirectories
    <3> QED
      BY <2>6, <3>2, <3>3 DEF Ends, Undo
  <2> QED
    BY <1>6, <2>2, <2>3, <2>4, <2>5, <2>6 DEF SaveStep
<1>7. CASE OutsideStep
  <2>1. UNCHANGED <<files, committed, pc, initial, todo>>
    BY <1>7, OutsideLeavesScan DEF OutsideStep
  <2>2. ids' \subseteq dirs(committed)
    BY <1>7, <1>t, OutsideIds
  <2> QED
    BY <1>t, <2>1, <2>2 DEF ExpandedAreDirectories
<1> QED
  BY <1>0, <1>a, <1>1, <1>2, <1>3, <1>4, <1>5, <1>6, <1>7, StepKinds

\* A round of scanDirs begins with the table's directories, or with the expanded rows,
\* and only gets shorter; the table stays as it is meanwhile.
LEMMA FullScanStep ==
    ASSUME WorkInv, FullScanOfDirectories, [Next]_vars
    PROVE  FullScanOfDirectories'
<1> USE DEF InRounds
<1>0. TypeOK /\ Course
  BY DEF WorkInv, CourseInv, RootedInv
<1>a. SUFFICES ASSUME InRounds', ~initial', hasChanged'
               PROVE  todo' \cap DOMAIN files' \subseteq dirs(files')
  BY DEF FullScanOfDirectories
<1>1. CASE ScanDirs
  BY <1>1, <1>a DEF ScanDirs, dbVars, tableVars
<1>2. ASSUME InRounds, ~initial, files' = files, hasChanged' = hasChanged, todo' \subseteq todo
      PROVE  todo' \cap DOMAIN files' \subseteq dirs(files')
  BY <1>2, <1>a DEF FullScanOfDirectories, dirs
<1>3. CASE CheckDir
  BY <1>0, <1>2, <1>3, <1>a, CheckDirEffect DEF CheckDir
<1>4. CASE ScanEntry \/ EntryDone \/ IterationFails \/ Missing \/ OpenDir \/ QueryFails
  BY <1>2, <1>4, <1>a DEF ScanEntry, EntryDone, IterationFails, Missing, OpenDir, QueryFails,
                          dbVars, tableVars
<1>5. CASE ScanRoots
  BY <1>0, <1>5, <1>a DEF ScanRoots, Course
<1>6. CASE OutsideStep
  BY <1>2, <1>6, <1>a, OutsideLeavesScan DEF OutsideStep
<1>7. CASE RestStep \/ ClearContinue \/ ScanDirsDone
  <2>1. ~InRounds'
    BY <1>7, RestEffect DEF ClearContinue, ScanDirsDone, InWork, InScan
  <2> QED
    BY <1>a, <2>1
<1>8. CASE Save \/ BeginFails \/ StatementFails \/ Commit \/ CommitFails \/ CommitThrows
  <2>1. ~InRounds'
    BY <1>8 DEF Save, BeginFails, StatementFails, Commit, CommitFails, CommitThrows, SaveReturns,
                SaveThrows, SaveUnwinds, Terminates, SaveOrder
  <2> QED
    BY <1>a, <2>1
<1>9. CASE SaveAdded \/ SaveChanged \/ SaveDeleted
  <2>1. ~InRounds'
    BY <1>9 DEF SaveAdded, SaveChanged, SaveDeleted, PhaseAfter, SaveOrder
  <2> QED
    BY <1>a, <2>1
<1> QED
  BY <1>1, <1>3, <1>4, <1>5, <1>6, <1>7, <1>8, <1>9 DEF Next, ScanStep, OutsideStep, RestStep

-----------------------------------------------------------------------------
(* Nothing is missing. *)

\* Current and Wanted of the file system after the step.
CurrentAfter(info) ==
    /\ info.isDir /\ disk'[info.fileName].kind = "dir"
    /\ info.lastWriteTime = disk'[info.fileName].mtime

WantedAfter(path) ==
    {p \in Paths : /\ Up[p] = path /\ disk'[p].kind # "none"
                   /\ Steady(p) /\ (disk'[p].kind = "dir" \/ p \in Supported)}

LEMMA BeforeTheStep ==
    ASSUME TypeOK, UNCHANGED fsVars \/ DiskStep,
           NEW info \in FileInfo, info.lastWriteTime <= clock, CurrentAfter(info)
    PROVE  Current(info) /\ WantedAfter(info.fileName) \subseteq Wanted(info.fileName)
<1>1. ASSUME NEW inf \in FileInfo, inf.lastWriteTime <= clock, Current(inf)'
      PROVE  /\ Current(inf)
             /\ \A q \in Paths : Up[q] = inf.fileName => disk'[q].kind = disk[q].kind
  BY <1>1, CurrentBefore
<1>2. /\ Current(info)
      /\ \A q \in Paths : Up[q] = info.fileName => disk'[q].kind = disk[q].kind
  BY <1>1 DEF CurrentAfter, Current, is_directory
<1> QED
  BY <1>2 DEF WantedAfter, Wanted, Listing, Exists, is_directory

\* The records that are on their way out.
Gone == Deleted(part) \cup Deleted(changes)

LEMMA RowsThatGo ==
    ASSUME WorkInv, [Next]_vars
    PROVE  \/ files' = files /\ Gone' \subseteq Gone
           \/ /\ pc = "checkDir" /\ UNCHANGED <<files, fsVars>>
              /\ \E x \in todo : DropsDir(x) /\ Gone' = Gone \cup {x}
           \/ /\ pc = "missing" /\ UNCHANGED <<files, fsVars>>
              /\ \E x \in RowsBelow(dirId) : Gone' = Gone \cup {x}
           \/ SaveStep /\ (Inserts \/ Updates \/ Deletes \/ Ends)
<1>0. /\ TypeOK /\ RootedInv /\ TransactionInv /\ Course
  BY DEF WorkInv, CourseInv, RootedInv
<1>a. pc = "openDir" => dirId # ROOT_RECORD_ID
  BY <1>0 DEF Course
<1>b. ASSUME part' \in {part, NoChanges}, changes' \in {changes, NoChanges}, files' = files
      PROVE  files' = files /\ Gone' \subseteq Gone
  <2>1. Deleted(part)' \subseteq Deleted(part) /\ Deleted(changes)' \subseteq Deleted(changes)
    BY <1>b, NothingNoted DEF Deleted
  <2> QED
    BY <1>b, <2>1 DEF Gone
<1>1. CASE RestStep
  BY <1>1, <1>b, RestEffect
<1>2. CASE ClearContinue \/ ScanDirs \/ ScanDirsDone
  BY <1>2, <1>b DEF ClearContinue, ScanDirs, ScanDirsDone, dbVars, tableVars
<1>3. CASE CheckDir
  <2>1. UNCHANGED <<files, fsVars>> /\ pc = "checkDir" /\ Min(todo) \in todo
    BY <1>0, <1>3, CheckDirEffect
  <2>2. CASE SkipsDir(Min(todo))
    BY <1>b, <2>1, <2>2 DEF SkipsDir
  <2>3. CASE DropsDir(Min(todo))
    BY <2>1, <2>3 DEF DropsDir, Gone, Deleted
  <2>4. CASE RenewsDir(Min(todo))
    BY <2>1, <2>4 DEF RenewsDir, Gone, Deleted
  <2> QED
    BY <1>0, <1>3, <2>2, <2>3, <2>4, CheckDirNotes
<1>4. CASE ScanEntry
  <2>1. files' = files /\ Deleted(changes)' = Deleted(changes)
    BY <1>0, <1>4, ScanEntryEffect DEF Deleted
  <2>2. Deleted(part)' = Deleted(part)
    BY <1>0, <1>4, ScanEntryEffect DEF Passes, Spares, EntryUnreadable, Adds, Finds, Deleted
  <2> QED
    BY <2>1, <2>2 DEF Gone
<1>5. CASE (Enters \/ Leaves \/ GivesUp \/ GoesOn \/ NotesMissing) /\ UNCHANGED <<files, fsVars>>
  <2>1. CASE Leaves
    BY <1>0, <1>5, <2>1, LeavesEffect DEF Gone
  <2>2. CASE NotesMissing
    <3>1. PICK r \in oldRecords : Deleted(part)' = Deleted(part) \cup {r[1]}
      BY <1>0, <2>2, NotesMissingEffect
    <3>2. Deleted(changes)' = Deleted(changes) /\ pc = "missing"
      BY <2>2 DEF NotesMissing, Deleted
    <3>3. r[1] \in RowsBelow(dirId)
      BY <1>0, <3>1, <3>2 DEF RootedInv, ChangesApply, InScanDir, childrenFiles, RowsBelow
    <3> QED
      BY <1>5, <3>1, <3>2, <3>3 DEF Gone
  <2>3. CASE Enters \/ GivesUp \/ GoesOn
    BY <1>5, <1>b, <2>3 DEF Enters, GivesUp, GoesOn
  <2> QED
    BY <1>5, <2>1, <2>2, <2>3
<1>6. CASE SaveStep
  <2>1. CASE Begins \/ PhaseEnds
    BY <1>6, <1>b, <2>1 DEF SaveStep, Begins, PhaseEnds
  <2> QED
    BY <1>6, <2>1 DEF SaveStep
<1>7. CASE OutsideStep
  BY <1>7, <1>b, OutsideLeavesScan DEF OutsideStep
<1> QED
  BY <1>0, <1>a, <1>1, <1>2, <1>3, <1>4, <1>5, <1>6, <1>7, StepKinds

\* The rows a scan decides to delete are not those of songs and directories that exist,
\* as far as directories are concerned that it is not scanning just now.
LEMMA HasRowKept ==
    ASSUME WorkInv, Kinds, FullScanOfDirectories, ActiveIdsAreDirectories,
           [Next]_vars, files' = files,
           NEW i, NEW p, is_directory(p) \/ p \in Supported,
           HasRow(i, p), pc = "missing" => i # dirId
    PROVE  HasRow(i, p)'
<1>0. TypeOK /\ Course
  BY DEF WorkInv, CourseInv, RootedInv
<1>1. PICK j \in DOMAIN files \ Gone : files[j].parentID = i /\ files[j].fileName = p
  BY DEF HasRow, Staying, Gone
<1>2. SUFFICES ASSUME j \in Gone' PROVE FALSE
  BY <1>1 DEF HasRow, Staying, Gone
<1>3. CASE Gone' \subseteq Gone
  BY <1>1, <1>2, <1>3
<1>4. CASE pc = "checkDir" /\ \E x \in todo : DropsDir(x) /\ Gone' = Gone \cup {x}
  <2>1. DropsDir(j) /\ j \in todo
    BY <1>1, <1>2, <1>4
  <2>2. files[j].isDir
    BY <1>0, <1>1, <1>4, <2>1
       DEF FullScanOfDirectories, ActiveIdsAreDirectories, Course, InRounds, dirs
  <2> QED
    BY <1>1, <2>1, <2>2 DEF Kinds, DropsDir
<1>5. CASE pc = "missing" /\ \E x \in RowsBelow(dirId) : Gone' = Gone \cup {x}
  BY <1>1, <1>2, <1>5 DEF RowsBelow
<1>6. CASE SaveStep /\ (Inserts \/ Updates \/ Deletes \/ Ends)
  <2>1. part' = part /\ Deleted(part)' = {}
    BY <1>6, NothingNoted DEF SaveStep, Deleted
  <2>2. Deleted(changes)' \subseteq Deleted(changes)
    BY <1>0, <1>6, InsertsEffect, UpdatesEffect, DeletesEffect, NothingNoted DEF Ends, Deleted
  <2> QED
    BY <1>3, <2>1, <2>2 DEF Gone
<1> QED
  BY <1>3, <1>4, <1>5, <1>6, RowsThatGo

\* The records of all that is wanted of directory i.
CompleteAfter(db) ==
    \A i \in DOMAIN db :
        CurrentAfter(db[i]) => WantedAfter(db[i].fileName) \subseteq ChildNames(db, i)

LEMMA NothingMissingAfter ==
    NothingMissing' <=> CompleteAfter(files') /\ CompleteAfter(committed')
  BY DEF NothingMissing, CompleteAfter, CurrentAfter, WantedAfter, UpToDate, Wanted, Listing,
         Exists, is_directory, ChildNames, childrenFiles

LEMMA InChildNames ==
    ASSUME NEW db, NEW i, NEW p
    PROVE  p \in ChildNames(db, i) <=> \E j \in DOMAIN db : db[j].parentID = i /\ db[j].fileName = p
<1>1. ASSUME NEW j \in DOMAIN db, db[j].parentID = i PROVE db[j].fileName \in ChildNames(db, i)
  <2>1. <<j, db[j]>> \in childrenFiles(db, i)
    BY <1>1 DEF childrenFiles
  <2> QED
    BY <2>1 DEF ChildNames
<1>2. ASSUME NEW rec \in childrenFiles(db, i)
      PROVE  \E j \in DOMAIN db : db[j].parentID = i /\ db[j].fileName = rec[2].fileName
  BY DEF childrenFiles
<1> QED
  BY <1>1, <1>2 DEF ChildNames

\* A directory that has only just got its record is to be scanned.
LEMMA NewRowIsOutdated ==
    ASSUME TypeOK, Kinds, Inserts
    PROVE  ~Current(Head(changes.added))
<1>1. Head(changes.added) \in Added(changes) /\ Head(changes.added) \in FileInfo
  BY InsertsEffect
<1>2. disk[Head(changes.added).fileName].mtime # 0
  BY <1>1, FileSystemAssumption DEF TypeOK, FsTypeOK, Node, FileInfo
<1> QED
  BY <1>1, <1>2 DEF Kinds, Current

\* A row that save replaces keeps its place, and all rows keep their places.
LEMMA UpdatesInPlace ==
    ASSUME RootedInv, NamesKept, Updates
    PROVE  /\ DOMAIN files' = DOMAIN files
           /\ Head(changes.changed) \in Changed(changes)
           /\ Head(changes.changed)[1] \in DOMAIN files
           /\ files'[Head(changes.changed)[1]] = Head(changes.changed)[2]
           /\ \A i \in DOMAIN files :
                 /\ files'[i].parentID = files[i].parentID /\ files'[i].fileName = files[i].fileName
                 /\ i # Head(changes.changed)[1] => files'[i] = files[i]
<1> DEFINE rec == Head(changes.changed)
<1>1. TypeOK /\ rec \in Changed(changes)
  BY UpdatesEffect DEF RootedInv
<1>2. rec[1] \in DOMAIN files /\ rec[2].parentID = files[rec[1]].parentID
  BY <1>1, NotedTypes DEF Updates, RootedInv, ChangesApply, Applicable, Replacing
<1> QED
  BY <1>1, <1>2, RowsAfterUpdate DEF NamesKept

\* The table is what it was, or what was committed before, unless save has executed a
\* statement.
LEMMA TablesAfter ==
    ASSUME WorkInv, [Next]_vars
    PROVE  \/ files' \in {files, committed} /\ committed' \in {files, committed}
           \/ SaveStep /\ (Inserts \/ Updates \/ Deletes) /\ UNCHANGED committed
<1>0. TypeOK
  BY DEF WorkInv, CourseInv, RootedInv
<1>1. CASE CheckDir
  BY <1>0, <1>1, CheckDirEffect
<1>2. CASE SaveStep /\ (Inserts \/ Updates \/ Deletes \/ Ends)
  BY <1>2 DEF Inserts, Updates, Deletes, Ends, Undo, commit
<1> QED
  BY <1>1, <1>2, NewThings DEF NothingNew

LEMMA NothingMissingStep ==
    ASSUME WorkInv, DirectoriesInv, NothingMissing, [Next]_vars,
           InWork /\ ~shouldBreak => UpToDateHaveAll,
           InWork /\ ~shouldBreak /\ pc \notin {"deleting", "committing"} => ChangesHaveAll
    PROVE  NothingMissing'
<1>0. /\ TypeOK /\ RootedInv /\ Kinds /\ Times /\ NamesKept /\ AddedFirst
  BY DEF WorkInv, CourseInv, RootedInv, DirectoriesInv
<1>1. ASSUME NEW db \in {files, committed} PROVE CompleteAfter(db)
  <2> SUFFICES ASSUME NEW i \in DOMAIN db, CurrentAfter(db[i])
               PROVE  WantedAfter(db[i].fileName) \subseteq ChildNames(db, i)
    BY DEF CompleteAfter
  <2>1. db[i] \in FileInfo /\ db[i].lastWriteTime <= clock
    BY <1>0, NotedOfTypes DEF Times
  <2>2. Current(db[i]) /\ WantedAfter(db[i].fileName) \subseteq Wanted(db[i].fileName)
    BY <1>0, <2>1, BeforeTheStep, OthersLeaveDisk
  <2> QED
    BY <2>2 DEF NothingMissing, UpToDate, Current
<1>2. ASSUME SaveStep, NEW info, CurrentAfter(info)
      PROVE  Current(info) /\ WantedAfter(info.fileName) = Wanted(info.fileName)
  BY <1>2 DEF SaveStep, fsVars, CurrentAfter, Current, WantedAfter, Wanted, Listing, Exists,
              is_directory
<1>3. CASE files' \in {files, committed} /\ committed' \in {files, committed}
  BY <1>1, <1>3, NothingMissingAfter
<1>4. CASE SaveStep /\ Inserts /\ UNCHANGED committed
  <2>1. ASSUME NEW i \in DOMAIN files', CurrentAfter(files'[i]),
               NEW p \in WantedAfter(files'[i].fileName)
        PROVE  p \in ChildNames(files', i)
    <3>1. i \in DOMAIN files /\ files'[i] = files[i]
      <4>1. Current(files'[i])
        BY <1>2, <1>4, <2>1
      <4> QED
        BY <1>0, <1>4, <2>1, <4>1, RowsAfterInsert, NewRowIsOutdated
    <3>2. p \in ChildNames(files, i)
      BY <1>1, <2>1, <3>1 DEF CompleteAfter
    <3>3. PICK j \in DOMAIN files : files[j].parentID = i /\ files[j].fileName = p
      BY <3>2, InChildNames
    <3>4. j \in DOMAIN files' /\ files'[j] = files[j]
      BY <1>0, <1>4, RowsAfterInsert
    <3> QED
      BY <3>3, <3>4, InChildNames
  <2> QED
    BY <1>1, <1>4, <2>1, NothingMissingAfter DEF CompleteAfter
<1>5. CASE SaveStep /\ Updates /\ UNCHANGED committed
  <2> DEFINE rec == Head(changes.changed)
  <2>1. pc = "changing" /\ ~shouldBreak
    BY <1>5 DEF Updates
  <2>2. ASSUME NEW i \in DOMAIN files', CurrentAfter(files'[i]),
               NEW p \in WantedAfter(files'[i].fileName)
        PROVE  p \in ChildNames(files', i)
    <3>1. i \in DOMAIN files /\ Current(files'[i]) /\ p \in Wanted(files'[i].fileName)
      BY <1>0, <1>2, <1>5, <2>2, UpdatesInPlace
    <3>2. CASE i = rec[1]
      <4>1. rec \in Changed(changes) /\ Current(rec[2]) /\ p \in Wanted(rec[2].fileName)
        BY <1>0, <1>5, <3>1, <3>2, UpdatesInPlace
      <4>2. HasRow(i, p) \/ IsAdded(Added(changes), i, p)
        BY <2>1, <3>2, <4>1 DEF InWork, InSave, ChangesHaveAll
      <4>3. ~IsAdded(Added(changes), i, p)
        BY <1>0, <2>1, RangeOfNone DEF AddedFirst, IsAdded, Added
      <4>4. PICK j \in DOMAIN files : files[j].parentID = i /\ files[j].fileName = p
        BY <4>2, <4>3 DEF HasRow, Staying
      <4> QED
        BY <1>0, <1>5, <4>4, UpdatesInPlace, InChildNames
    <3>3. CASE i # rec[1]
      <4>1. files'[i] = files[i]
        BY <1>0, <1>5, <3>1, <3>3, UpdatesInPlace
      <4>2. p \in ChildNames(files, i)
        BY <1>1, <2>2, <3>1, <4>1 DEF CompleteAfter
      <4>3. PICK j \in DOMAIN files : files[j].parentID = i /\ files[j].fileName = p
        BY <4>2, InChildNames
      <4> QED
        BY <1>0, <1>5, <4>3, UpdatesInPlace, InChildNames
    <3> QED
      BY <3>2, <3>3
  <2> QED
    BY <1>1, <1>5, <2>2, NothingMissingAfter DEF CompleteAfter
<1>6. CASE SaveStep /\ Deletes /\ UNCHANGED committed
  <2>1. pc = "deleting" /\ ~shouldBreak
    BY <1>6 DEF Deletes
  <2>2. ASSUME NEW i \in DOMAIN files', CurrentAfter(files'[i]),
               NEW p \in WantedAfter(files'[i].fileName)
        PROVE  p \in ChildNames(files', i)
    <3>1. i \in DOMAIN files /\ files'[i] = files[i]
      BY <1>6, RowsAfterDelete
    <3>2. HasRow(i, p)
      BY <1>2, <1>6, <2>1, <2>2, <3>1 DEF InWork, InSave, UpToDateHaveAll
    <3>3. PICK j \in DOMAIN files : /\ files[j].parentID = i /\ files[j].fileName = p
                                    /\ j \notin Deleted(changes)
      BY <3>2 DEF HasRow, Staying
    <3>4. j # Head(changes.deleted)
      BY <1>0, <1>6, <3>3, DeletesEffect
    <3>5. j \in DOMAIN files' /\ files'[j] = files[j]
      BY <1>0, <1>6, <3>3, <3>4, DeletedWithParent, RowsAfterDelete
    <3> QED
      BY <3>3, <3>5, InChildNames
  <2> QED
    BY <1>1, <1>6, <2>2, NothingMissingAfter DEF CompleteAfter
<1> QED
  BY <1>3, <1>4, <1>5, <1>6, TablesAfter

\* A scan begins where the loop of operator() begins one.
LEMMA WorkBegins ==
    ASSUME WorkInv, [Next]_vars, InWork', ~InWork
    PROVE  ClearContinue \/ ScanDirs
<1>0. TypeOK /\ TransactionInv /\ Course
  BY DEF WorkInv, CourseInv, RootedInv
<1>a. pc = "openDir" => dirId # ROOT_RECORD_ID
  BY <1>0 DEF Course
<1>1. ~OutsideStep /\ ~RestStep
  BY OutsideLeavesScan, RestEffect DEF OutsideStep, InWork, InScan, InRounds, InSave
<1>2. ~(ScanDirsDone \/ CheckDir \/ ScanEntry \/ SaveStep)
  BY <1>0, CheckDirEffect
     DEF ScanDirsDone, ScanEntry, SaveStep, Begins, PhaseEnds, Inserts, Updates, Deletes,
         Ends, InWork, InScan, InRounds, InSave
<1>3. ~(Enters \/ Leaves \/ GoesOn \/ NotesMissing)
  BY DEF Enters, Leaves, GoesOn, NotesMissing, InWork, InScan, InRounds, InScanDir
<1>4. ~GivesUp
  BY DEF GivesUp, InWork, InScan, InRounds, InSave
<1> QED
  BY <1>0, <1>a, <1>1, <1>2, <1>3, <1>4, StepKinds

\* What save writes before it deletes anything leaves the rows where they are.
LEMMA HasRowWritten ==
    ASSUME WorkInv, SaveStep, Inserts \/ Updates, NEW i, NEW p, HasRow(i, p)
    PROVE  HasRow(i, p)'
<1>0. TypeOK /\ RootedInv /\ NamesKept
  BY DEF WorkInv, CourseInv, RootedInv
<1>1. PICK j \in Staying : files[j].parentID = i /\ files[j].fileName = p
  BY DEF HasRow
<1>2. Deleted(part)' = Deleted(part) /\ Deleted(changes)' = Deleted(changes)
  BY <1>0, InsertsEffect, UpdatesEffect DEF SaveStep, Deleted
<1>3. /\ DOMAIN files \subseteq DOMAIN files'
      /\ files'[j].parentID = files[j].parentID /\ files'[j].fileName = files[j].fileName
  BY <1>0, <1>1, RowsAfterInsert, UpdatesInPlace DEF Staying
<1>4. j \in Staying'
  BY <1>1, <1>2, <1>3 DEF Staying
<1> QED
  BY <1>1, <1>3, <1>4 DEF HasRow

LEMMA UpToDateHaveAllStep ==
    ASSUME WorkInv, DirectoriesInv, FullScanOfDirectories, ActiveIdsAreDirectories,
           NothingMissing, [Next]_vars,
           InWork /\ ~shouldBreak => UpToDateHaveAll,
           InWork /\ ~shouldBreak /\ pc \notin {"deleting", "committing"} => ChangesHaveAll,
           InWork', ~shouldBreak'
    PROVE  UpToDateHaveAll'
<1>0. /\ TypeOK /\ RootedInv /\ Kinds /\ Times /\ NamesKept /\ AddedFirst /\ ScannedOnce /\ Course
      /\ TransactionInv
  BY DEF WorkInv, CourseInv, RootedInv, DirectoriesInv
<1>a. pc = "openDir" => dirId # ROOT_RECORD_ID
  BY <1>0 DEF Course
<1>b. SUFFICES ASSUME NEW i \in DOMAIN files', CurrentAfter(files'[i]),
                      NEW p \in WantedAfter(files'[i].fileName)
               PROVE  HasRow(i, p)'
  BY DEF UpToDateHaveAll, CurrentAfter, Current, WantedAfter, Wanted, Listing, Exists, is_directory
<1>c. files'[i] \in FileInfo /\ files'[i].lastWriteTime <= clock
      => Current(files'[i]) /\ p \in Wanted(files'[i].fileName)
  BY <1>0, <1>b, BeforeTheStep, OthersLeaveDisk
<1>d. InWork => ~shouldBreak /\ UpToDateHaveAll
  BY <1>0, NotInterrupted
<1>1. CASE ~InWork
  <2>1. ClearContinue \/ ScanDirs
    BY <1>1, WorkBegins
  <2>2. files' = files /\ part' = part /\ changes' = NoChanges
    BY <2>1 DEF ClearContinue, ScanDirs, dbVars, tableVars
  <2>3. part = NoChanges
    BY <1>0, <1>1 DEF RootedInv, ChangesApply, InWork, InScan, InRounds, InScanDir
  <2>4. Deleted(part)' = {} /\ Deleted(changes)' = {}
    BY <2>2, <2>3, NothingNoted DEF Deleted
  <2>5. files[i] \in FileInfo /\ files[i].lastWriteTime <= clock
    BY <1>0, <1>b, <2>2, NotedOfTypes DEF Times
  <2>6. p \in ChildNames(files, i)
    BY <1>b, <1>c, <2>2, <2>5 DEF NothingMissing, UpToDate, Current
  <2> QED
    BY <2>2, <2>4, <2>6, InChildNames DEF HasRow, Staying
<1>2. CASE InWork /\ files' = files
  <2>1. files[i] \in FileInfo /\ files[i].lastWriteTime <= clock
    BY <1>0, <1>b, <1>2, NotedOfTypes DEF Times
  <2>2. Current(files[i]) /\ p \in Wanted(files[i].fileName)
    BY <1>c, <1>2, <2>1
  <2>3. HasRow(i, p) /\ (is_directory(p) \/ p \in Supported)
    BY <1>b, <1>d, <1>2, <2>2 DEF UpToDateHaveAll, Wanted
  <2>4. pc = "missing" => i # dirId
    BY <1>0, <1>b, <1>2, <2>2 DEF ScannedOnce, InScanDir
  <2> QED
    BY <1>0, <1>2, <2>3, <2>4, HasRowKept
<1>3. CASE SaveStep /\ Inserts
  <2>1. Current(files'[i]) /\ p \in Wanted(files'[i].fileName)
    BY <1>3, <1>b DEF SaveStep, fsVars, CurrentAfter, Current, WantedAfter, Wanted, Listing,
                      Exists, is_directory
  <2>2. i \in DOMAIN files /\ files'[i] = files[i]
    BY <1>0, <1>3, <1>b, <2>1, RowsAfterInsert, NewRowIsOutdated
  <2>3. HasRow(i, p)
    BY <1>d, <1>3, <2>1, <2>2 DEF Inserts, InWork, InSave, UpToDateHaveAll
  <2> QED
    BY <1>3, <2>3, HasRowWritten
<1>4. CASE SaveStep /\ Updates
  <2> DEFINE rec == Head(changes.changed)
  <2>1. Current(files'[i]) /\ p \in Wanted(files'[i].fileName)
    BY <1>4, <1>b DEF SaveStep, fsVars, CurrentAfter, Current, WantedAfter, Wanted, Listing,
                      Exists, is_directory
  <2>2. pc = "changing" /\ ~shouldBreak /\ InWork
    BY <1>4 DEF Updates, InWork, InSave
  <2>3. HasRow(i, p)
    <3>1. CASE i = rec[1]
      <4>1. rec \in Changed(changes) /\ Current(rec[2]) /\ p \in Wanted(rec[2].fileName)
        BY <1>0, <1>4, <2>1, <3>1, UpdatesInPlace
      <4>2. ~IsAdded(Added(changes), i, p)
        BY <1>0, <2>2, RangeOfNone DEF AddedFirst, IsAdded, Added
      <4> QED
        BY <2>2, <3>1, <4>1, <4>2 DEF ChangesHaveAll
    <3>2. CASE i # rec[1]
      <4>1. i \in DOMAIN files /\ files'[i] = files[i]
        BY <1>0, <1>4, <1>b, <3>2, UpdatesInPlace
      <4> QED
        BY <1>d, <2>1, <2>2, <4>1 DEF UpToDateHaveAll
    <3> QED
      BY <3>1, <3>2
  <2> QED
    BY <1>4, <2>3, HasRowWritten
<1>5. CASE SaveStep /\ Deletes
  <2>1. Current(files'[i]) /\ p \in Wanted(files'[i].fileName)
    BY <1>5, <1>b DEF SaveStep, fsVars, CurrentAfter, Current, WantedAfter, Wanted, Listing,
                      Exists, is_directory
  <2>2. i \in DOMAIN files /\ files'[i] = files[i]
    BY <1>5, <1>b, RowsAfterDelete
  <2>3. HasRow(i, p)
    BY <1>d, <1>5, <2>1, <2>2 DEF Deletes, InWork, InSave, UpToDateHaveAll
  <2>4. PICK j \in Staying : files[j].parentID = i /\ files[j].fileName = p
    BY <2>3 DEF HasRow
  <2>5. /\ Deleted(part)' = Deleted(part) /\ Deleted(changes)' \subseteq Deleted(changes)
        /\ Head(changes.deleted) \in Deleted(changes)
    BY <1>0, <1>5, DeletesEffect DEF SaveStep, Deleted
  <2>6. j \in DOMAIN files' /\ files'[j] = files[j]
    BY <1>0, <1>5, <1>b, <2>4, <2>5, DeletedWithParent, RowsAfterDelete DEF Staying
  <2> QED
    BY <2>4, <2>5, <2>6 DEF HasRow, Staying
<1>6. CASE SaveStep /\ Ends
  BY <1>6 DEF SaveStep, Ends, InWork, InScan, InRounds, InSave
<1>7. files' = files \/ (SaveStep /\ (Inserts \/ Updates \/ Deletes \/ Ends))
  BY RowsThatGo
<1> QED
  BY <1>1, <1>2, <1>3, <1>4, <1>5, <1>6, <1>7

LEMMA ChangesHaveAllStep ==
    ASSUME WorkInv, DirectoriesInv, FullScanOfDirectories, ActiveIdsAreDirectories, [Next]_vars,
           InWork /\ ~shouldBreak /\ pc \notin {"deleting", "committing"} => ChangesHaveAll,
           InLoop /\ ~shouldBreak => PartHasAll,
           InWork', ~shouldBreak', pc' \notin {"deleting", "committing"}
    PROVE  ChangesHaveAll'
<1>0. /\ TypeOK /\ RootedInv /\ Kinds /\ Times /\ Stages /\ ScannedOnce /\ Course
      /\ TransactionInv /\ DeletionsKnown
  BY DEF WorkInv, CourseInv, RootedInv, DirectoriesInv
<1>a. pc = "openDir" => dirId # ROOT_RECORD_ID
  BY <1>0 DEF Course
<1>b. SUFFICES ASSUME NEW rec \in Changed(changes)', CurrentAfter(rec[2]),
                      NEW p \in WantedAfter(rec[2].fileName)
               PROVE  HasRow(rec[1], p)' \/ IsAdded(Added(changes)', rec[1], p)
  BY DEF ChangesHaveAll, CurrentAfter, Current, WantedAfter, Wanted, Listing, Exists,
         is_directory, IsAdded
<1>c. p \in Paths /\ rec[2].isDir
  BY <1>b DEF WantedAfter, CurrentAfter
<1>d. ASSUME rec \in Changed(part) \cup Changed(changes)
      PROVE  Current(rec[2]) /\ p \in Wanted(rec[2].fileName)
  <2>1. rec[2] \in FileInfo /\ rec[2].lastWriteTime <= clock
    BY <1>0, <1>d, NotedOfTypes DEF Times, FileRecord
  <2> QED
    BY <1>0, <1>b, <2>1, BeforeTheStep, OthersLeaveDisk
<1>e. InWork \/ ClearContinue \/ ScanDirs
  BY WorkBegins
<1>f. InWork => ~shouldBreak
  BY <1>0, NotInterrupted
\* What has been noted before the step.
<1>h. ASSUME InWork, pc \notin {"deleting", "committing"}, files' = files,
             rec \in Changed(changes), Added(changes) \subseteq Added(changes)',
             pc = "missing" => rec[1] # dirId
      PROVE  HasRow(rec[1], p)' \/ IsAdded(Added(changes)', rec[1], p)
  <2>1. Current(rec[2]) /\ p \in Wanted(rec[2].fileName)
    BY <1>d, <1>h
  <2>2. HasRow(rec[1], p) \/ IsAdded(Added(changes), rec[1], p)
    BY <1>f, <1>h, <2>1 DEF ChangesHaveAll
  <2>3. is_directory(p) \/ p \in Supported
    BY <2>1 DEF Wanted
  <2>4. HasRow(rec[1], p) => HasRow(rec[1], p)'
    BY <1>0, <1>h, <2>3, HasRowKept
  <2> QED
    BY <1>h, <2>2, <2>4 DEF IsAdded
<1>i. pc = "missing" /\ rec \in Changed(changes) => rec[1] # dirId
  BY <1>0, <1>c DEF ScannedOnce, InScanDir
<1>1. CASE RestStep
  BY <1>1, RestEffect
<1>2. CASE ClearContinue \/ ScanDirs
  <2>1. Changed(changes)' = {}
    BY <1>2, NothingNoted DEF ClearContinue, ScanDirs, Changed
  <2> QED
    BY <1>b, <2>1
<1>3. CASE ScanDirsDone \/ CheckDir \/ ScanEntry
  <2>1. InWork /\ pc \notin {"deleting", "committing"} /\ files' = files
    BY <1>0, <1>3, CheckDirEffect, ScanEntryEffect
       DEF ScanDirsDone, InWork, InScan, InRounds, dbVars, tableVars
  <2>2. Changed(changes)' = Changed(changes) /\ Added(changes)' = Added(changes)
    BY <1>0, <1>3, CheckDirNotes, ScanEntryEffect
       DEF ScanDirsDone, SkipsDir, DropsDir, RenewsDir, Changed, Added
  <2> QED
    BY <1>b, <1>h, <1>i, <2>1, <2>2
<1>4. CASE (Enters \/ GivesUp \/ GoesOn \/ NotesMissing) /\ files' = files
  <2>1. pc \notin {"deleting", "committing"} /\ pc # "scanDirs"
    BY <1>4 DEF Enters, GivesUp, GoesOn, NotesMissing, InWork, InScan, InRounds, InSave
  <2>2. InWork /\ changes' = changes
    BY <1>4, <1>e, <2>1
       DEF Enters, GivesUp, GoesOn, NotesMissing, InWork, InScan, InRounds, ClearContinue, ScanDirs
  <2>3. Changed(changes)' = Changed(changes) /\ Added(changes)' = Added(changes)
    BY <2>2 DEF Changed, Added
  <2> QED
    BY <1>4, <1>b, <1>h, <1>i, <2>1, <2>2, <2>3
<1>5. CASE Leaves /\ UNCHANGED <<files, flagVars>>
  <2>1. ~shouldBreak
    BY <1>5 DEF flagVars, shouldBreak
  <2>2. pc = "missing" /\ oldRecords = {} /\ entries = {} /\ InLoop /\ InWork /\ InScanDir
    BY <1>0, <1>5, <2>1 DEF Leaves, Stages, InLoop, InWork, InScan, InRounds, InScanDir
  <2>3. /\ Changed(changes)' = Changed(changes) \cup Changed(part)
        /\ Added(changes)' = Added(changes) \cup Added(part)
        /\ Deleted(changes)' = Deleted(changes) \cup Deleted(part) /\ Deleted(part)' = {}
    BY <1>0, <1>5, LeavesEffect
  <2>4. CASE rec \in Changed(changes)
    BY <1>5, <1>h, <1>i, <2>2, <2>3, <2>4
  <2>5. CASE rec \in Changed(part)
    <3>1. rec[1] = dirId /\ Current(rec[2]) /\ p \in Wanted(rec[2].fileName)
      BY <1>0, <1>c, <1>d, <2>2, <2>5 DEF ScannedOnce
    <3>2. \/ IsAdded(Added(part), dirId, p)
          \/ \E i \in Staying : files[i].parentID = dirId /\ files[i].fileName = p
      BY <2>1, <2>2, <2>5, <3>1 DEF PartHasAll
    <3>3. Staying' = Staying
      BY <1>5, <2>3 DEF Staying
    <3> QED
      BY <1>5, <2>3, <3>1, <3>2, <3>3 DEF IsAdded, HasRow
  <2> QED
    BY <1>b, <2>3, <2>4, <2>5
<1>6. CASE SaveStep
  <2>1. CASE Begins \/ PhaseEnds
    <3>1. InWork /\ pc \notin {"deleting", "committing"} /\ files' = files
      BY <2>1 DEF Begins, PhaseEnds, InWork, InSave
    <3>2. Changed(changes)' = Changed(changes) /\ Added(changes)' = Added(changes)
      BY <2>1 DEF Begins, PhaseEnds, Changed, Added
    <3> QED
      BY <1>b, <1>h, <1>i, <3>1, <3>2
  <2>2. CASE Inserts \/ Updates
    <3>1. pc \in {"adding", "changing"} /\ InWork
      BY <2>2 DEF Inserts, Updates, InWork, InSave
    <3>2. rec \in Changed(changes)
      BY <1>0, <1>b, <2>2, InsertsEffect, UpdatesEffect
    <3>3. HasRow(rec[1], p) \/ IsAdded(Added(changes), rec[1], p)
      BY <1>d, <1>f, <3>1, <3>2 DEF ChangesHaveAll
    <3>4. CASE HasRow(rec[1], p)
      BY <1>6, <2>2, <3>4, HasRowWritten
    <3>5. CASE IsAdded(Added(changes), rec[1], p)
      <4>1. PICK a \in Added(changes) : a.parentID = rec[1] /\ a.fileName = p
        BY <3>5 DEF IsAdded
      <4>2. CASE a \in Added(changes)'
        BY <4>1, <4>2 DEF IsAdded
      <4>3. CASE a \notin Added(changes)'
        <5>1. Inserts /\ a = Head(changes.added)
          BY <1>0, <2>2, <4>1, <4>3, InsertsEffect, UpdatesEffect
        <5>2. /\ NewRowId(files) \in DOMAIN files' /\ files'[NewRowId(files)] = a
              /\ NewRowId(files) \notin DOMAIN files
          BY <1>0, <5>1, RowsAfterInsert
        <5>3. Deleted(part)' = {} /\ Deleted(changes)' = Deleted(changes)
          BY <1>0, <1>6, <5>1, InsertsEffect, NothingNoted DEF SaveStep, Deleted
        <5>4. NewRowId(files) \notin Deleted(changes)
          BY <1>0, <5>1, <5>2 DEF DeletionsKnown, Inserts
        <5>5. NewRowId(files) \in Staying'
          BY <5>2, <5>3, <5>4 DEF Staying
        <5> QED
          BY <4>1, <5>2, <5>5 DEF HasRow
      <4> QED
        BY <4>2, <4>3
    <3> QED
      BY <3>3, <3>4, <3>5
  <2>3. CASE Deletes \/ Ends
    BY <2>3 DEF Deletes, Ends, InWork, InScan, InRounds, InSave
  <2> QED
    BY <1>6, <2>1, <2>2, <2>3 DEF SaveStep
<1>7. CASE OutsideStep
  <2>1. UNCHANGED <<files, pc, changes>>
    BY <1>7, OutsideLeavesScan DEF OutsideStep
  <2>2. InWork /\ Changed(changes)' = Changed(changes) /\ Added(changes)' = Added(changes)
    BY <2>1 DEF InWork, InScan, InRounds, InSave, Changed, Added
  <2> QED
    BY <1>b, <1>h, <1>i, <2>1, <2>2
<1> QED
  BY <1>0, <1>a, <1>1, <1>2, <1>3, <1>4, <1>5, <1>6, <1>7, StepKinds

\* An entry's record has been found, and stays.
FoundRow(p) ==
    \E i \in Staying : /\ files[i].parentID = dirId /\ files[i].fileName = p
                       /\ <<i, files[i]>> \notin oldRecords

LEMMA PartHasAllStep ==
    ASSUME WellNamed, WorkInv, DirectoriesInv, DeletionsInOrder, [Next]_vars,
           InLoop /\ ~shouldBreak => PartHasAll,
           InLoop', ~shouldBreak'
    PROVE  PartHasAll'
<1>0. /\ TypeOK /\ RootedInv /\ Kinds /\ Times /\ ScannedOnce /\ Course /\ NamesKept
      /\ TransactionInv
  BY DEF WorkInv, CourseInv, RootedInv, DirectoriesInv
<1>a. pc = "openDir" => dirId # ROOT_RECORD_ID
  BY <1>0 DEF Course
<1>b. SUFFICES ASSUME NEW rec \in Changed(part)', CurrentAfter(rec[2]),
                      NEW p \in WantedAfter(rec[2].fileName)
               PROVE  \/ p \in entries'
                      \/ IsAdded(Added(part)', dirId', p)
                      \/ FoundRow(p)'
  BY DEF PartHasAll, CurrentAfter, Current, WantedAfter, Wanted, Listing, Exists,
         is_directory, IsAdded, FoundRow
<1>c. p \in Paths /\ rec[2].isDir
  BY <1>b DEF WantedAfter, CurrentAfter
<1>d. InLoop => InWork /\ InScanDir
  BY DEF InLoop, InWork, InScan, InRounds, InScanDir
<1>e. ASSUME InLoop, rec \in Changed(part)
      PROVE  /\ p \in Wanted(rec[2].fileName)
             /\ p \in entries \/ IsAdded(Added(part), dirId, p) \/ FoundRow(p)
             /\ dirId \in DOMAIN files /\ dirId # ROOT_RECORD_ID
  <2>1. rec[2] \in FileInfo /\ rec[2].lastWriteTime <= clock
    BY <1>0, <1>e, NotedOfTypes DEF Times, FileRecord
  <2>2. Current(rec[2]) /\ p \in Wanted(rec[2].fileName)
    BY <1>0, <1>b, <2>1, BeforeTheStep, OthersLeaveDisk
  <2>3. ~shouldBreak
    BY <1>0, <1>d, <1>e, NotInterrupted
  <2>4. Changed(part) \subseteq Replacing(files)
    BY <1>0, <1>d, <1>e, NotedTypes DEF RootedInv, ChangesApply, Applicable
  <2>5. rec[1] = dirId /\ rec[1] \in DOMAIN files
    BY <1>0, <1>c, <1>d, <1>e, <2>4 DEF ScannedOnce, Replacing
  <2>6. dirId # ROOT_RECORD_ID
    BY <1>0, <2>5 DEF TypeOK, IsTable, RecordID, ROOT_RECORD_ID
  <2> QED
    BY <1>e, <2>2, <2>3, <2>5, <2>6 DEF PartHasAll, FoundRow
<1>f. InLoop => \A r \in oldRecords : /\ r[1] \in DOMAIN files /\ r = <<r[1], files[r[1]]>>
                                      /\ files[r[1]].parentID = dirId
  BY <1>0 DEF RootedInv, ChangesApply, InLoop, InScanDir, childrenFiles
<1>1. CASE RestStep \/ ClearContinue \/ ScanDirs \/ ScanDirsDone \/ CheckDir \/ SaveStep
  BY <1>0, <1>1, RestEffect, CheckDirEffect
     DEF ClearContinue, ScanDirs, ScanDirsDone, SaveStep, InLoop, InScanDir, InScan, InRounds
<1>2. CASE (Leaves \/ GivesUp) /\ files' = files
  BY <1>2 DEF Leaves, GivesUp, InLoop
<1>3. CASE Enters /\ UNCHANGED <<files, fsVars>>
  <2>1. part' = part /\ (pc = "scanRoots" \/ pc = "openDir")
    BY <1>3 DEF Enters
  <2>2. CASE pc = "scanRoots"
    <3>1. Changed(part)' = {}
      BY <1>0, <2>1, <2>2, NothingNoted DEF RootedInv, ChangesApply, InScanDir, Changed
    <3> QED
      BY <1>b, <3>1
  <2>3. CASE pc = "openDir"
    <3>1. rec \in Changed(part) /\ InScanDir
      BY <2>1, <2>3 DEF Changed, InScanDir
    <3>2. rec[1] = dirId /\ dirId \in DOMAIN files
      BY <1>0, <1>a, <1>c, <2>3, <3>1 DEF ScannedOnce, RootedInv, ChangesApply
    <3>3. files[dirId].fileName = rec[2].fileName
      BY <1>0, <3>1, <3>2 DEF NamesKept
    <3>4. entries' = Listing(rec[2].fileName)
      BY <1>3, <2>3, <3>3 DEF Enters
    <3> QED
      BY <1>3, <1>b, <3>4 DEF WantedAfter, Listing, Exists, fsVars
  <2> QED
    BY <2>1, <2>2, <2>3
<1>4. CASE ScanEntry
  <2>1. /\ UNCHANGED <<files, fsVars, dirId, changes>> /\ pc = "entry" /\ InLoop
    BY <1>0, <1>4, ScanEntryEffect DEF InLoop
  <2>2. PICK q \in entries : /\ q \in Paths /\ entries' = entries \ {q}
                             /\ \/ Passes(q) \/ Spares(q) \/ Adds(q)
                                \/ \E r \in EqualRange(q) : Finds(q, r)
    BY <1>0, <1>4, ScanEntryEffect
  <2>3. /\ Deleted(part)' = Deleted(part) /\ Added(part) \subseteq Added(part)'
        /\ oldRecords' \subseteq oldRecords
        /\ \/ Changed(part)' = Changed(part)
           \/ /\ ~Scans(q) /\ Takes(q)
              /\ \E r : Changed(part)' = Changed(part) \cup {<<r, InfoOf(q)>>}
    <3>1. CASE Passes(q) \/ Spares(q)
      <4>1. part' = part /\ oldRecords' \subseteq oldRecords
        BY <3>1, EraseShrinks DEF Passes, Spares, EntryUnreadable
      <4> QED
        BY <4>1 DEF Deleted, Added, Changed
    <3>2. CASE Adds(q)
      BY <3>2 DEF Adds
    <3>3. ASSUME NEW r \in EqualRange(q), Finds(q, r)
          PROVE  /\ Deleted(part)' = Deleted(part) /\ Added(part)' = Added(part)
                 /\ oldRecords' = oldRecords \ {r}
                 /\ \/ Changed(part)' = Changed(part)
                    \/ /\ ~Scans(q) /\ Takes(q)
                       /\ Changed(part)' = Changed(part) \cup {<<r[1], InfoOf(q)>>}
      BY <3>3 DEF Finds, Added, Changed
    <3> QED
      BY <2>2, <3>1, <3>2, <3>3
  <2>4. ~Scans(q) /\ Takes(q) => ~InfoOf(q).isDir
    BY <1>0, <2>2, InfoOfType DEF Takes, Kinds, WellNamed
  <2>5. rec \in Changed(part)
    BY <1>b, <1>c, <2>3, <2>4
  <2>6. Staying' = Staying
    BY <2>1, <2>3 DEF Staying, Deleted
  <2>7. CASE p = q
    <3>1. /\ ~shouldBreak /\ ~Unreadable(p) /\ Recursive(p)
          /\ is_directory(p) \/ (p \in Supported /\ Exists(p))
      BY <1>0, <1>d, <1>e, <2>1, <2>5, NotInterrupted, SteadyIsReadable
         DEF Wanted, Listing, Recursive
    <3>2. Takes(p)
      BY <3>1 DEF Takes, Scans
    <3>3. CASE Adds(p)
      <4>1. InfoOf(p) \in Added(part)' /\ InfoOf(p).parentID = dirId /\ InfoOf(p).fileName = p
        BY <1>0, <1>c, <3>3, InfoOfType DEF Adds
      <4> QED
        BY <2>1, <4>1 DEF IsAdded
    <3>4. ASSUME NEW r \in EqualRange(p), Finds(p, r) PROVE FoundRow(p)'
      <4>1. r \in oldRecords /\ r[2].fileName = p /\ oldRecords' = oldRecords \ {r}
        BY <3>4 DEF EqualRange, Finds
      <4>2. /\ r[1] \in DOMAIN files /\ r = <<r[1], files[r[1]]>>
            /\ files[r[1]].parentID = dirId /\ files[r[1]].fileName = p
        BY <1>f, <2>1, <4>1
      <4>3. r[1] \notin Deleted(part) /\ r[1] \notin Deleted(changes)
        BY <1>d, <2>1, <4>1, <4>2 DEF DeletionsInOrder
      <4> QED
        BY <2>1, <2>6, <4>1, <4>2, <4>3 DEF FoundRow, Staying
    <3> QED
      BY <2>2, <2>7, <3>1, <3>2, <3>3, <3>4 DEF Passes, Spares, EntryUnreadable
  <2>8. CASE p # q
    <3>1. FoundRow(p) => FoundRow(p)'
      BY <2>1, <2>3, <2>6 DEF FoundRow
    <3>2. IsAdded(Added(part), dirId, p) => IsAdded(Added(part)', dirId', p)
      BY <2>1, <2>3 DEF IsAdded
    <3> QED
      BY <1>e, <2>1, <2>2, <2>5, <2>8, <3>1, <3>2
  <2> QED
    BY <2>7, <2>8
<1>5. CASE GoesOn /\ files' = files
  <2>1. UNCHANGED <<part, changes, dirId, entries, oldRecords>> /\ InLoop
    BY <1>5 DEF GoesOn, InLoop
  <2>2. rec \in Changed(part) /\ Added(part)' = Added(part) /\ Staying' = Staying
    BY <1>5, <2>1 DEF Changed, Added, Staying, Deleted
  <2>3. FoundRow(p) => FoundRow(p)'
    BY <1>5, <2>1, <2>2 DEF FoundRow
  <2> QED
    BY <1>e, <2>1, <2>2, <2>3
<1>6. CASE NotesMissing /\ files' = files
  <2>1. UNCHANGED <<changes, dirId, entries>> /\ InLoop
    BY <1>6 DEF NotesMissing, InLoop
  <2>2. PICK r \in oldRecords : /\ Deleted(part)' = Deleted(part) \cup {r[1]}
                                /\ oldRecords' = oldRecords \ {r}
    BY <1>0, <1>6, NotesMissingEffect
  <2>3. rec \in Changed(part) /\ Added(part)' = Added(part)
    BY <1>0, <1>6, NotesMissingEffect
  <2>4. Deleted(changes)' = Deleted(changes)
    BY <2>1 DEF Deleted
  <2>5. r = <<r[1], files[r[1]]>>
    BY <1>f, <2>1
  <2>6. FoundRow(p) => FoundRow(p)'
    BY <1>6, <2>1, <2>2, <2>4, <2>5 DEF FoundRow, Staying
  <2> QED
    BY <1>e, <2>1, <2>3, <2>6
<1>7. CASE OutsideStep
  <2>1. UNCHANGED <<files, pc, part, changes, dirId, entries, oldRecords>>
    BY <1>7, OutsideLeavesScan DEF OutsideStep
  <2>2. InLoop /\ rec \in Changed(part) /\ Added(part)' = Added(part) /\ Staying' = Staying
    BY <2>1 DEF InLoop, Changed, Added, Staying, Deleted
  <2>3. FoundRow(p) => FoundRow(p)'
    BY <2>1, <2>2 DEF FoundRow
  <2> QED
    BY <1>e, <2>1, <2>2, <2>3
<1> QED
  BY <1>0, <1>a, <1>1, <1>2, <1>3, <1>4, <1>5, <1>6, <1>7, StepKinds

LEMMA DirectoriesInit ==
    ASSUME Init, Sensible
    PROVE  DirectoriesInv
<1>1. /\ part = NoChanges /\ changes = NoChanges /\ pc = "loop" /\ committed = files
      /\ disk \in InitialDisks /\ clock = 1
  BY DEF Init, FsInit
<1>2. Changed(part) = {} /\ Added(part) = {} /\ Changed(changes) = {} /\ Added(changes) = {}
  BY <1>1, NothingNoted
<1>3. \A p \in Paths : disk[p].mtime = 1 /\ (is_directory(p) => p \in MayBeDir)
  BY <1>1, FileSystemAssumption DEF is_directory
<1>4. Kinds /\ Times
  BY <1>1, <1>2, <1>3 DEF Sensible, Kinds, Times
<1> QED
  BY <1>1, <1>4 DEF DirectoriesInv, ScannedOnce, InScanDir, InRounds

\* If the widget forgets an expanded row as soon as its record is deleted, what an idle
\* scan looks at is a directory in the table or not in the table.
THEOREM ActiveIdsAreDirectoriesIfPrompt ==
    ASSUME WellNamed, PromptWidget
    PROVE  Sensible /\ Spec => []ActiveIdsAreDirectories
<1> DEFINE Inv == WorkInv /\ Kinds /\ ExpandedAreDirectories
<1>1. Sensible /\ Init => Inv
  <2> SUFFICES ASSUME Sensible, Init PROVE Inv
    OBVIOUS
  <2>1. WorkInv /\ Kinds
    BY CourseInit, DirectoriesInit DEF DirectoriesInv
  <2>2. ExpandedAreDirectories
    BY DEF Init, ExpandedAreDirectories, InRounds
  <2> QED
    BY <2>1, <2>2
<1>2. Inv /\ [Next]_vars => Inv'
  BY CourseInvStep, KindsStep, ExpandedAreDirectoriesStep
<1>3. Inv => ActiveIdsAreDirectories
  BY DEF WorkInv, CourseInv, Course, ExpandedAreDirectories, ActiveIdsAreDirectories, InRounds, dirs
<1> QED
  BY <1>1, <1>2, <1>3, PTL DEF Spec

LEMMA MissingInit == Sensible /\ NothingMissing /\ Init => WorkInv /\ DirectoriesInv /\ MissingInv
<1> SUFFICES ASSUME Sensible, NothingMissing, Init PROVE WorkInv /\ DirectoriesInv /\ MissingInv
  OBVIOUS
<1>1. pc = "loop"
  BY DEF Init
<1> QED
  BY <1>1, CourseInit, DirectoriesInit
     DEF MissingInv, DeletionsInOrder, FullScanOfDirectories, InWork, InScan, InRounds,
         InSave, InScanDir, InLoop

LEMMA MissingStep ==
    ASSUME WellNamed, WorkInv, DirectoriesInv, MissingInv, ActiveIdsAreDirectories, [Next]_vars
    PROVE  (WorkInv /\ DirectoriesInv /\ MissingInv)'
<1> SUFFICES MissingInv' /\ DirectoriesInv'
  BY CourseInvStep
<1>1. DirectoriesInv'
  BY KindsStep, TimesStep, ScannedOnceStep DEF DirectoriesInv
<1>2. DeletionsInOrder' /\ FullScanOfDirectories'
  BY DeletionsInOrderStep, FullScanStep DEF MissingInv, DirectoriesInv
<1>3. NothingMissing'
  BY NothingMissingStep DEF MissingInv
<1>4. InWork' /\ ~shouldBreak' => UpToDateHaveAll'
  BY UpToDateHaveAllStep DEF MissingInv
<1>5. InWork' /\ ~shouldBreak' /\ pc' \notin {"deleting", "committing"} => ChangesHaveAll'
  BY ChangesHaveAllStep DEF MissingInv
<1>6. InLoop' /\ ~shouldBreak' => PartHasAll'
  BY PartHasAllStep DEF MissingInv
<1> QED
  BY <1>1, <1>2, <1>3, <1>4, <1>5, <1>6 DEF MissingInv

\* Whatever interrupts scans and saves, and whatever fails, a directory whose record is
\* up to date has a record for every song and every directory in it, as long as no id
\* of a deleted expanded row has been given to a song.
THEOREM NothingIsMissing ==
    ASSUME WellNamed
    PROVE  Sensible /\ NothingMissing /\ Spec /\ []ActiveIdsAreDirectories => []NothingMissing
<1>1. WorkInv /\ DirectoriesInv /\ MissingInv /\ ActiveIdsAreDirectories /\ [Next]_vars =>
         (WorkInv /\ DirectoriesInv /\ MissingInv)'
  BY MissingStep
<1>2. MissingInv => NothingMissing
  BY DEF MissingInv
<1> QED
  BY <1>1, <1>2, MissingInit, PTL DEF Spec

\* So it is at all times if the widget forgets expanded rows promptly.
COROLLARY NothingIsMissingIfPrompt ==
    ASSUME WellNamed, PromptWidget
    PROVE  Sensible /\ NothingMissing /\ Spec => []NothingMissing
  BY NothingIsMissing, ActiveIdsAreDirectoriesIfPrompt, PTL

-----------------------------------------------------------------------------
(* Nothing is left behind. *)

LEMMA EntriesKept ==
    ASSUME TypeOK, [Next]_vars, NEW info \in FileInfo, info.lastWriteTime <= clock,
           CurrentAfter(info)
    PROVE  /\ Current(info)
           /\ \A q \in Paths : Up[q] = info.fileName => (Exists(q)' <=> Exists(q))
<1>1. UNCHANGED fsVars \/ DiskStep
  BY OthersLeaveDisk
<1>2. ASSUME NEW inf \in FileInfo, inf.lastWriteTime <= clock, Current(inf)'
      PROVE  /\ Current(inf)
             /\ \A q \in Paths : Up[q] = inf.fileName => disk'[q].kind = disk[q].kind
  BY <1>1, <1>2, CurrentBefore
<1>3. /\ Current(info)
      /\ \A q \in Paths : Up[q] = info.fileName => disk'[q].kind = disk[q].kind
  BY <1>2 DEF CurrentAfter, Current, is_directory
<1> QED
  BY <1>3 DEF Exists

\* Rows stay where they are in the tree, and are inserted where they belong.
LEMMA InPlaceStep ==
    ASSUME WorkInv, Places, [Next]_vars
    PROVE  InPlace(files)' /\ InPlace(committed)'
<1>0. /\ TypeOK /\ RootedInv /\ RootedInv' /\ NamesKept
      /\ InPlace(files) /\ InPlace(committed)
  BY RootedStep DEF WorkInv, CourseInv, Places, RootedInv
<1>1. CASE files' \in {files, committed} /\ committed' \in {files, committed}
  BY <1>0, <1>1 DEF InPlace
<1>2. CASE Inserts /\ committed' = committed
  <2> DEFINE a == Head(changes.added)
  <2>1. pc = "adding" /\ a \in Added(changes)
    BY <1>0, <1>2, InsertsEffect DEF Inserts
  <2>2. Added(changes) \subseteq Insertable(files)
    BY <1>0, <2>1, NotedTypes DEF RootedInv, ChangesApply, Applicable
  <2>3. a.parentID # ROOT_RECORD_ID =>
            a.parentID \in DOMAIN files /\ Up[a.fileName] = files[a.parentID].fileName
    BY <2>1, <2>2 DEF Insertable, ParentExists, Places, Belongs
  <2>4. \A i \in DOMAIN files : files[i].parentID \in DOMAIN files \cup {ROOT_RECORD_ID}
    BY <1>0 DEF RootedInv, Rooted, ParentsAreOlder, ParentExists
  <2>5. /\ DOMAIN files' = DOMAIN files \cup {NewRowId(files)} /\ files'[NewRowId(files)] = a
        /\ \A i \in DOMAIN files : files'[i] = files[i]
    BY <1>0, <1>2, RowsAfterInsert
  <2> QED
    BY <1>0, <1>2, <2>3, <2>4, <2>5 DEF InPlace
<1>3. CASE Updates /\ committed' = committed
  <2>1. \A i \in DOMAIN files : files[i].parentID \in DOMAIN files \cup {ROOT_RECORD_ID}
    BY <1>0 DEF RootedInv, Rooted, ParentsAreOlder, ParentExists
  <2> QED
    BY <1>0, <1>3, <2>1, UpdatesInPlace DEF InPlace
<1>4. CASE Deletes /\ committed' = committed
  <2>1. \A i \in DOMAIN files' : files'[i].parentID \in DOMAIN files' \cup {ROOT_RECORD_ID}
    BY <1>0 DEF RootedInv, Rooted, ParentsAreOlder, ParentExists
  <2> QED
    BY <1>0, <1>4, <2>1, RowsAfterDelete DEF InPlace
<1> QED
  BY <1>1, <1>2, <1>3, <1>4, TablesAfter

\* The entries still to be visited are those of the directory being scanned.
EntriesInPlace ==
    InLoop /\ dirId \in DOMAIN files => \A p \in entries : Up[p] = files[dirId].fileName

LEMMA EntriesInPlaceStep ==
    ASSUME WorkInv, EntriesInPlace, [Next]_vars
    PROVE  EntriesInPlace'
<1> USE DEF EntriesInPlace, InLoop
<1>0. TypeOK /\ Course /\ TransactionInv
  BY DEF WorkInv, CourseInv, RootedInv
<1>a. pc = "openDir" => dirId # ROOT_RECORD_ID
  BY <1>0 DEF Course
<1>1. CASE RestStep \/ ClearContinue \/ ScanDirs \/ ScanDirsDone \/ CheckDir \/ SaveStep
  BY <1>0, <1>1, RestEffect, CheckDirEffect
     DEF ClearContinue, ScanDirs, ScanDirsDone, SaveStep, InWork, InScan, InRounds
<1>2. CASE ScanEntry
  BY <1>0, <1>2, ScanEntryEffect
<1>3. CASE (Enters \/ Leaves \/ GivesUp \/ GoesOn \/ NotesMissing) /\ files' = files
  <2>1. ROOT_RECORD_ID \notin DOMAIN files
    BY <1>0 DEF TypeOK, IsTable, RecordID, ROOT_RECORD_ID
  <2>2. CASE Enters
    BY <1>3, <2>1, <2>2 DEF Enters, Listing
  <2>3. CASE Leaves \/ GivesUp \/ GoesOn \/ NotesMissing
    BY <1>3, <2>3 DEF Leaves, GivesUp, GoesOn, NotesMissing
  <2> QED
    BY <1>3, <2>2, <2>3
<1>4. CASE OutsideStep
  BY <1>4, OutsideLeavesScan DEF OutsideStep
<1> QED
  BY <1>0, <1>a, <1>1, <1>2, <1>3, <1>4, StepKinds

\* What is noted of new entries.
PartBelongs == \A a \in Added(part) : Belongs(a)
ChangesBelong == InScan \/ pc \in {"save", "adding"} => \A a \in Added(changes) : Belongs(a)

LEMMA PlacesParts ==
    Places <=> /\ InPlace(files) /\ InPlace(committed)
               /\ PartBelongs /\ ChangesBelong /\ EntriesInPlace
  BY DEF Places, PartBelongs, ChangesBelong, EntriesInPlace

LEMMA BelongsStays ==
    ASSUME TypeOK, Times, [Next]_vars, NEW a, Belongs(a),
           files' = files \/ (Inserts /\ ParentExists(files, a))
    PROVE  Belongs(a)'
<1> SUFFICES ASSUME a.parentID \in DOMAIN files'
             PROVE  /\ Up[a.fileName] = files'[a.parentID].fileName
                    /\ ~CurrentAfter(files'[a.parentID])
  BY DEF Belongs, CurrentAfter, Current, is_directory
<1>1. a.parentID \in DOMAIN files /\ files'[a.parentID] = files[a.parentID]
  <2>1. ROOT_RECORD_ID # NewRowId(files) \/ files' = files
    BY RowsAfterInsert DEF RecordID, ROOT_RECORD_ID
  <2> QED
    BY <2>1, RowsAfterInsert DEF ParentExists
<1>2. files[a.parentID] \in FileInfo /\ files[a.parentID].lastWriteTime <= clock
  BY <1>1, NotedOfTypes DEF Times
<1> QED
  BY <1>1, <1>2, EntriesKept DEF Belongs

LEMMA PartBelongsStep ==
    ASSUME WorkInv, DirectoriesInv, PartBelongs, EntriesInPlace, [Next]_vars
    PROVE  PartBelongs'
<1>0. /\ TypeOK /\ RootedInv /\ Course /\ Stages /\ TransactionInv /\ Times /\ ScannedOnce
  BY DEF WorkInv, CourseInv, RootedInv, DirectoriesInv
<1>a. pc = "openDir" => dirId # ROOT_RECORD_ID
  BY <1>0 DEF Course
<1>b. ASSUME Added(part)' \subseteq Added(part), files' = files PROVE PartBelongs'
  BY <1>0, <1>b, BelongsStays DEF PartBelongs
<1>c. ASSUME part' = NoChanges PROVE PartBelongs'
  BY <1>c, NothingNoted DEF PartBelongs, Added
<1>1. CASE RestStep
  BY <1>1, <1>b, RestEffect DEF Added
<1>2. CASE ClearContinue \/ ScanDirs \/ ScanDirsDone
  BY <1>2, <1>b DEF ClearContinue, ScanDirs, ScanDirsDone, dbVars, tableVars, Added
<1>3. CASE CheckDir
  <2>1. files' = files
    BY <1>0, <1>3, CheckDirEffect
  <2>2. Added(part)' \subseteq Added(part)
    BY <1>0, <1>3, CheckDirNotes DEF SkipsDir, DropsDir, RenewsDir, Added
  <2> QED
    BY <1>b, <2>1, <2>2
<1>4. CASE ScanEntry
  <2>1. files' = files /\ pc = "entry" /\ UNCHANGED fsVars /\ InLoop /\ InScanDir
    BY <1>0, <1>4, ScanEntryEffect DEF InLoop, InScanDir
  <2>2. PICK p \in entries : p \in Paths /\ (\/ Passes(p) \/ Spares(p) \/ Adds(p)
                                             \/ \E r \in EqualRange(p) : Finds(p, r))
    BY <1>0, <1>4, ScanEntryEffect
  <2>3. Added(part)' \subseteq Added(part) \cup {InfoOf(p)}
    BY <2>2 DEF Passes, Spares, EntryUnreadable, Adds, Finds, Added
  <2>4. Belongs(InfoOf(p))
    BY <1>0, <2>1, <2>2, InfoOfType DEF Belongs, EntriesInPlace, ScannedOnce
  <2>5. \A a \in Added(part) \cup {InfoOf(p)} : Belongs(a)'
    BY <1>0, <2>1, <2>4, BelongsStays DEF PartBelongs
  <2> QED
    BY <2>3, <2>5 DEF PartBelongs
<1>5. CASE (Enters \/ GoesOn) /\ files' = files
  BY <1>5, <1>b DEF Enters, GoesOn, Added
<1>6. CASE Leaves \/ GivesUp
  BY <1>6, <1>c DEF Leaves, GivesUp
<1>7. CASE NotesMissing /\ files' = files
  BY <1>0, <1>7, <1>b, NotesMissingEffect
<1>8. CASE SaveStep
  BY <1>8, <1>c DEF SaveStep
<1>9. CASE OutsideStep
  BY <1>9, <1>b, OutsideLeavesScan DEF OutsideStep, Added
<1> QED
  BY <1>0, <1>a, <1>1, <1>2, <1>3, <1>4, <1>5, <1>6, <1>7, <1>8, <1>9, StepKinds

LEMMA ChangesBelongStep ==
    ASSUME WorkInv, DirectoriesInv, PartBelongs, ChangesBelong, [Next]_vars
    PROVE  ChangesBelong'
<1>0. /\ TypeOK /\ RootedInv /\ Course /\ TransactionInv /\ Times
  BY DEF WorkInv, CourseInv, RootedInv, DirectoriesInv
<1>a. pc = "openDir" => dirId # ROOT_RECORD_ID
  BY <1>0 DEF Course
<1> DEFINE Noting == InScan \/ pc \in {"save", "adding"}
<1>b. ASSUME Noting, Added(changes)' \subseteq Added(changes) \cup Added(part), files' = files
      PROVE  ChangesBelong'
  BY <1>0, <1>b, BelongsStays DEF PartBelongs, ChangesBelong
<1>c. ASSUME Added(changes)' = {} \/ ~Noting' PROVE ChangesBelong'
  BY <1>c DEF ChangesBelong
<1>1. CASE RestStep
  BY <1>1, <1>c, RestEffect DEF InWork, InSave
<1>2. CASE ClearContinue \/ ScanDirs
  BY <1>2, <1>c, NothingNoted DEF ClearContinue, ScanDirs, Added
<1>3. CASE ScanDirsDone \/ CheckDir \/ ScanEntry
  <2>1. InScan /\ files' = files
    BY <1>0, <1>3, CheckDirEffect, ScanEntryEffect
       DEF ScanDirsDone, InScan, InRounds, dbVars, tableVars
  <2>2. Added(changes)' = Added(changes)
    BY <1>0, <1>3, CheckDirNotes, ScanEntryEffect
       DEF ScanDirsDone, SkipsDir, DropsDir, RenewsDir, Added
  <2> QED
    BY <1>b, <2>1, <2>2
<1>4. CASE (Enters \/ Leaves \/ GoesOn \/ NotesMissing) /\ files' = files
  <2>1. InScan
    BY <1>4 DEF Enters, Leaves, GoesOn, NotesMissing, InScan, InRounds, InScanDir
  <2>2. Added(changes)' \subseteq Added(changes) \cup Added(part)
    BY <1>0, <1>4, LeavesEffect DEF Enters, GoesOn, NotesMissing, Added
  <2> QED
    BY <1>4, <1>b, <2>1, <2>2
<1>5. CASE GivesUp /\ files' = files
  <2>1. Noting \/ ~Noting'
    BY <1>5 DEF GivesUp, InScan, InRounds
  <2>2. Added(changes)' = Added(changes)
    BY <1>5 DEF GivesUp, Added
  <2> QED
    BY <1>5, <1>b, <1>c, <2>1, <2>2
<1>6. CASE SaveStep
  <2>1. CASE Begins
    BY <1>b, <2>1 DEF Begins, Added
  <2>2. CASE Inserts
    <3>1. Added(changes)' \subseteq Added(changes) /\ pc = "adding"
      BY <1>0, <2>2, InsertsEffect DEF Inserts
    <3>2. Added(changes) \subseteq Insertable(files)
      BY <1>0, <3>1, NotedTypes DEF RootedInv, ChangesApply, Applicable
    <3>3. \A a \in Added(changes) : Belongs(a)'
      BY <1>0, <2>2, <3>1, <3>2, BelongsStays DEF ChangesBelong, Insertable
    <3> QED
      BY <3>1, <3>3 DEF ChangesBelong
  <2>3. CASE PhaseEnds \/ Updates \/ Deletes \/ Ends
    BY <1>6, <1>c, <2>3 DEF SaveStep, PhaseEnds, Updates, Deletes, Ends
  <2> QED
    BY <1>6, <2>1, <2>2, <2>3 DEF SaveStep
<1>7. CASE OutsideStep
  <2>1. UNCHANGED <<files, pc, changes>>
    BY <1>7, OutsideLeavesScan DEF OutsideStep
  <2>2. Noting' = Noting /\ Added(changes)' = Added(changes)
    BY <2>1 DEF InScan, InRounds, Added
  <2> QED
    BY <1>b, <1>c, <2>1, <2>2
<1> QED
  BY <1>0, <1>a, <1>1, <1>2, <1>3, <1>4, <1>5, <1>6, <1>7, StepKinds

\* Only a save that is committed changes what others see.
LEMMA DroppedAfter ==
    ASSUME WorkInv, [Next]_vars
    PROVE  \/ UNCHANGED <<committed, dropped>>
           \/ /\ SaveStep /\ pc = "committing" /\ commit
              /\ dropped' = (dropped \cup Undeleted) \cap DOMAIN files
<1>0. TypeOK /\ Course /\ TransactionInv
  BY DEF WorkInv, CourseInv, RootedInv
<1>a. pc = "openDir" => dirId # ROOT_RECORD_ID
  BY <1>0 DEF Course
<1>1. CASE RestStep \/ CheckDir \/ ScanEntry \/ OutsideStep
  BY <1>0, <1>1, RestEffect, CheckDirEffect, ScanEntryEffect, OutsideLeavesScan DEF OutsideStep
<1>2. CASE ClearContinue \/ ScanDirs \/ ScanDirsDone
  BY <1>2 DEF ClearContinue, ScanDirs, ScanDirsDone, dbVars, tableVars
<1>3. CASE SaveStep /\ ~Ends
  BY <1>3 DEF SaveStep, Begins, PhaseEnds, Inserts, Updates, Deletes
<1>4. CASE SaveStep /\ Ends
  BY <1>4 DEF Ends, Undo
<1> QED
  BY <1>0, <1>a, <1>1, <1>2, <1>3, <1>4, StepKinds

\* What the third loop of save, or its interruption, is to account for.
SaveAccounted ==
    \A i \in DOMAIN files : Current(files[i]) => RowsAccounted(i, dropped \cup Deleted(changes))

LEMMA NothingLeftBehindStep ==
    ASSUME WorkInv, DirectoriesInv, InPlace(committed), NothingLeftBehind, [Next]_vars,
           InSave => SaveAccounted
    PROVE  NothingLeftBehind'
<1>0. TypeOK /\ Times
  BY DEF WorkInv, CourseInv, RootedInv, DirectoriesInv
<1>1. SUFFICES ASSUME NEW i \in DOMAIN committed', CurrentAfter(committed'[i]),
                      NEW j \in DOMAIN committed', committed'[j].parentID = i,
                      Steady(committed'[j].fileName)
               PROVE  disk'[committed'[j].fileName].kind # "none" \/ j \in dropped'
  BY DEF NothingLeftBehind, UpToDate, childrenFiles, CurrentAfter, Exists, is_directory
<1>2. CASE UNCHANGED <<committed, dropped>>
  <2>1. /\ committed[i] \in FileInfo /\ committed[i].lastWriteTime <= clock
        /\ committed[j].fileName \in Paths /\ i # ROOT_RECORD_ID
    BY <1>0, <1>1, <1>2, NotedOfTypes DEF Times, FileInfo, RecordID, ROOT_RECORD_ID
  <2>2. Current(committed[i])
        /\ \A q \in Paths : Up[q] = committed[i].fileName => (Exists(q)' <=> Exists(q))
    BY <1>0, <1>1, <1>2, <2>1, EntriesKept
  <2>3. Up[committed[j].fileName] = committed[i].fileName
    BY <1>1, <1>2, <2>1 DEF InPlace
  <2>4. <<j, committed[j]>> \in childrenFiles(committed, i)
    BY <1>1, <1>2 DEF childrenFiles
  <2>5. Exists(committed[j].fileName) \/ j \in dropped
    BY <1>1, <1>2, <2>2, <2>4 DEF NothingLeftBehind, UpToDate, Current
  <2> QED
    BY <1>2, <2>1, <2>2, <2>3, <2>5 DEF Exists
<1>3. CASE /\ SaveStep /\ pc = "committing" /\ commit
           /\ dropped' = (dropped \cup Undeleted) \cap DOMAIN files
  <2>1. committed' = files /\ UNCHANGED fsVars /\ InSave
    BY <1>3 DEF commit, SaveStep, InSave
  <2>2. Current(files[i])
    BY <1>1, <2>1 DEF CurrentAfter, Current, is_directory, fsVars
  <2>3. Exists(files[j].fileName) \/ j \in dropped \cup Deleted(changes)
    BY <1>1, <2>1, <2>2 DEF SaveAccounted, RowsAccounted, RowsBelow
  <2>4. Deleted(changes) = Undeleted
    BY DEF Deleted, Undeleted, Range
  <2> QED
    BY <1>1, <1>3, <2>1, <2>3, <2>4 DEF Exists, fsVars
<1> QED
  BY <1>2, <1>3, DroppedAfter

LEMMA SaveAccountedStep ==
    ASSUME Flaky = {}, WorkInv, DirectoriesInv, Places, NothingLeftBehind, [Next]_vars,
           InSave => SaveAccounted,
           InWork /\ ~shouldBreak /\ pc \notin {"deleting", "committing"} => ChangesAccounted,
           InSave'
    PROVE  SaveAccounted'
<1>0. /\ TypeOK /\ RootedInv /\ Course /\ TransactionInv /\ Kinds /\ Times /\ NamesKept
      /\ Uncommitted
  BY DEF WorkInv, CourseInv, RootedInv, DirectoriesInv
<1>a. pc = "openDir" => dirId # ROOT_RECORD_ID
  BY <1>0 DEF Course
<1>b. SUFFICES ASSUME NEW i \in DOMAIN files', CurrentAfter(files'[i]),
                      NEW j \in DOMAIN files', files'[j].parentID = i
               PROVE  \/ disk'[files'[j].fileName].kind # "none"
                      \/ j \in dropped' \/ j \in Deleted(changes)'
  BY DEF SaveAccounted, RowsAccounted, RowsBelow, CurrentAfter, Current, Exists, is_directory
<1>c. ASSUME SaveStep, NEW info, CurrentAfter(info) PROVE Current(info)
  BY <1>c DEF SaveStep, fsVars, CurrentAfter, Current, is_directory
<1>d. ASSUME SaveStep, NEW p, disk'[p].kind = "none" PROVE ~Exists(p)
  BY <1>d DEF SaveStep, fsVars, Exists
<1>1. SaveStep \/ OutsideStep
  <2>1. CASE RestStep \/ CheckDir \/ ScanEntry
    BY <1>0, <2>1, RestEffect, CheckDirEffect, ScanEntryEffect DEF InWork, InSave
  <2>2. CASE ClearContinue \/ ScanDirs \/ ScanDirsDone
    BY <2>2 DEF ClearContinue, ScanDirs, ScanDirsDone, InSave
  <2>3. CASE Enters \/ Leaves \/ GivesUp \/ GoesOn \/ NotesMissing
    BY <2>3 DEF Enters, Leaves, GivesUp, GoesOn, NotesMissing, InSave
  <2> QED
    BY <1>0, <1>a, <2>1, <2>2, <2>3, StepKinds
<1>2. CASE SaveStep /\ Begins
  <2>1. files = committed /\ UNCHANGED <<files, dropped>>
    BY <1>0, <1>2 DEF SaveStep, Begins, Uncommitted
  <2>2. <<j, files[j]>> \in childrenFiles(committed, i) /\ UpToDate(committed, i)
    BY <1>2, <1>b, <1>c, <2>1 DEF childrenFiles, UpToDate, Current
  <2>3. Exists(files[j].fileName) \/ j \in dropped
    BY <1>b, <2>1, <2>2 DEF NothingLeftBehind, Steady
  <2> QED
    BY <1>2, <1>d, <2>1, <2>3
<1>3. CASE SaveStep /\ PhaseEnds
  <2>1. UNCHANGED <<files, dropped, changes>> /\ InSave
    BY <1>3 DEF SaveStep, PhaseEnds, InSave
  <2>2. Exists(files[j].fileName) \/ j \in dropped \cup Deleted(changes)
    BY <1>3, <1>b, <1>c, <2>1 DEF SaveAccounted, RowsAccounted, RowsBelow
  <2> QED
    BY <1>3, <1>d, <2>1, <2>2 DEF Deleted
<1>4. CASE SaveStep /\ Inserts
  <2>1. dropped' = dropped /\ InSave /\ pc = "adding" /\ Deleted(changes)' = Deleted(changes)
    BY <1>0, <1>4, InsertsEffect DEF SaveStep, Inserts, InSave
  <2>2. i \in DOMAIN files /\ files'[i] = files[i] /\ Current(files[i])
    <3>1. Current(files'[i])
      BY <1>4, <1>b, <1>c
    <3> QED
      BY <1>0, <1>4, <1>b, <3>1, RowsAfterInsert, NewRowIsOutdated
  <2>3. j \in DOMAIN files /\ files'[j] = files[j]
    <3>1. Head(changes.added) \in Added(changes)
      BY <1>0, <1>4, InsertsEffect
    <3>2. Head(changes.added).parentID # i
      BY <2>1, <2>2, <3>1 DEF Places, Belongs
    <3> QED
      BY <1>0, <1>4, <1>b, <3>2, RowsAfterInsert
  <2>4. Exists(files[j].fileName) \/ j \in dropped \cup Deleted(changes)
    BY <1>b, <2>1, <2>2, <2>3 DEF SaveAccounted, RowsAccounted, RowsBelow
  <2> QED
    BY <1>4, <1>d, <2>1, <2>3, <2>4
<1>5. CASE SaveStep /\ Updates
  <2> DEFINE rec == Head(changes.changed)
  <2>1. /\ dropped' = dropped /\ InSave /\ InWork /\ pc = "changing" /\ ~shouldBreak
        /\ Deleted(changes)' = Deleted(changes)
    BY <1>0, <1>5, UpdatesEffect DEF SaveStep, Updates, InSave, InWork
  <2>2. /\ i \in DOMAIN files /\ j \in DOMAIN files /\ Current(files'[i])
        /\ files[j].parentID = i /\ files'[j].fileName = files[j].fileName
    BY <1>0, <1>5, <1>b, <1>c, UpdatesInPlace
  <2>3. Exists(files[j].fileName) \/ j \in dropped \cup Deleted(changes)
    <3>1. CASE i = rec[1]
      <4>1. rec \in Changed(changes) /\ Current(rec[2])
        BY <1>0, <1>5, <2>2, <3>1, UpdatesInPlace
      <4> QED
        BY <2>1, <2>2, <3>1, <4>1 DEF ChangesAccounted, RowsAccounted, RowsBelow
    <3>2. CASE i # rec[1]
      <4>1. Current(files[i])
        BY <1>0, <1>5, <2>2, <3>2, UpdatesInPlace
      <4> QED
        BY <2>1, <2>2, <4>1 DEF SaveAccounted, RowsAccounted, RowsBelow
    <3> QED
      BY <3>1, <3>2
  <2> QED
    BY <1>5, <1>d, <2>1, <2>2, <2>3
<1>6. CASE SaveStep /\ Deletes
  <2>1. /\ dropped' = dropped /\ InSave
        /\ Deleted(changes) = {Head(changes.deleted)} \cup Deleted(changes)'
    BY <1>0, <1>6, DeletesEffect DEF SaveStep, Deletes, InSave
  <2>2. /\ i \in DOMAIN files /\ j \in DOMAIN files /\ j # Head(changes.deleted)
        /\ files'[i] = files[i] /\ files'[j] = files[j] /\ Current(files[i])
    BY <1>6, <1>b, <1>c, RowsAfterDelete
  <2>3. Exists(files[j].fileName) \/ j \in dropped \cup Deleted(changes)
    BY <1>b, <2>1, <2>2 DEF SaveAccounted, RowsAccounted, RowsBelow
  <2> QED
    BY <1>6, <1>d, <2>1, <2>2, <2>3
<1>7. CASE OutsideStep
  <2>1. UNCHANGED <<files, pc, changes, dropped>> /\ InSave
    BY <1>7, OutsideLeavesScan DEF OutsideStep, InSave
  <2>2. /\ files[i] \in FileInfo /\ files[i].lastWriteTime <= clock
        /\ files[j].fileName \in Paths /\ i # ROOT_RECORD_ID
    BY <1>0, <1>b, <2>1, NotedOfTypes DEF Times, FileInfo, RecordID, ROOT_RECORD_ID
  <2>3. /\ Current(files[i])
        /\ \A q \in Paths : Up[q] = files[i].fileName => (Exists(q)' <=> Exists(q))
    BY <1>0, <1>b, <2>1, <2>2, EntriesKept
  <2>4. Up[files[j].fileName] = files[i].fileName
    BY <1>b, <2>1, <2>2 DEF Places, InPlace
  <2>5. Exists(files[j].fileName) \/ j \in dropped \cup Deleted(changes)
    BY <1>b, <2>1, <2>3 DEF SaveAccounted, RowsAccounted, RowsBelow
  <2> QED
    BY <2>1, <2>2, <2>3, <2>4, <2>5 DEF Exists, Deleted
<1>8. CASE SaveStep /\ Ends
  BY <1>8 DEF Ends, InSave
<1> QED
  BY <1>1, <1>2, <1>3, <1>4, <1>5, <1>6, <1>7, <1>8 DEF SaveStep

LEMMA PartAccountedStep ==
    ASSUME WellNamed, Flaky = {}, WorkInv, DirectoriesInv, Places, [Next]_vars,
           InLoop /\ ~shouldBreak => PartAccounted,
           InLoop', ~shouldBreak'
    PROVE  PartAccounted'
<1>0. /\ TypeOK /\ RootedInv /\ Kinds /\ Times /\ ScannedOnce /\ Course /\ Stages /\ NamesKept
      /\ TransactionInv
  BY DEF WorkInv, CourseInv, RootedInv, DirectoriesInv
<1>a. pc = "openDir" => dirId # ROOT_RECORD_ID
  BY <1>0 DEF Course
<1>b. SUFFICES ASSUME NEW rec \in Changed(part)', CurrentAfter(rec[2])
               PROVE  /\ \A a \in Added(part)' :
                            a.parentID = dirId' => disk'[a.fileName].kind # "none"
                      /\ \A i \in RowsBelow(dirId)' :
                            \/ disk'[files'[i].fileName].kind # "none"
                            \/ i \in Deleted(part)' \/ <<i, files'[i]>> \in oldRecords'
  BY DEF PartAccounted, AdditionsExist, CurrentAfter, Current, Exists, is_directory
<1>c. rec[2].isDir
  BY <1>b DEF CurrentAfter
<1>d. InLoop => InWork /\ InScanDir
  BY DEF InLoop, InWork, InScan, InRounds, InScanDir
\* What is accounted for before the step still is as far as the disk is concerned.
<1>e. ASSUME InLoop, rec \in Changed(part)
      PROVE  /\ \A a \in Added(part) : a.parentID = dirId => disk'[a.fileName].kind # "none"
             /\ \A i \in RowsBelow(dirId) :
                   \/ disk'[files[i].fileName].kind # "none"
                   \/ i \in Deleted(part) \/ <<i, files[i]>> \in oldRecords
  <2>1. rec[2] \in FileInfo /\ rec[2].lastWriteTime <= clock
    BY <1>0, <1>e, NotedOfTypes DEF Times, FileRecord
  <2>2. /\ Current(rec[2])
        /\ \A q \in Paths : Up[q] = rec[2].fileName => (Exists(q)' <=> Exists(q))
    BY <1>0, <1>b, <2>1, EntriesKept
  <2>3. ~shouldBreak
    BY <1>0, <1>d, <1>e, NotInterrupted
  <2>4. Changed(part) \subseteq Replacing(files)
    BY <1>0, <1>d, <1>e, NotedTypes DEF RootedInv, ChangesApply, Applicable
  <2>5. rec[1] = dirId /\ dirId \in DOMAIN files /\ files[dirId].fileName = rec[2].fileName
    BY <1>0, <1>c, <1>d, <1>e, <2>4 DEF ScannedOnce, Replacing, NamesKept
  <2>6. dirId # ROOT_RECORD_ID
    BY <1>0, <2>5 DEF TypeOK, IsTable, RecordID, ROOT_RECORD_ID
  <2>7. ASSUME NEW a \in Added(part), a.parentID = dirId
        PROVE  Up[a.fileName] = rec[2].fileName /\ a.fileName \in Paths
    BY <1>0, <2>5, <2>7, NotedOfTypes DEF Places, Belongs, FileInfo
  <2>8. ASSUME NEW i \in RowsBelow(dirId)
        PROVE  Up[files[i].fileName] = rec[2].fileName /\ files[i].fileName \in Paths
    BY <1>0, <2>5, <2>6, NotedOfTypes DEF Places, InPlace, RowsBelow, FileInfo
  <2> QED
    BY <1>e, <2>2, <2>3, <2>7, <2>8 DEF PartAccounted, AdditionsExist, Exists
<1>1. CASE RestStep \/ ClearContinue \/ ScanDirs \/ ScanDirsDone \/ CheckDir \/ SaveStep
  BY <1>0, <1>1, RestEffect, CheckDirEffect
     DEF ClearContinue, ScanDirs, ScanDirsDone, SaveStep, InLoop, InScanDir, InScan, InRounds
<1>2. CASE (Leaves \/ GivesUp) /\ files' = files
  BY <1>2 DEF Leaves, GivesUp, InLoop
<1>3. CASE Enters /\ files' = files
  <2>1. part' = part /\ oldRecords' = childrenFiles(files, dirId')
    BY <1>3 DEF Enters
  <2>2. Added(part)' = {}
    <3>1. part = NoChanges \/ part.added = <<>>
      BY <1>0, <1>3 DEF Enters, Stages, RootedInv, ChangesApply, InScanDir
    <3> QED
      BY <2>1, <3>1, NothingNoted, RangeOfNone DEF Added
  <2> QED
    BY <1>3, <2>1, <2>2 DEF RowsBelow, childrenFiles
<1>4. CASE ScanEntry
  <2>1. /\ UNCHANGED <<files, fsVars, dirId, changes>> /\ pc = "entry" /\ InLoop
        /\ RowsBelow(dirId)' = RowsBelow(dirId)
    BY <1>0, <1>4, ScanEntryEffect DEF InLoop, RowsBelow
  <2>2. PICK q \in entries : /\ q \in Paths
                             /\ \/ Passes(q) \/ Spares(q) \/ Adds(q)
                                \/ \E r \in EqualRange(q) : Finds(q, r)
    BY <1>0, <1>4, ScanEntryEffect
  <2>3. Takes(q) => disk'[q].kind # "none"
    BY <2>1 DEF Takes, Scans, is_directory, Exists, fsVars
  <2>4. CASE Passes(q) \/ Spares(q)
    <3>1. UNCHANGED <<part, oldRecords>>
      BY <1>0, <2>4, AllIsReadable DEF Passes, Spares, EntryUnreadable
    <3>2. rec \in Changed(part) /\ Added(part)' = Added(part) /\ Deleted(part)' = Deleted(part)
      BY <3>1 DEF Changed, Added, Deleted
    <3> QED
      BY <1>e, <2>1, <3>1, <3>2
  <2>5. CASE Adds(q)
    <3>1. /\ rec \in Changed(part) /\ Deleted(part)' = Deleted(part)
          /\ Added(part)' = Added(part) \cup {InfoOf(q)} /\ oldRecords' = oldRecords /\ Takes(q)
      BY <1>b, <2>5 DEF Adds
    <3>2. InfoOf(q).fileName = q
      BY <1>0, <2>2, InfoOfType
    <3> QED
      BY <1>e, <2>1, <2>3, <3>1, <3>2
  <2>6. ASSUME NEW r \in EqualRange(q), Finds(q, r)
        PROVE  /\ \A a \in Added(part)' :
                     a.parentID = dirId' => disk'[a.fileName].kind # "none"
               /\ \A i \in RowsBelow(dirId)' :
                     \/ disk'[files'[i].fileName].kind # "none"
                     \/ i \in Deleted(part)' \/ <<i, files'[i]>> \in oldRecords'
    <3>1. /\ Deleted(part)' = Deleted(part) /\ Added(part)' = Added(part)
          /\ oldRecords' = oldRecords \ {r} /\ Takes(q)
          /\ \/ Changed(part)' = Changed(part)
             \/ ~Scans(q) /\ Changed(part)' = Changed(part) \cup {<<r[1], InfoOf(q)>>}
      BY <2>6 DEF Finds, Added, Changed
    <3>2. ~Scans(q) => ~InfoOf(q).isDir
      BY <1>0, <2>2, <3>1, InfoOfType DEF Takes, Kinds, WellNamed
    <3>3. rec \in Changed(part)
      BY <1>b, <1>c, <3>1, <3>2
    <3>4. r[2].fileName = q
      BY DEF EqualRange
    <3>5. \A i \in RowsBelow(dirId) : <<i, files[i]>> = r => disk'[files[i].fileName].kind # "none"
      BY <2>3, <3>1, <3>4
    <3> QED
      BY <1>e, <2>1, <3>1, <3>3, <3>5
  <2> QED
    BY <2>2, <2>4, <2>5, <2>6
<1>5. CASE GoesOn /\ files' = files
  <2>1. UNCHANGED <<part, dirId, oldRecords>> /\ InLoop
    BY <1>5 DEF GoesOn, InLoop
  <2>2. /\ rec \in Changed(part) /\ Added(part)' = Added(part) /\ Deleted(part)' = Deleted(part)
        /\ RowsBelow(dirId)' = RowsBelow(dirId)
    BY <1>5, <2>1 DEF Changed, Added, Deleted, RowsBelow
  <2> QED
    BY <1>5, <1>e, <2>1, <2>2
<1>6. CASE NotesMissing /\ files' = files
  <2>1. dirId' = dirId /\ InLoop /\ RowsBelow(dirId)' = RowsBelow(dirId)
    BY <1>6 DEF NotesMissing, InLoop, RowsBelow
  <2>2. PICK r \in oldRecords : /\ Deleted(part)' = Deleted(part) \cup {r[1]}
                                /\ oldRecords' = oldRecords \ {r}
    BY <1>0, <1>6, NotesMissingEffect
  <2>3. rec \in Changed(part) /\ Added(part)' = Added(part)
    BY <1>0, <1>6, NotesMissingEffect
  <2>4. \A i : <<i, files[i]>> = r => i = r[1]
    OBVIOUS
  <2> QED
    BY <1>6, <1>e, <2>1, <2>2, <2>3, <2>4
<1>7. CASE OutsideStep
  <2>1. UNCHANGED <<files, pc, part, dirId, oldRecords>>
    BY <1>7, OutsideLeavesScan DEF OutsideStep
  <2>2. /\ InLoop /\ rec \in Changed(part)
        /\ Added(part)' = Added(part) /\ Deleted(part)' = Deleted(part)
        /\ RowsBelow(dirId)' = RowsBelow(dirId)
    BY <2>1 DEF InLoop, Changed, Added, Deleted, RowsBelow
  <2> QED
    BY <1>e, <2>1, <2>2
<1> QED
  BY <1>0, <1>a, <1>1, <1>2, <1>3, <1>4, <1>5, <1>6, <1>7, StepKinds

LEMMA ChangesAccountedStep ==
    ASSUME WorkInv, DirectoriesInv, Places, AdditionsInOrder, [Next]_vars,
           InWork /\ ~shouldBreak /\ pc \notin {"deleting", "committing"} => ChangesAccounted,
           InLoop /\ ~shouldBreak => PartAccounted,
           InWork', ~shouldBreak', pc' \notin {"deleting", "committing"}
    PROVE  ChangesAccounted'
<1>0. /\ TypeOK /\ RootedInv /\ Times /\ Stages /\ ScannedOnce /\ Course /\ NamesKept
      /\ TransactionInv /\ AddedFirst
  BY DEF WorkInv, CourseInv, RootedInv, DirectoriesInv
<1>a. pc = "openDir" => dirId # ROOT_RECORD_ID
  BY <1>0 DEF Course
<1>b. SUFFICES ASSUME NEW rec \in Changed(changes)', CurrentAfter(rec[2])
               PROVE  /\ \A i \in RowsBelow(rec[1])' :
                            \/ disk'[files'[i].fileName].kind # "none"
                            \/ i \in Deleted(changes)'
                      /\ \A a \in Added(changes)' :
                            a.parentID = rec[1] => disk'[a.fileName].kind # "none"
  BY DEF ChangesAccounted, RowsAccounted, RowsBelow, AdditionsExist, CurrentAfter, Current,
         Exists, is_directory
<1>c. rec[2].isDir
  BY <1>b DEF CurrentAfter
<1>d. InWork \/ ClearContinue \/ ScanDirs
  BY WorkBegins
<1>f. InWork => ~shouldBreak
  BY <1>0, NotInterrupted
\* What is accounted for before the step still is as far as the disk is concerned.
<1>e. ASSUME InWork, pc \notin {"deleting", "committing"}, rec \in Changed(changes)
      PROVE  /\ \A i \in RowsBelow(rec[1]) :
                   disk'[files[i].fileName].kind # "none" \/ i \in Deleted(changes)
             /\ \A a \in Added(changes) :
                   a.parentID = rec[1] => disk'[a.fileName].kind # "none"
  <2>1. rec[2] \in FileInfo /\ rec[2].lastWriteTime <= clock
    BY <1>0, <1>e, NotedOfTypes DEF Times, FileRecord
  <2>2. /\ Current(rec[2])
        /\ \A q \in Paths : Up[q] = rec[2].fileName => (Exists(q)' <=> Exists(q))
    BY <1>0, <1>b, <2>1, EntriesKept
  <2>3. RowsAccounted(rec[1], Deleted(changes)) /\ AdditionsExist(Added(changes), rec[1])
    BY <1>e, <1>f, <2>2 DEF ChangesAccounted
  <2>4. Changed(changes) \subseteq Replacing(files)
    BY <1>0, <1>e, NotedTypes DEF RootedInv, ChangesApply, Applicable
  <2>5. rec[1] \in DOMAIN files /\ files[rec[1]].fileName = rec[2].fileName
    BY <1>0, <1>e, <2>4 DEF Replacing, NamesKept
  <2>6. rec[1] # ROOT_RECORD_ID
    BY <1>0, <2>5 DEF TypeOK, IsTable, RecordID, ROOT_RECORD_ID
  <2>7. pc = "changing" => Added(changes) = {}
    BY <1>0, <1>e, <1>f, RangeOfNone DEF AddedFirst, Added
  <2>8. ASSUME NEW a \in Added(changes), a.parentID = rec[1]
        PROVE  Up[a.fileName] = rec[2].fileName /\ a.fileName \in Paths
    <3>1. InScan \/ pc \in {"save", "adding"}
      BY <1>e, <2>7, <2>8 DEF InWork, InSave
    <3> QED
      BY <1>0, <2>5, <2>8, <3>1, NotedOfTypes DEF Places, Belongs, FileInfo
  <2>9. ASSUME NEW i \in RowsBelow(rec[1])
        PROVE  Up[files[i].fileName] = rec[2].fileName /\ files[i].fileName \in Paths
    BY <1>0, <2>5, <2>6, NotedOfTypes DEF Places, InPlace, RowsBelow, FileInfo
  <2> QED
    BY <2>2, <2>3, <2>8, <2>9 DEF RowsAccounted, AdditionsExist, Exists
\* What has been noted before the step.
<1>g. ASSUME InWork, pc \notin {"deleting", "committing"}, files' = files,
             rec \in Changed(changes), Added(changes)' = Added(changes),
             Deleted(changes) \subseteq Deleted(changes)'
      PROVE  /\ \A i \in RowsBelow(rec[1])' :
                   disk'[files'[i].fileName].kind # "none" \/ i \in Deleted(changes)'
             /\ \A a \in Added(changes)' :
                   a.parentID = rec[1] => disk'[a.fileName].kind # "none"
  BY <1>e, <1>g DEF RowsBelow
<1>1. CASE RestStep
  BY <1>1, RestEffect
<1>2. CASE ClearContinue \/ ScanDirs
  <2>1. Changed(changes)' = {}
    BY <1>2, NothingNoted DEF ClearContinue, ScanDirs, Changed
  <2> QED
    BY <1>b, <2>1
<1>3. CASE ScanDirsDone \/ CheckDir \/ ScanEntry
  <2>1. InWork /\ pc \notin {"deleting", "committing"} /\ files' = files
    BY <1>0, <1>3, CheckDirEffect, ScanEntryEffect
       DEF ScanDirsDone, InWork, InScan, InRounds, dbVars, tableVars
  <2>2. /\ Changed(changes)' = Changed(changes) /\ Added(changes)' = Added(changes)
        /\ Deleted(changes) \subseteq Deleted(changes)'
    BY <1>0, <1>3, CheckDirNotes, ScanEntryEffect
       DEF ScanDirsDone, SkipsDir, DropsDir, RenewsDir, Changed, Added, Deleted
  <2> QED
    BY <1>b, <1>g, <2>1, <2>2
<1>4. CASE (Enters \/ GivesUp \/ GoesOn \/ NotesMissing) /\ files' = files
  <2>1. pc \notin {"deleting", "committing"} /\ pc # "scanDirs"
    BY <1>4 DEF Enters, GivesUp, GoesOn, NotesMissing, InWork, InScan, InRounds, InSave
  <2>2. InWork /\ changes' = changes
    BY <1>4, <1>d, <2>1
       DEF Enters, GivesUp, GoesOn, NotesMissing, InWork, InScan, InRounds, ClearContinue, ScanDirs
  <2>3. /\ Changed(changes)' = Changed(changes) /\ Added(changes)' = Added(changes)
        /\ Deleted(changes)' = Deleted(changes)
    BY <2>2 DEF Changed, Added, Deleted
  <2> QED
    BY <1>4, <1>b, <1>g, <2>1, <2>2, <2>3
<1>5. CASE Leaves /\ UNCHANGED <<files, flagVars, fsVars>>
  <2>1. ~shouldBreak
    BY <1>5 DEF flagVars, shouldBreak
  <2>2. pc = "missing" /\ oldRecords = {} /\ InLoop /\ InWork /\ InScanDir
    BY <1>0, <1>5, <2>1 DEF Leaves, InLoop, InWork, InScan, InRounds, InScanDir
  <2>3. /\ Changed(changes)' = Changed(changes) \cup Changed(part)
        /\ Added(changes)' = Added(changes) \cup Added(part)
        /\ Deleted(changes)' = Deleted(changes) \cup Deleted(part)
    BY <1>0, <1>5, LeavesEffect
  <2>4. /\ \A a \in Added(part) : a.parentID = dirId
        /\ \A a \in Added(changes) : a.parentID # dirId
    BY <2>2 DEF AdditionsInOrder
  <2>5. CASE rec \in Changed(changes)
    <3>1. rec[1] # dirId
      BY <1>0, <1>c, <2>2, <2>5 DEF ScannedOnce
    <3> QED
      BY <1>5, <1>e, <2>2, <2>3, <2>4, <2>5, <3>1 DEF RowsBelow
  <2>6. CASE rec \in Changed(part)
    <3>1. rec[1] = dirId /\ Current(rec[2])
      BY <1>0, <1>5, <1>b, <1>c, <2>2, <2>6
         DEF ScannedOnce, CurrentAfter, Current, is_directory, fsVars
    <3>2. /\ AdditionsExist(Added(part), dirId)
          /\ \A i \in RowsBelow(dirId) : Exists(files[i].fileName) \/ i \in Deleted(part)
      BY <2>1, <2>2, <2>6, <3>1 DEF PartAccounted
    <3> QED
      BY <1>5, <2>3, <2>4, <3>1, <3>2 DEF AdditionsExist, RowsBelow, Exists, fsVars
  <2> QED
    BY <1>b, <2>3, <2>5, <2>6
<1>6. CASE SaveStep
  <2>1. CASE Begins \/ PhaseEnds
    <3>1. InWork /\ pc \notin {"deleting", "committing"} /\ files' = files
      BY <2>1 DEF Begins, PhaseEnds, InWork, InSave
    <3>2. /\ Changed(changes)' = Changed(changes) /\ Added(changes)' = Added(changes)
          /\ Deleted(changes)' = Deleted(changes)
      BY <2>1 DEF Begins, PhaseEnds, Changed, Added, Deleted
    <3> QED
      BY <1>b, <1>g, <3>1, <3>2
  <2>2. CASE Inserts
    <3>1. /\ pc = "adding" /\ InWork /\ rec \in Changed(changes)
          /\ Deleted(changes)' = Deleted(changes)
          /\ Added(changes) = {Head(changes.added)} \cup Added(changes)'
      BY <1>0, <1>b, <2>2, InsertsEffect DEF Inserts, InWork, InSave
    <3>2. ASSUME NEW i \in RowsBelow(rec[1])'
          PROVE  disk'[files'[i].fileName].kind # "none" \/ i \in Deleted(changes)'
      <4>1. CASE i = NewRowId(files)
        <5>1. files'[i] = Head(changes.added) /\ files'[i].parentID = rec[1]
          BY <1>0, <2>2, <3>2, <4>1, RowsAfterInsert DEF RowsBelow
        <5> QED
          BY <1>e, <3>1, <5>1
      <4>2. CASE i # NewRowId(files)
        <5>1. i \in RowsBelow(rec[1]) /\ files'[i] = files[i]
          BY <1>0, <2>2, <3>2, <4>2, RowsAfterInsert DEF RowsBelow
        <5> QED
          BY <1>e, <3>1, <5>1
      <4> QED
        BY <4>1, <4>2
    <3> QED
      BY <1>e, <3>1, <3>2
  <2>3. CASE Updates
    <3>1. /\ pc = "changing" /\ InWork /\ rec \in Changed(changes)
          /\ Deleted(changes)' = Deleted(changes) /\ Added(changes)' = Added(changes)
      BY <1>0, <1>b, <2>3, UpdatesEffect DEF Updates, InWork, InSave
    <3>2. ASSUME NEW i \in RowsBelow(rec[1])'
          PROVE  i \in RowsBelow(rec[1]) /\ files'[i].fileName = files[i].fileName
      BY <1>0, <2>3, <3>2, UpdatesInPlace DEF RowsBelow
    <3> QED
      BY <1>e, <3>1, <3>2
  <2>4. CASE Deletes \/ Ends
    BY <2>4 DEF Deletes, Ends, InWork, InScan, InRounds, InSave
  <2> QED
    BY <1>6, <2>1, <2>2, <2>3, <2>4 DEF SaveStep
<1>7. CASE OutsideStep
  <2>1. UNCHANGED <<files, pc, changes>>
    BY <1>7, OutsideLeavesScan DEF OutsideStep
  <2>2. /\ InWork /\ Changed(changes)' = Changed(changes)
        /\ Added(changes)' = Added(changes) /\ Deleted(changes)' = Deleted(changes)
    BY <2>1 DEF InWork, InScan, InRounds, InSave, Changed, Added, Deleted
  <2> QED
    BY <1>b, <1>g, <2>1, <2>2
<1> QED
  BY <1>0, <1>a, <1>1, <1>2, <1>3, <1>4, <1>5, <1>6, <1>7, StepKinds

LEMMA LeftBehindInit ==
    ASSUME Sensible, InPlace(files), NothingLeftBehind, Init
    PROVE  WorkInv /\ DirectoriesInv /\ AdditionsInOrder /\ LeftBehindInv
<1>1. /\ part = NoChanges /\ changes = NoChanges /\ committed = files /\ pc = "loop"
  BY DEF Init
<1>2. Added(part) = {}
  BY <1>1, NothingNoted
<1> QED
  BY <1>1, <1>2, CourseInit, DirectoriesInit
     DEF LeftBehindInv, Places, AdditionsInOrder, InWork, InScan, InRounds, InSave,
         InScanDir, InLoop

LEMMA LeftBehindStep ==
    ASSUME WellNamed, Flaky = {},
           WorkInv, DirectoriesInv, AdditionsInOrder, LeftBehindInv, [Next]_vars
    PROVE  (WorkInv /\ DirectoriesInv /\ AdditionsInOrder /\ LeftBehindInv)'
<1> SUFFICES DirectoriesInv' /\ AdditionsInOrder' /\ LeftBehindInv'
  BY CourseInvStep
<1>a. /\ Places /\ NothingLeftBehind /\ (InSave => SaveAccounted)
      /\ InWork /\ ~shouldBreak /\ pc \notin {"deleting", "committing"} => ChangesAccounted
      /\ InLoop /\ ~shouldBreak => PartAccounted
  BY DEF LeftBehindInv, SaveAccounted
<1>1. DirectoriesInv' /\ AdditionsInOrder'
  BY KindsStep, TimesStep, ScannedOnceStep, AdditionsInOrderStep DEF DirectoriesInv
<1>2. Places'
  <2>1. PartBelongs /\ ChangesBelong /\ EntriesInPlace /\ InPlace(committed)
    BY <1>a, PlacesParts
  <2>2. /\ InPlace(files)' /\ InPlace(committed)'
        /\ PartBelongs' /\ ChangesBelong' /\ EntriesInPlace'
    BY <1>a, <2>1, InPlaceStep, PartBelongsStep, ChangesBelongStep, EntriesInPlaceStep
  <2> QED
    BY <2>2 DEF Places, PartBelongs, ChangesBelong, EntriesInPlace
<1>3. NothingLeftBehind'
  BY <1>a, NothingLeftBehindStep DEF Places
<1>4. InSave' => SaveAccounted'
  BY <1>a, SaveAccountedStep
<1>5. InWork' /\ ~shouldBreak' /\ pc' \notin {"deleting", "committing"} => ChangesAccounted'
  BY <1>a, ChangesAccountedStep
<1>6. InLoop' /\ ~shouldBreak' => PartAccounted'
  BY <1>a, PartAccountedStep
<1> QED
  BY <1>1, <1>2, <1>3, <1>4, <1>5, <1>6 DEF LeftBehindInv, SaveAccounted

\* If everything can always be read, a directory whose record is up to date has no record
\* of an entry that is gone, unless the save that was to delete it was interrupted.
THEOREM NothingIsLeftBehind ==
    ASSUME WellNamed, Flaky = {}
    PROVE  Sensible /\ InPlace(files) /\ NothingLeftBehind /\ Spec => []NothingLeftBehind
<1> DEFINE Inv == WorkInv /\ DirectoriesInv /\ AdditionsInOrder /\ LeftBehindInv
<1>1. Sensible /\ InPlace(files) /\ NothingLeftBehind /\ Init => Inv
  BY LeftBehindInit
<1>2. Inv /\ [Next]_vars => Inv'
  BY LeftBehindStep
<1>3. Inv => NothingLeftBehind
  BY DEF LeftBehindInv
<1> QED
  BY <1>1, <1>2, <1>3, PTL DEF Spec

=============================================================================
