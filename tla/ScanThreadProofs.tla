-------------------------- MODULE ScanThreadProofs --------------------------
(***************************************************************************)
(* Proofs about the scanning thread, for every library, every settings and *)
(* any number of requests and failures.                                    *)
(***************************************************************************)
EXTENDS ScanThreadProperties, DatabaseProofs

-----------------------------------------------------------------------------
(* Sequences and struct Changes. *)

LEMMA LargerSeq ==
    ASSUME NEW S, NEW T, S \subseteq T, NEW s \in Seq(S)
    PROVE  s \in Seq(T)
  OBVIOUS

LEMMA NoChangesType ==
    ASSUME NEW A, NEW B
    PROVE  NoChanges \in ChangesOver(A, B)
  BY DEF NoChanges, ChangesOver

LEMMA SpliceType ==
    ASSUME NEW A, NEW B, NEW c \in ChangesOver(A, B), NEW d \in ChangesOver(A, B)
    PROVE  Splice(c, d) \in ChangesOver(A, B)
  BY DEF Splice, ChangesOver

LEMMA FieldTypes ==
    ASSUME NEW A, NEW B, NEW c \in ChangesOver(A, B)
    PROVE  /\ c.deleted \in Seq(RecordID) /\ c.changed \in Seq(A) /\ c.added \in Seq(B)
           /\ \A s \in Seq(RecordID) : [c EXCEPT !.deleted = s] \in ChangesOver(A, B)
           /\ \A s \in Seq(A) : [c EXCEPT !.changed = s] \in ChangesOver(A, B)
           /\ \A s \in Seq(B) : [c EXCEPT !.added = s] \in ChangesOver(A, B)
  BY DEF ChangesOver

LEMMA EntryTypes ==
    ASSUME NEW A, NEW B, NEW c \in ChangesOver(A, B)
    PROVE  /\ \A id \in RecordID : delEntry(c, id) \in ChangesOver(A, B)
           /\ \A rec \in A : replaceEntry(c, rec) \in ChangesOver(A, B)
           /\ \A info \in B : addEntry(c, info) \in ChangesOver(A, B)
<1>1. /\ \A id \in RecordID : Append(c.deleted, id) \in Seq(RecordID)
      /\ \A rec \in A : Append(c.changed, rec) \in Seq(A)
      /\ \A info \in B : Append(c.added, info) \in Seq(B)
  BY FieldTypes
<1> QED
  BY <1>1, FieldTypes DEF delEntry, replaceEntry, addEntry

\* What remains after the first of the deletions, replacements or additions.
LEMMA RestTypes ==
    ASSUME NEW A, NEW B, NEW c \in ChangesOver(A, B)
    PROVE  /\ c.added # <<>> => /\ Head(c.added) \in B
                                /\ [c EXCEPT !.added = Tail(@)] \in ChangesOver(A, B)
           /\ c.changed # <<>> => /\ Head(c.changed) \in A
                                  /\ [c EXCEPT !.changed = Tail(@)] \in ChangesOver(A, B)
           /\ c.deleted # <<>> => /\ Head(c.deleted) \in RecordID
                                  /\ [c EXCEPT !.deleted = Tail(@)] \in ChangesOver(A, B)
<1>1. /\ c.added # <<>> => Head(c.added) \in B /\ Tail(c.added) \in Seq(B)
      /\ c.changed # <<>> => Head(c.changed) \in A /\ Tail(c.changed) \in Seq(A)
      /\ c.deleted # <<>> => Head(c.deleted) \in RecordID /\ Tail(c.deleted) \in Seq(RecordID)
  BY FieldTypes
<1> QED
  BY <1>1, FieldTypes

LEMMA LargerChanges ==
    ASSUME NEW A, NEW B, NEW C, NEW D, A \subseteq C, B \subseteq D, NEW c \in ChangesOver(A, B)
    PROVE  c \in ChangesOver(C, D)
  BY LargerSeq DEF ChangesOver

LEMMA ChangesIsOver == Changes = ChangesOver(FileRecord, FileInfo)
  BY DEF Changes, ChangesOver

-----------------------------------------------------------------------------
(* Types. *)

LEMMA ChildrenTypes ==
    ASSUME NEW db, IsTable(db), NEW id
    PROVE  childrenFiles(db, id) \subseteq FileRecord
  BY DEF childrenFiles, IsTable, FileRecord

LEMMA NewInfoType ==
    ASSUME dirId \in Nat, NEW p \in Paths, NEW t \in Nat
    PROVE  NewInfo(p, t) \in FileInfo
  BY DEF NewInfo, FileInfo, is_directory

LEMMA RangesInOldRecords ==
    ASSUME NEW p
    PROVE  EqualRange(p) \subseteq oldRecords /\ LowerBound(p) \subseteq oldRecords
  BY DEF EqualRange, LowerBound

LEMMA EraseShrinks ==
    ASSUME NEW range, Erase(range)
    PROVE  oldRecords' \subseteq oldRecords
  BY DEF Erase

\* Changes of the file system keep its types.
LEMMA FsStepType ==
    ASSUME FsTypeOK, FsNext
    PROVE  FsTypeOK'
<1> USE DEF FsTypeOK, Node
<1>1. PICK p \in Paths :
          \/ \E kind \in {"file", "dir"} : Create(p, kind)
          \/ Remove(p)
          \/ Write(p)
          \/ GoDown(p)
          \/ ComeBack(p)
  BY DEF FsNext
<1>2. ASSUME NEW kind \in {"file", "dir"}, Create(p, kind) PROVE FsTypeOK'
  BY <1>2, FileSystemAssumption DEF Create, Tick
<1>3. CASE Remove(p)
  BY <1>3, FileSystemAssumption DEF Remove, Tick
<1>4. CASE Write(p)
  BY <1>4, FileSystemAssumption DEF Write, Tick
<1>5. CASE GoDown(p)
  BY <1>5, FileSystemAssumption DEF GoDown, Tick
<1>6. CASE ComeBack(p)
  BY <1>6, FileSystemAssumption DEF ComeBack
<1> QED
  BY <1>1, <1>2, <1>3, <1>4, <1>5, <1>6

LEMMA EnterScanDirType ==
    ASSUME TypeOK, NEW id \in Nat, NEW names \in SUBSET Paths, NEW found \in Changes,
           EnterScanDir(id, names, found)
    PROVE  /\ dirId' \in Nat
           /\ cutShort' \in BOOLEAN
           /\ part' \in Changes /\ changes' \in Changes
           /\ entries' \subseteq Paths /\ oldRecords' \subseteq FileRecord
           /\ pc' \in PcValues
<1>1. Splice(changes, found) \in Changes /\ NoChanges \in Changes
  BY SpliceType, NoChangesType, ChangesIsOver DEF TypeOK
<1>2. childrenFiles(files, id) \subseteq FileRecord
  BY ChildrenTypes DEF TypeOK
<1> QED
  BY <1>1, <1>2 DEF TypeOK, EnterScanDir, PcValues

LEMMA LeaveScanDirType ==
    ASSUME TypeOK, LeaveScanDir
    PROVE  /\ part' \in Changes /\ changes' \in Changes
           /\ entries' \subseteq Paths /\ oldRecords' \subseteq FileRecord
           /\ pc' \in PcValues
<1>1. Splice(changes, part) \in Changes /\ NoChanges \in Changes
  BY SpliceType, NoChangesType, ChangesIsOver DEF TypeOK
<1> QED
  BY <1>1 DEF LeaveScanDir, PcValues

LEMMA SaveLeavesType ==
    ASSUME TypeOK, SaveThrows \/ Terminates \/ \E result \in BOOLEAN : SaveReturns(result)
    PROVE  changes' \in Changes /\ hasChanged' \in BOOLEAN /\ pc' \in PcValues
<1>1. NoChanges \in Changes
  BY NoChangesType, ChangesIsOver
<1> QED
  BY <1>1 DEF TypeOK, SaveThrows, Terminates, SaveReturns, PcValues

\* A call that throws has failed just now or remembers that it has.
LEMMA ThrowsEffect ==
    ASSUME NEW stmt \in Statements, Throws(stmt)
    PROVE  /\ failed' \subseteq failed \cup Statements
           /\ (faults' = faults /\ failed # {}) \/ faults' = faults + 1
  BY DEF Throws, StepFails, GetThrows, Ready

LEMMA QueryFailsEffect ==
    ASSUME QueryFails
    PROVE  /\ failed' \subseteq failed \cup Statements
           /\ (faults' = faults /\ failed # {}) \/ faults' = faults + 1
           /\ pc \in {"scanRoots", "openDir", "scanDirs", "checkDir"}
           /\ pc' \in {"hook", "checkDir", "stopped"}
           /\ pc' = "checkDir" => pc = "openDir"
<1>1. /\ "childrenFiles" \in Statements /\ "dirs" \in Statements /\ "getFile" \in Statements
  BY DEF Statements
<1> QED
  BY <1>1, ThrowsEffect DEF QueryFails

\* A statement of the transaction that fails undoes it, and the scan, the
\* thread or the process ends.
LEMMA StatementFailsEffect ==
    ASSUME StatementFails
    PROVE  /\ Undo
           /\ SaveThrows \/ Terminates
           /\ failed' \subseteq failed \cup Statements
           /\ \/ faults' = faults /\ (failed # {} \/ ForeignKeyFails)
              \/ faults' = faults + 1
<1>1. PICK stmt \in Statements :
          IF ~Ready(stmt)
          THEN SaveUnwinds(failed \ {stmt}, FALSE) /\ UNCHANGED faults
          ELSE \/ /\ faults < MaxFaults /\ faults' = faults + 1
                  /\ \E undone \in BOOLEAN : SaveUnwinds(failed \cup {stmt}, undone)
               \/ /\ ForeignKeyFails /\ UNCHANGED faults
                  /\ SaveUnwinds(failed \cup {stmt}, FALSE)
  BY DEF StatementFails
<1>2. PICK f \in SUBSET (failed \cup Statements), undone \in BOOLEAN : SaveUnwinds(f, undone)
  <2>1. failed \ {stmt} \subseteq failed \cup Statements
    OBVIOUS
  <2>2. failed \cup {stmt} \subseteq failed \cup Statements
    OBVIOUS
  <2>3. CASE ~Ready(stmt)
    BY <1>1, <2>1, <2>3
  <2>4. CASE Ready(stmt)
    BY <1>1, <2>2, <2>4
  <2> QED
    BY <2>3, <2>4
<1>3. Undo /\ (SaveThrows \/ Terminates)
  BY <1>2 DEF SaveUnwinds, rollback
<1>4. "rollback" \in Statements
  BY DEF Statements
<1>5. failed' \subseteq failed \cup Statements
  BY <1>2, <1>4 DEF SaveUnwinds, rollback
<1>6. ~Ready(stmt) => failed # {}
  BY DEF Ready
<1> QED
  BY <1>1, <1>3, <1>5, <1>6

\* COMMIT fails with the transaction undone or left open, or is not even run.
LEMMA CommitEffect ==
    ASSUME CommitFails \/ CommitThrows
    PROVE  /\ Undo \/ UNCHANGED tableVars
           /\ SaveThrows \/ Terminates \/ SaveReturns(TRUE)
           /\ failed' \subseteq failed \cup Statements
           /\ (faults' = faults /\ failed # {}) \/ faults' = faults + 1
<1>1. "commit" \in Statements
  BY DEF Statements
<1>2. CASE CommitFails
  BY <1>1, <1>2 DEF CommitFails, StepFails
<1>3. CASE CommitThrows
  BY <1>3 DEF CommitThrows, GetThrows, Ready, boundVars
<1> QED
  BY <1>2, <1>3

LEMMA BeginFailsEffect ==
    ASSUME BeginFails
    PROVE  /\ failed' \subseteq failed \cup Statements
           /\ (faults' = faults /\ (failed # {} \/ inTx)) \/ faults' = faults + 1
<1>1. "beginTransaction" \in Statements
  BY DEF Statements
<1>2. CASE Throws("beginTransaction")
  BY <1>1, <1>2, ThrowsEffect
<1>3. CASE inTx /\ StepFails("beginTransaction") /\ UNCHANGED faults
  BY <1>1, <1>3 DEF StepFails
<1> QED
  BY <1>2, <1>3 DEF BeginFails

\* The GUI thread and other programs leave the table and the scan alone.
LEMMA OutsideLeavesScan ==
    ASSUME GuiStep \/ DiskStep \/ UNCHANGED vars
    PROVE  UNCHANGED <<files, committed, inTx, failed, pc, part, changes, dirId, oldRecords,
                       roots, hasChanged, initial, todo, entries, cutShort, dropped, faults>>
<1> USE DEF dbVars, tableVars, scanVars, histVars, boundVars
<1>1. CASE DiskStep \/ UNCHANGED vars
  BY <1>1 DEF DiskStep, vars
<1>2. CASE GuiStep
  <2>1. \/ \E id : onRowExpanded(id) \/ onRowCollapsed(id) \/ ForgetRow(id)
        \/ UserStep
    BY <1>2 DEF GuiStep
  <2>2. ASSUME NEW id, onRowExpanded(id) \/ onRowCollapsed(id) \/ ForgetRow(id)
        PROVE  UNCHANGED <<dbVars, pc, scanVars, histVars, faults>>
    BY <2>2 DEF onRowExpanded, onRowCollapsed, ForgetRow, RowExpanded, RowsCollapsed
  <2>3. CASE UserStep
    <3>1. \/ onRefresh \/ restart \/ Stop
          \/ \E s \in SettingsValues : storeSettings(s)
      BY <2>3 DEF UserStep
    <3> QED
      BY <3>1 DEF onRefresh, storeSettings, restart, Stop
  <2> QED
    BY <2>1, <2>2, <2>3
<1> QED
  BY <1>1, <1>2

\* The program starts well typed.
LEMMA InitType == Init => TypeOK
<1> SUFFICES ASSUME Init PROVE TypeOK
  OBVIOUS
<1>1. NoChanges \in Changes
  BY NoChangesType, ChangesIsOver
<1>2. FsTypeOK
  BY FileSystemAssumption DEF Init, FsInit, FsTypeOK, Node
<1>3. IsTable(files) /\ IsTable(committed)
  BY ScanThreadAssumption DEF Init
<1>4. events \in Seq(ScanEvent)
  BY DEF Init
<1>5. dirId \in Nat /\ requests \in Nat /\ faults \in Nat
  BY DEF Init, ROOT_RECORD_ID
<1>6. ids \subseteq RecordID
  <2>1. ids \subseteq dirs(files)
    BY DEF Init
  <2> QED
    BY <1>3, <2>1 DEF dirs, IsTable
<1> QED
  BY <1>1, <1>2, <1>3, <1>4, <1>5, <1>6 DEF Init, TypeOK, PcValues

\* The steps of operator() outside scanDir and save keep the types.
LEMMA LoopStepType ==
    ASSUME TypeOK,
           \/ LoopHead \/ ReadSettings \/ ClearRestart \/ Unhook \/ ClearContinue
           \/ ScanDirs \/ ScanDirsDone \/ Hook \/ Pause \/ QueryFails
    PROVE  TypeOK'
<1> USE DEF TypeOK, PcValues, FsTypeOK, dbVars, tableVars, fsVars, flagVars, guiVars, scanVars,
            histVars, boundVars
<1>0. NoChanges \in Changes
  BY NoChangesType, ChangesIsOver
<1>1. CASE LoopHead
  BY <1>1 DEF LoopHead
<1>2. CASE ReadSettings
  BY <1>2 DEF ReadSettings
<1>3. CASE ClearRestart
  BY <1>3 DEF ClearRestart
<1>4. CASE Unhook
  BY <1>4 DEF Unhook
<1>5. CASE ClearContinue
  BY <1>5, <1>0 DEF ClearContinue
<1>6. CASE ScanDirs
  <2>1. dirs(files) \subseteq RecordID
    BY DEF dirs, IsTable
  <2> QED
    BY <1>6, <1>0, <2>1 DEF ScanDirs
<1>7. CASE ScanDirsDone
  BY <1>7 DEF ScanDirsDone
<1>8. CASE Hook
  BY <1>8 DEF Hook
<1>9. CASE Pause
  BY <1>9 DEF Pause
<1>10. CASE QueryFails
  BY <1>10, <1>0, QueryFailsEffect DEF QueryFails
<1> QED
  BY <1>1, <1>2, <1>3, <1>4, <1>5, <1>6, <1>7, <1>8, <1>9, <1>10

\* So do those of scanDir, scanEntry and checkDir.
LEMMA ScanStepType ==
    ASSUME TypeOK,
           \/ ScanRoots \/ ScanEntry \/ EntryDone \/ IterationFails \/ Missing
           \/ CheckDir \/ OpenDir
    PROVE  TypeOK'
<1> USE DEF dbVars, tableVars, fsVars, flagVars, guiVars, histVars, boundVars
<1>0. NoChanges \in Changes
  BY NoChangesType, ChangesIsOver
<1>1. CASE ScanRoots
  <2>1. DOMAIN roots \subseteq Paths
    BY ScanThreadAssumption DEF TypeOK
  <2>2. ROOT_RECORD_ID \in Nat
    BY DEF ROOT_RECORD_ID
  <2> QED
    BY <1>0, <1>1, <2>1, <2>2, EnterScanDirType DEF ScanRoots, TypeOK, FsTypeOK
<1>2. CASE ScanEntry
  <2>1. PICK p \in NextEntries :
            /\ entries' = entries \ {p}
            /\ IF shouldBreak
               THEN UNCHANGED <<part, oldRecords>>
               ELSE EntryUnreadable(p) \/ EntryIsDir(p) \/ EntryIgnored(p) \/ EntryIsFile(p)
    BY <1>2 DEF ScanEntry
  <2>2. p \in Paths /\ entries' \subseteq Paths
    BY <2>1 DEF TypeOK, NextEntries
  <2>3. part' \in Changes /\ oldRecords' \subseteq oldRecords
    <3>1. CASE shouldBreak
      BY <2>1, <3>1 DEF TypeOK
    <3>2. CASE ~shouldBreak /\ EntryUnreadable(p)
      BY <3>2, EraseShrinks DEF EntryUnreadable, TypeOK
    <3>3. CASE ~shouldBreak /\ EntryIsDir(p)
      <4>1. addEntry(part, NewInfo(p, 0)) \in Changes
        BY <2>2, NewInfoType, EntryTypes, ChangesIsOver DEF TypeOK
      <4> QED
        BY <3>3, <4>1, EraseShrinks DEF EntryIsDir, TypeOK
    <3>4. CASE ~shouldBreak /\ EntryIgnored(p)
      BY <3>4 DEF EntryIgnored, TypeOK
    <3>5. CASE ~shouldBreak /\ EntryIsFile(p)
      <4> DEFINE info == NewInfo(p, disk[p].mtime)
      <4>1. disk[p].mtime \in Nat
        BY <2>2, FileSystemAssumption DEF TypeOK, FsTypeOK, Node
      <4>2. info \in FileInfo
        BY <2>2, <4>1, NewInfoType DEF TypeOK
      <4>3. addEntry(part, info) \in Changes
        BY <4>2, EntryTypes, ChangesIsOver DEF TypeOK
      <4>4. ASSUME NEW r \in EqualRange(p)
            PROVE  replaceEntry(part, <<r[1], info>>) \in Changes
        <5>1. <<r[1], info>> \in FileRecord
          BY <4>2, RangesInOldRecords DEF TypeOK, FileRecord
        <5> QED
          BY <5>1, EntryTypes, ChangesIsOver DEF TypeOK
      <4> QED
        BY <3>5, <4>3, <4>4 DEF EntryIsFile, TypeOK
    <3> QED
      BY <2>1, <3>1, <3>2, <3>3, <3>4, <3>5
  <2> QED
    BY <1>2, <2>2, <2>3 DEF ScanEntry, TypeOK, FsTypeOK, PcValues
<1>3. CASE EntryDone
  <2>1. /\ part' \in Changes /\ changes' \in Changes
        /\ entries' \subseteq Paths /\ oldRecords' \subseteq FileRecord
        /\ pc' \in PcValues /\ cutShort' \in BOOLEAN
    <3>1. CASE shouldBreak
      BY <1>3, <3>1, LeaveScanDirType DEF EntryDone
    <3>2. CASE ~shouldBreak
      BY <1>3, <3>2 DEF EntryDone, TypeOK, PcValues
    <3> QED
      BY <3>1, <3>2
  <2> QED
    BY <1>3, <2>1 DEF EntryDone, TypeOK, FsTypeOK
<1>4. CASE IterationFails
  BY <1>0, <1>4 DEF IterationFails, TypeOK, FsTypeOK, PcValues
<1>5. CASE Missing
  <2>1. ASSUME NEW r \in LowerBound(0)
        PROVE  delEntry(part, r[1]) \in Changes /\ oldRecords \ {r} \subseteq FileRecord
    BY RangesInOldRecords, EntryTypes, ChangesIsOver DEF TypeOK, FileRecord
  <2> QED
    BY <1>5, <2>1, LeaveScanDirType DEF Missing, TypeOK, FsTypeOK, PcValues
<1>6. CASE CheckDir
  <2> DEFINE id == Min(todo)
             path == files[id].fileName
             found == [files[id] EXCEPT !.lastWriteTime = disk[path].mtime]
  <2>1. id \in todo /\ id \in Nat
    BY <1>6, MinIsMember DEF CheckDir, TypeOK, RecordID
  <2>2. ASSUME id \in DOMAIN files
        PROVE  /\ delEntry(changes, id) \in Changes
               /\ replaceEntry(NoChanges, <<id, found>>) \in Changes
    <3>1. id \in RecordID /\ files[id] \in FileInfo
      BY <2>2 DEF TypeOK, IsTable
    <3>2. disk[path].mtime \in Nat
      BY <3>1, FileSystemAssumption DEF TypeOK, FsTypeOK, Node, FileInfo
    <3>3. <<id, found>> \in FileRecord
      BY <3>1, <3>2 DEF FileRecord, FileInfo
    <3> QED
      BY <1>0, <3>1, <3>3, EntryTypes, ChangesIsOver DEF TypeOK
  <2>3. /\ todo' \subseteq RecordID /\ dirId' \in Nat
        /\ part' \in Changes /\ changes' \in Changes
        /\ pc' \in PcValues
    <3> HIDE DEF found
    <3> QED
      BY <1>6, <2>1, <2>2 DEF CheckDir, TypeOK, PcValues, found
  <2> QED
    BY <1>6, <2>3 DEF CheckDir, TypeOK, FsTypeOK
<1>7. CASE OpenDir
  <2>1. Listing(files[dirId].fileName) \in SUBSET Paths
    BY DEF Listing
  <2>2. /\ dirId' \in Nat /\ cutShort' \in BOOLEAN
        /\ part' \in Changes /\ changes' \in Changes
        /\ entries' \subseteq Paths /\ oldRecords' \subseteq FileRecord
        /\ pc' \in PcValues
    <3> DEFINE path == files[dirId].fileName
    <3>1. CASE ~Opens(path)
      BY <1>0, <1>7, <3>1 DEF OpenDir, TypeOK, PcValues
    <3>2. CASE Opens(path)
      <4>1. EnterScanDir(dirId, Listing(path), part)
        BY <1>7, <3>2 DEF OpenDir
      <4> QED
        BY <2>1, <4>1, EnterScanDirType DEF TypeOK
    <3> QED
      BY <3>1, <3>2
  <2> QED
    BY <1>7, <2>2 DEF OpenDir, TypeOK, FsTypeOK
<1> QED
  BY <1>1, <1>2, <1>3, <1>4, <1>5, <1>6, <1>7

\* So do those of save.
LEMMA SaveStepType ==
    ASSUME TypeOK,
           \/ Save \/ BeginFails \/ SaveAdded \/ SaveChanged \/ SaveDeleted
           \/ StatementFails \/ Commit \/ CommitFails \/ CommitThrows
    PROVE  TypeOK'
<1> USE DEF dbVars, tableVars, fsVars, flagVars, guiVars, histVars, boundVars
<1>0. \A phase \in {"adding", "changing", "deleting"} :
          PhaseAfter(phase) \in PcValues
  BY DEF PhaseAfter, SaveOrder, PcValues
<1>1. CASE Save
  <2>1. CASE changes = NoChanges
    BY <1>1, <2>1, SaveLeavesType DEF Save, TypeOK, FsTypeOK
  <2>2. CASE changes # NoChanges
    BY <1>1, <2>2 DEF Save, beginTransaction, SaveOrder, TypeOK, FsTypeOK, PcValues
  <2> QED
    BY <2>1, <2>2
<1>2. CASE BeginFails
  <2>1. changes' \in Changes /\ hasChanged' \in BOOLEAN /\ pc' \in PcValues
    BY <1>2, SaveLeavesType DEF BeginFails
  <2> QED
    BY <1>2, <2>1, BeginFailsEffect DEF BeginFails, TypeOK, FsTypeOK
<1>3. CASE SaveAdded
  <2>1. CASE changes.added = <<>> \/ shouldBreak
    BY <1>0, <1>3, <2>1 DEF SaveAdded, TypeOK, FsTypeOK
  <2>2. CASE ~(changes.added = <<>> \/ shouldBreak)
    <3>1. /\ addFile(Head(changes.added))
          /\ events' = Append(events, Event("ADDED", NewRowId(files)))
          /\ changes' = [changes EXCEPT !.added = Tail(@)]
          /\ pc' = pc
      BY <1>3, <2>2 DEF SaveAdded
    <3>2. Head(changes.added) \in FileInfo /\ changes' \in Changes
      BY <2>2, <3>1, RestTypes, ChangesIsOver DEF TypeOK
    <3>3. IsTable(files') /\ committed' = committed /\ inTx' = inTx /\ failed' = failed
      BY <3>1, <3>2, InsertRowKeepsTable DEF addFile, TypeOK
    <3>4. Event("ADDED", NewRowId(files)) \in ScanEvent
      BY NewRowIdIsFresh DEF Event, ScanEvent, TypeOK
    <3>5. events' \in Seq(ScanEvent)
      BY <3>1, <3>4 DEF TypeOK
    <3> QED
      BY <1>3, <3>1, <3>2, <3>3, <3>5 DEF SaveAdded, TypeOK, FsTypeOK
  <2> QED
    BY <2>1, <2>2
<1>4. CASE SaveChanged
  <2>1. CASE changes.changed = <<>> \/ shouldBreak
    BY <1>0, <1>4, <2>1 DEF SaveChanged, TypeOK, FsTypeOK
  <2>2. CASE ~(changes.changed = <<>> \/ shouldBreak)
    <3> DEFINE rec == Head(changes.changed)
    <3>1. /\ replaceFile(rec[1], rec[2])
          /\ events' = Append(events, Event("UPDATED", rec[1]))
          /\ changes' = [changes EXCEPT !.changed = Tail(@)]
          /\ pc' = pc
      BY <1>4, <2>2 DEF SaveChanged
    <3>2. rec \in FileRecord /\ changes' \in Changes
      BY <2>2, <3>1, RestTypes, ChangesIsOver DEF TypeOK
    <3>3. rec[1] \in RecordID /\ rec[2] \in FileInfo
      BY <3>2 DEF FileRecord
    <3>4. IsTable(files') /\ committed' = committed /\ inTx' = inTx /\ failed' = failed
      BY <3>1, <3>3, UpdateRowKeepsTable DEF replaceFile, TypeOK
    <3>5. Event("UPDATED", rec[1]) \in ScanEvent
      BY <3>3 DEF Event, ScanEvent
    <3>6. events' \in Seq(ScanEvent)
      BY <3>1, <3>5 DEF TypeOK
    <3> QED
      BY <1>4, <3>1, <3>2, <3>4, <3>6 DEF SaveChanged, TypeOK, FsTypeOK
  <2> QED
    BY <2>1, <2>2
<1>5. CASE SaveDeleted
  <2>1. CASE changes.deleted = <<>> \/ shouldBreak
    BY <1>0, <1>5, <2>1 DEF SaveDeleted, TypeOK, FsTypeOK
  <2>2. CASE ~(changes.deleted = <<>> \/ shouldBreak)
    <3> DEFINE id == Head(changes.deleted)
    <3>1. /\ delFile(id)
          /\ events' = Append(events, Event("DELETED", id))
          /\ changes' = [changes EXCEPT !.deleted = Tail(@)]
          /\ pc' = pc
      BY <1>5, <2>2 DEF SaveDeleted
    <3>2. id \in RecordID /\ changes' \in Changes
      BY <2>2, <3>1, RestTypes, ChangesIsOver DEF TypeOK
    <3>3. IsTable(files') /\ committed' = committed /\ inTx' = inTx /\ failed' = failed
      BY <3>1, DeleteRowKeepsTable DEF delFile, TypeOK
    <3>4. Event("DELETED", id) \in ScanEvent
      BY <3>2 DEF Event, ScanEvent
    <3>5. events' \in Seq(ScanEvent)
      BY <3>1, <3>4 DEF TypeOK
    <3> QED
      BY <1>5, <3>1, <3>2, <3>3, <3>5 DEF SaveDeleted, TypeOK, FsTypeOK
  <2> QED
    BY <2>1, <2>2
<1>6. CASE StatementFails
  <2>1. IsTable(files') /\ IsTable(committed') /\ inTx' \in BOOLEAN
    BY <1>6, StatementFailsEffect DEF Undo, TypeOK
  <2>2. faults' \in Nat /\ failed' \subseteq Statements
    BY <1>6, StatementFailsEffect DEF TypeOK
  <2>3. changes' \in Changes /\ hasChanged' \in BOOLEAN /\ pc' \in PcValues
    BY <1>6, StatementFailsEffect, SaveLeavesType
  <2> QED
    BY <1>6, <2>1, <2>2, <2>3 DEF StatementFails, TypeOK, FsTypeOK
<1>7. CASE Commit
  <2>1. IsTable(files') /\ IsTable(committed') /\ inTx' \in BOOLEAN /\ failed' = failed
    BY <1>7 DEF Commit, commit, TypeOK
  <2>2. ids' \subseteq RecordID /\ dropped' \subseteq RecordID
    BY <1>7 DEF Commit, IdsAfterCommit, TypeOK, IsTable
  <2>3. changes' \in Changes /\ hasChanged' \in BOOLEAN /\ pc' \in PcValues
    BY <1>7, SaveLeavesType DEF Commit
  <2> QED
    BY <1>7, <2>1, <2>2, <2>3 DEF Commit, TypeOK, FsTypeOK
<1>8. CASE CommitFails \/ CommitThrows
  <2>1. IsTable(files') /\ IsTable(committed') /\ inTx' \in BOOLEAN
    BY <1>8, CommitEffect DEF Undo, TypeOK
  <2>2. changes' \in Changes /\ hasChanged' \in BOOLEAN /\ pc' \in PcValues
    BY <1>8, CommitEffect, SaveLeavesType
  <2>3. faults' \in Nat /\ failed' \subseteq Statements
    <3>1. faults \in Nat /\ failed \subseteq Statements
      BY DEF TypeOK
    <3>2. failed' \subseteq failed \cup Statements /\ (faults' = faults \/ faults' = faults + 1)
      BY <1>8, CommitEffect
    <3> QED
      BY <3>1, <3>2
  <2>4. UNCHANGED <<fsVars, flagVars, guiVars, events, roots, initial, todo, dirId, entries,
                    oldRecords, part, histVars, requests>>
    BY <1>8 DEF CommitFails, CommitThrows
  <2> QED
    BY <2>1, <2>2, <2>3, <2>4 DEF TypeOK, FsTypeOK, Undo
<1> QED
  BY <1>1, <1>2, <1>3, <1>4, <1>5, <1>6, <1>7, <1>8

\* So do the calls from the GUI thread and the changes of the file system.
LEMMA OutsideStepType ==
    ASSUME TypeOK, GuiStep \/ DiskStep
    PROVE  TypeOK'
<1> USE DEF dbVars, tableVars, fsVars, flagVars, guiVars, scanVars, histVars, boundVars,
            Request, NotifyContinue, TypeOK, FsTypeOK
<1>1. ASSUME NEW id \in dirs(committed), onRowExpanded(id) PROVE TypeOK'
  BY <1>1 DEF onRowExpanded, RowExpanded, dirs, IsTable
<1>2. ASSUME NEW id \in ids, onRowCollapsed(id) PROVE TypeOK'
  BY <1>2 DEF onRowCollapsed, RowsCollapsed
<1>3. ASSUME NEW id \in ids, ForgetRow(id) PROVE TypeOK'
  BY <1>3 DEF ForgetRow
<1>4. CASE onRefresh
  BY <1>4 DEF onRefresh
<1>5. ASSUME NEW s \in SettingsValues, storeSettings(s) PROVE TypeOK'
  BY <1>5 DEF storeSettings
<1>6. CASE restart
  BY <1>6 DEF restart
<1>7. CASE Stop
  BY <1>7 DEF Stop
<1>8. CASE DiskStep
  BY <1>8, FsStepType DEF DiskStep
<1> QED
  BY <1>1, <1>2, <1>3, <1>4, <1>5, <1>6, <1>7, <1>8 DEF GuiStep, UserStep

LEMMA TypeStep == TypeOK /\ [Next]_vars => TypeOK'
<1> SUFFICES ASSUME TypeOK, [Next]_vars PROVE TypeOK'
  OBVIOUS
<1>1. CASE ScanStep
  BY <1>1, LoopStepType, ScanStepType, SaveStepType DEF ScanStep
<1>2. CASE GuiStep \/ DiskStep
  BY <1>2, OutsideStepType
<1>3. CASE UNCHANGED vars
  BY <1>3 DEF vars, dbVars, tableVars, fsVars, flagVars, guiVars, scanVars, histVars,
              boundVars, TypeOK, FsTypeOK
<1> QED
  BY <1>1, <1>2, <1>3 DEF Next

\* The variables always have the types of their declarations, and both tables
\* map finitely many ids to rows.
THEOREM TypeCorrect == Spec => []TypeOK
<1> QED
  BY InitType, TypeStep, PTL DEF Spec

-----------------------------------------------------------------------------
(* Every row hangs below the root.  A step of the scan notes changes that  *)
(* apply to the table as it is; save applies them in an order that keeps   *)
(* the rest of them applicable until only deletions are left.              *)

LEMMA ApplicableIsChanges ==
    ASSUME NEW db, NEW c \in Applicable(db)
    PROVE  c \in Changes
<1>1. Replacing(db) \subseteq FileRecord /\ Insertable(db) \subseteq FileInfo
  BY DEF Replacing, Insertable
<1> QED
  BY <1>1, LargerChanges, ChangesIsOver DEF Applicable

\* An INSERT invalidates no change.
LEMMA InsertKeepsApplicable ==
    ASSUME NEW db, IsTable(db), NEW rec \in FileInfo, NEW c \in Applicable(db)
    PROVE  c \in Applicable(InsertRow(db, rec))
<1> DEFINE new == InsertRow(db, rec)
<1>1. DOMAIN db \subseteq DOMAIN new /\ \A i \in DOMAIN db : new[i] = db[i]
  BY NewRowIdIsFresh DEF InsertRow, IsTable, RecordID
<1>2. Replacing(db) \subseteq Replacing(new) /\ Insertable(db) \subseteq Insertable(new)
  BY <1>1 DEF Replacing, Insertable, ParentExists
<1> QED
  BY <1>2, LargerChanges DEF Applicable

\* Nor does an UPDATE that leaves the parent alone.
LEMMA UpdateKeepsApplicable ==
    ASSUME NEW db, IsTable(db), NEW rec \in Replacing(db), NEW c \in Applicable(db)
    PROVE  c \in Applicable(UpdateRow(db, rec[1], rec[2]))
<1> DEFINE new == UpdateRow(db, rec[1], rec[2])
<1>1. /\ DOMAIN new = DOMAIN db
      /\ \A i \in DOMAIN db : new[i].parentID = db[i].parentID
  BY DEF UpdateRow, Replacing, IsTable
<1>2. Replacing(db) \subseteq Replacing(new) /\ Insertable(db) \subseteq Insertable(new)
  BY <1>1 DEF Replacing, Insertable, ParentExists
<1> QED
  BY <1>2, LargerChanges DEF Applicable

\* Every change a directory scan can note applies.
LEMMA NotedChangesApply ==
    ASSUME TypeOK, ChangesApply, InScanDir, NEW p \in Paths, NEW t \in Nat
    PROVE  /\ addEntry(part, NewInfo(p, t)) \in Applicable(files)
           /\ pc # "openDir" =>
                 \A r \in oldRecords :
                     /\ replaceEntry(part, <<r[1], NewInfo(p, t)>>) \in Applicable(files)
                     /\ delEntry(part, r[1]) \in Applicable(files)
<1> DEFINE info == NewInfo(p, t)
<1>1. part \in Applicable(files)
  BY DEF ChangesApply
<1>2. info \in FileInfo /\ info.parentID = dirId
  BY NewInfoType DEF TypeOK, NewInfo
<1>3. info \in Insertable(files)
  BY <1>2 DEF Insertable, ParentExists, ChangesApply
<1>4. ASSUME pc # "openDir", NEW r \in oldRecords
      PROVE  <<r[1], info>> \in Replacing(files) /\ r[1] \in RecordID
  <2>1. r[1] \in DOMAIN files /\ files[r[1]].parentID = dirId
    BY <1>4 DEF ChangesApply, childrenFiles
  <2>2. r[1] \in RecordID
    BY <2>1 DEF TypeOK, IsTable
  <2> QED
    BY <1>2, <2>1, <2>2 DEF Replacing, FileRecord
<1> QED
  BY <1>1, <1>3, <1>4, EntryTypes DEF Applicable

LEMMA EnterScanDirApplies ==
    ASSUME RootedInv, pc \in {"scanRoots", "openDir"}, files' = files,
           NEW id \in DOMAIN files \cup {ROOT_RECORD_ID}, NEW names,
           NEW found \in Applicable(files), EnterScanDir(id, names, found)
    PROVE  ChangesApply'
<1>1. changes \in Applicable(files) /\ NoChanges \in Applicable(files)
  BY NoChangesType DEF RootedInv, ChangesApply, Applicable
<1>2. Splice(changes, found) \in Applicable(files)
  BY <1>1, SpliceType DEF Applicable
<1>3. CASE shouldBreak
  BY <1>1, <1>2, <1>3 DEF EnterScanDir, ChangesApply, InScanDir
<1>4. CASE ~shouldBreak
  BY <1>1, <1>4 DEF EnterScanDir, ChangesApply, InScanDir
<1> QED
  BY <1>3, <1>4

LEMMA LeaveScanDirApplies ==
    ASSUME RootedInv, InScanDir, files' = files, LeaveScanDir
    PROVE  ChangesApply'
<1>1. changes \in Applicable(files) /\ part \in Applicable(files)
  BY DEF RootedInv, ChangesApply, InScanDir
<1>2. Splice(changes, part) \in Applicable(files)
  BY <1>1, SpliceType DEF Applicable
<1> QED
  BY <1>2 DEF LeaveScanDir, ChangesApply, InScanDir

LEMMA LoopStepApplies ==
    ASSUME RootedInv,
           \/ LoopHead \/ ReadSettings \/ ClearRestart \/ Unhook \/ ClearContinue
           \/ ScanDirs \/ ScanDirsDone \/ Hook \/ Pause \/ QueryFails
    PROVE  ChangesApply' /\ files' = files /\ committed' = committed
<1> USE DEF RootedInv, ChangesApply, InScanDir, dbVars, tableVars, scanVars
<1>0. NoChanges \in Applicable(files)
  BY NoChangesType DEF Applicable
<1>1. CASE LoopHead
  BY <1>1 DEF LoopHead
<1>2. CASE ReadSettings
  BY <1>2 DEF ReadSettings
<1>3. CASE ClearRestart
  BY <1>3 DEF ClearRestart
<1>4. CASE Unhook
  BY <1>4 DEF Unhook
<1>5. CASE ClearContinue
  BY <1>0, <1>5 DEF ClearContinue
<1>6. CASE ScanDirs
  BY <1>0, <1>6 DEF ScanDirs
<1>7. CASE ScanDirsDone
  BY <1>7 DEF ScanDirsDone
<1>8. CASE Hook
  BY <1>8 DEF Hook
<1>9. CASE Pause
  BY <1>9 DEF Pause
<1>10. CASE QueryFails
  BY <1>0, <1>10, QueryFailsEffect DEF QueryFails
<1> QED
  BY <1>1, <1>2, <1>3, <1>4, <1>5, <1>6, <1>7, <1>8, <1>9, <1>10

LEMMA ScanStepApplies ==
    ASSUME RootedInv,
           \/ ScanRoots \/ ScanEntry \/ EntryDone \/ IterationFails \/ Missing
           \/ CheckDir \/ OpenDir
    PROVE  ChangesApply' /\ files' = files /\ committed' = committed
<1> USE DEF dbVars, tableVars
<1>0. NoChanges \in Applicable(files)
  BY NoChangesType DEF Applicable
<1>1. CASE ScanRoots
  BY <1>0, <1>1, EnterScanDirApplies DEF ScanRoots
<1>2. CASE ScanEntry
  <2>1. PICK p \in NextEntries :
            /\ entries' = entries \ {p}
            /\ IF shouldBreak
               THEN UNCHANGED <<part, oldRecords>>
               ELSE EntryUnreadable(p) \/ EntryIsDir(p) \/ EntryIgnored(p) \/ EntryIsFile(p)
    BY <1>2 DEF ScanEntry
  <2>2. /\ pc = "entry" /\ pc' = "entryDone" /\ files' = files /\ committed' = committed
        /\ dirId' = dirId /\ changes' = changes
    BY <1>2 DEF ScanEntry
  <2>3. p \in Paths /\ disk[p].mtime \in Nat
    BY <2>1, FileSystemAssumption DEF RootedInv, TypeOK, FsTypeOK, Node, NextEntries
  <2>4. part \in Applicable(files)
    BY <2>2 DEF RootedInv, ChangesApply, InScanDir
  <2>5. /\ addEntry(part, NewInfo(p, 0)) \in Applicable(files)
        /\ addEntry(part, NewInfo(p, disk[p].mtime)) \in Applicable(files)
        /\ \A r \in EqualRange(p) :
              replaceEntry(part, <<r[1], NewInfo(p, disk[p].mtime)>>) \in Applicable(files)
    BY <2>2, <2>3, NotedChangesApply, RangesInOldRecords DEF RootedInv, InScanDir
  <2>6. part' \in Applicable(files) /\ oldRecords' \subseteq oldRecords
    <3>1. CASE shouldBreak
      BY <2>1, <2>4, <3>1
    <3>2. CASE ~shouldBreak /\ EntryUnreadable(p)
      BY <2>4, <3>2, EraseShrinks DEF EntryUnreadable
    <3>3. CASE ~shouldBreak /\ EntryIsDir(p)
      BY <2>4, <2>5, <3>3, EraseShrinks DEF EntryIsDir
    <3>4. CASE ~shouldBreak /\ EntryIgnored(p)
      BY <2>4, <3>4 DEF EntryIgnored
    <3>5. CASE ~shouldBreak /\ EntryIsFile(p)
      BY <2>4, <2>5, <3>5 DEF EntryIsFile
    <3> QED
      BY <2>1, <3>1, <3>2, <3>3, <3>4, <3>5
  <2> QED
    BY <2>2, <2>6 DEF RootedInv, ChangesApply, InScanDir
<1>3. CASE EntryDone
  <2>1. CASE shouldBreak
    BY <1>3, <2>1, LeaveScanDirApplies DEF EntryDone, InScanDir
  <2>2. CASE ~shouldBreak
    BY <1>3, <2>2 DEF EntryDone, RootedInv, ChangesApply, InScanDir
  <2> QED
    BY <2>1, <2>2
<1>4. CASE IterationFails
  BY <1>0, <1>4 DEF IterationFails, RootedInv, ChangesApply, InScanDir
<1>5. CASE Missing
  <2>1. CASE oldRecords = {}
    BY <1>5, <2>1, LeaveScanDirApplies DEF Missing, InScanDir
  <2>2. CASE oldRecords # {}
    <3>1. PICK r \in LowerBound(0) :
              /\ part' = delEntry(part, r[1])
              /\ oldRecords' = oldRecords \ {r}
      BY <1>5, <2>2 DEF Missing
    <3>2. r \in FileRecord
      BY <3>1, RangesInOldRecords DEF RootedInv, TypeOK
    <3>3. r[2].fileName \in Paths
      BY <3>2 DEF FileRecord, FileInfo
    <3>4. part' \in Applicable(files)
      BY <1>5, <3>1, <3>3, NotedChangesApply, RangesInOldRecords
         DEF Missing, RootedInv, InScanDir
    <3> QED
      BY <1>5, <2>2, <3>1, <3>4 DEF Missing, RootedInv, ChangesApply, InScanDir
  <2> QED
    BY <2>1, <2>2
<1>6. CASE CheckDir
  <2> DEFINE id == Min(todo)
             path == files[id].fileName
             found == [files[id] EXCEPT !.lastWriteTime = disk[path].mtime]
  <2>1. part = NoChanges /\ changes \in Applicable(files)
    BY <1>6 DEF CheckDir, RootedInv, ChangesApply, InScanDir
  <2>2. ASSUME id \in DOMAIN files
        PROVE  /\ delEntry(changes, id) \in Applicable(files)
               /\ replaceEntry(NoChanges, <<id, found>>) \in Applicable(files)
    <3>1. id \in RecordID /\ files[id] \in FileInfo
      BY <2>2 DEF RootedInv, TypeOK, IsTable
    <3>2. disk[path].mtime \in Nat
      BY <3>1, FileSystemAssumption DEF RootedInv, TypeOK, FsTypeOK, Node, FileInfo
    <3>3. <<id, found>> \in Replacing(files)
      BY <2>2, <3>1, <3>2 DEF Replacing, FileRecord, FileInfo
    <3> QED
      BY <1>0, <2>1, <3>1, <3>3, EntryTypes DEF Applicable
  <2>3. /\ pc = "checkDir" /\ files' = files /\ committed' = committed
        /\ dirId' = id /\ oldRecords' = oldRecords
    BY <1>6 DEF CheckDir
  <2>4. \/ part' = part /\ changes' = changes /\ pc' = pc
        \/ id \in DOMAIN files /\ changes' = delEntry(changes, id) /\ part' = part /\ pc' = pc
        \/ /\ id \in DOMAIN files /\ part' = replaceEntry(NoChanges, <<id, found>>)
           /\ pc' = "openDir" /\ changes' = changes
    BY <1>6 DEF CheckDir
  <2> HIDE DEF found
  <2> QED
    BY <2>1, <2>2, <2>3, <2>4 DEF ChangesApply, InScanDir
<1>7. CASE OpenDir
  <2> DEFINE path == files[dirId].fileName
  <2>1. CASE ~Opens(path)
    BY <1>7, <2>1 DEF OpenDir, RootedInv, ChangesApply, InScanDir
  <2>2. CASE Opens(path)
    <3>1. EnterScanDir(dirId, Listing(path), part) /\ pc = "openDir" /\ files' = files
      BY <1>7, <2>2 DEF OpenDir
    <3>2. part \in Applicable(files) /\ dirId \in DOMAIN files \cup {ROOT_RECORD_ID}
      BY <3>1 DEF RootedInv, ChangesApply, InScanDir
    <3> QED
      BY <1>7, <3>1, <3>2, EnterScanDirApplies DEF OpenDir
  <2> QED
    BY <2>1, <2>2
<1> QED
  BY <1>1, <1>2, <1>3, <1>4, <1>5, <1>6, <1>7

LEMMA SaveStepApplies ==
    ASSUME RootedInv,
           \/ Save \/ BeginFails \/ SaveAdded \/ SaveChanged \/ SaveDeleted
           \/ StatementFails \/ Commit \/ CommitFails \/ CommitThrows
    PROVE  ChangesApply' /\ Rooted'
<1> USE DEF dbVars, tableVars
<1>0. \A db : NoChanges \in Applicable(db)
  BY NoChangesType DEF Applicable
<1>a. part = NoChanges /\ part' = part /\ ~InScanDir
  BY DEF Save, BeginFails, SaveAdded, SaveChanged, SaveDeleted, StatementFails, Executes,
         Commit, CommitFails, CommitThrows, RootedInv, ChangesApply, InScanDir
<1>1. CASE Save
  BY <1>0, <1>1, <1>a DEF Save, SaveReturns, beginTransaction, SaveOrder, RootedInv, Rooted,
                          ChangesApply, InScanDir
<1>2. CASE BeginFails
  BY <1>0, <1>2, <1>a DEF BeginFails, SaveThrows, RootedInv, Rooted, ChangesApply, InScanDir
<1>3. CASE SaveAdded
  <2>1. CASE changes.added = <<>> \/ shouldBreak
    BY <1>3, <1>a, <2>1 DEF SaveAdded, PhaseAfter, SaveOrder, RootedInv, Rooted,
                            ChangesApply, InScanDir
  <2>2. CASE ~(changes.added = <<>> \/ shouldBreak)
    <3> DEFINE rec == Head(changes.added)
    <3>1. /\ addFile(rec) /\ pc = "adding" /\ pc' = pc
          /\ changes' = [changes EXCEPT !.added = Tail(@)]
      BY <1>3, <2>2 DEF SaveAdded
    <3>2. changes \in Applicable(files)
      BY <3>1 DEF RootedInv, ChangesApply
    <3>3. rec \in Insertable(files) /\ changes' \in Applicable(files)
      BY <2>2, <3>1, <3>2, RestTypes DEF Applicable
    <3>4. files' = InsertRow(files, rec) /\ committed' = committed
      BY <3>1 DEF addFile
    <3>5. ParentsAreOlder(files') /\ ParentsAreOlder(committed')
      BY <3>3, <3>4, InsertRowKeepsParents DEF Insertable, RootedInv, Rooted, TypeOK
    <3>6. changes' \in Applicable(files')
      BY <3>3, <3>4, InsertKeepsApplicable DEF Insertable, RootedInv, TypeOK
    <3> QED
      BY <1>a, <3>1, <3>5, <3>6 DEF Rooted, ChangesApply, InScanDir
  <2> QED
    BY <2>1, <2>2
<1>4. CASE SaveChanged
  <2>1. CASE changes.changed = <<>> \/ shouldBreak
    BY <1>4, <1>a, <2>1 DEF SaveChanged, PhaseAfter, SaveOrder, RootedInv, Rooted,
                            ChangesApply, InScanDir
  <2>2. CASE ~(changes.changed = <<>> \/ shouldBreak)
    <3> DEFINE rec == Head(changes.changed)
    <3>1. /\ replaceFile(rec[1], rec[2]) /\ pc = "changing" /\ pc' = pc
          /\ changes' = [changes EXCEPT !.changed = Tail(@)]
      BY <1>4, <2>2 DEF SaveChanged
    <3>2. changes \in Applicable(files)
      BY <3>1 DEF RootedInv, ChangesApply
    <3>3. rec \in Replacing(files) /\ changes' \in Applicable(files)
      BY <2>2, <3>1, <3>2, RestTypes DEF Applicable
    <3>4. files' = UpdateRow(files, rec[1], rec[2]) /\ committed' = committed
      BY <3>1 DEF replaceFile
    <3>5. rec[2] \in FileInfo /\ rec[2].parentID = files[rec[1]].parentID
      BY <3>3 DEF Replacing, FileRecord
    <3>6. ParentsAreOlder(files') /\ ParentsAreOlder(committed')
      BY <3>4, <3>5, UpdateRowKeepsParents DEF RootedInv, Rooted, TypeOK
    <3>7. changes' \in Applicable(files')
      BY <3>3, <3>4, UpdateKeepsApplicable DEF RootedInv, TypeOK
    <3> QED
      BY <1>a, <3>1, <3>6, <3>7 DEF Rooted, ChangesApply, InScanDir
  <2> QED
    BY <2>1, <2>2
<1>5. CASE SaveDeleted
  <2>1. CASE changes.deleted = <<>> \/ shouldBreak
    BY <1>5, <1>a, <2>1 DEF SaveDeleted, PhaseAfter, SaveOrder, RootedInv, Rooted,
                            ChangesApply, InScanDir
  <2>2. CASE ~(changes.deleted = <<>> \/ shouldBreak)
    <3>1. /\ files' = DeleteRow(files, Head(changes.deleted)) /\ committed' = committed
          /\ pc = "deleting" /\ pc' = pc
      BY <1>5, <2>2 DEF SaveDeleted, delFile
    <3>2. ParentsAreOlder(files') /\ ParentsAreOlder(committed')
      BY <3>1, DeleteRowKeepsParents DEF RootedInv, Rooted, TypeOK
    <3> QED
      BY <1>a, <3>1, <3>2 DEF Rooted, ChangesApply, InScanDir
  <2> QED
    BY <2>1, <2>2
<1>6. CASE StatementFails
  BY <1>0, <1>6, <1>a, StatementFailsEffect
     DEF Undo, SaveThrows, Terminates, RootedInv, Rooted, ChangesApply, InScanDir
<1>7. CASE Commit
  BY <1>0, <1>7, <1>a DEF Commit, commit, SaveReturns, RootedInv, Rooted, ChangesApply, InScanDir
<1>8. CASE CommitFails \/ CommitThrows
  BY <1>0, <1>8, <1>a, CommitEffect
     DEF Undo, SaveThrows, Terminates, SaveReturns, RootedInv, Rooted, ChangesApply, InScanDir
<1> QED
  BY <1>1, <1>2, <1>3, <1>4, <1>5, <1>6, <1>7, <1>8

\* The GUI thread and other programs touch neither the table nor the changes.
LEMMA OutsideStepApplies ==
    ASSUME RootedInv, GuiStep \/ DiskStep \/ UNCHANGED vars
    PROVE  ChangesApply' /\ Rooted'
<1>1. UNCHANGED <<files, committed, pc, part, changes, dirId, oldRecords>>
  BY OutsideLeavesScan
<1> QED
  BY <1>1 DEF RootedInv, Rooted, ChangesApply, InScanDir

LEMMA RootedInit == Init => RootedInv
<1> SUFFICES ASSUME Init PROVE Rooted /\ ChangesApply
  BY InitType DEF RootedInv
<1>1. NoChanges \in Applicable(files)
  BY NoChangesType DEF Applicable
<1> QED
  BY <1>1, ScanThreadAssumption DEF Init, Rooted, ChangesApply, InScanDir

LEMMA RootedStep == RootedInv /\ [Next]_vars => RootedInv'
<1> SUFFICES ASSUME RootedInv, [Next]_vars PROVE Rooted' /\ ChangesApply'
  BY TypeStep DEF RootedInv
<1>1. CASE ScanStep
  <2>1. ASSUME files' = files, committed' = committed PROVE Rooted'
    BY <2>1 DEF RootedInv, Rooted
  <2> QED
    BY <1>1, <2>1, LoopStepApplies, ScanStepApplies, SaveStepApplies DEF ScanStep
<1>2. CASE GuiStep \/ DiskStep \/ UNCHANGED vars
  BY <1>2, OutsideStepApplies
<1> QED
  BY <1>1, <1>2 DEF Next

LEMMA RootedInvCorrect == Spec => []RootedInv
  BY RootedInit, RootedStep, PTL DEF Spec

\* Whatever interrupts or fails, every row of the table being written and of
\* the committed one hangs below the root, through rows older than itself: the
\* tree of the widget has no orphan and no cycle.
THEOREM RowsAreRooted == Spec => []Rooted
<1>1. RootedInv => Rooted
  BY DEF RootedInv
<1> QED
  BY <1>1, RootedInvCorrect, PTL

\* Whatever save is about to insert or update has its parent in the table.
LEMMA RootedKeepsForeignKeys ==
    ASSUME RootedInv
    PROVE  NoForeignKeyFailure
<1>1. ASSUME pc \in {"adding", "changing"} PROVE changes \in Applicable(files)
  BY <1>1 DEF RootedInv, ChangesApply
<1>2. ASSUME pc = "adding", changes.added # <<>>
      PROVE  ParentExists(files, Head(changes.added))
  <2>1. Head(changes.added) \in Insertable(files)
    BY <1>1, <1>2, RestTypes DEF Applicable
  <2> QED
    BY <2>1 DEF Insertable
<1>3. ASSUME pc = "changing", changes.changed # <<>>
      PROVE  ParentExists(files, Head(changes.changed)[2])
  <2>1. Head(changes.changed) \in Replacing(files)
    BY <1>1, <1>3, RestTypes DEF Applicable
  <2> QED
    BY <2>1 DEF Replacing, RootedInv, Rooted, ParentsAreOlder, ParentExists
<1> QED
  BY <1>2, <1>3 DEF NoForeignKeyFailure, ForeignKeyFails

\* The statement that save is about to execute never breaks the foreign key:
\* the order of its loops never removes a parent it still needs.
THEOREM ForeignKeyNeverFails == Spec => []NoForeignKeyFailure
<1> QED
  BY RootedKeepsForeignKeys, RootedInvCorrect, PTL

-----------------------------------------------------------------------------
(* A scan that was cut short writes nothing: the flag that cut it short is  *)
(* still set when its changes reach save.                                   *)

\* Until the next scan begins nothing resets a flag.
LEMMA FlagsStaySet ==
    ASSUME TypeOK, [Next]_vars, shouldBreak, pc \notin {"clearRestart", "clearContinue", "pause"}
    PROVE  shouldBreak'
<1> USE DEF shouldBreak, TypeOK, flagVars
<1>1. CASE ScanStep
  BY <1>1 DEF ScanStep, LoopHead, ReadSettings, ClearRestart, Unhook, ClearContinue, ScanRoots,
              ScanEntry, EntryDone, IterationFails, Missing, ScanDirs, ScanDirsDone, CheckDir,
              OpenDir, QueryFails, Save, BeginFails, SaveAdded, SaveChanged, SaveDeleted,
              StatementFails, Commit, CommitFails, CommitThrows, Hook, Pause
<1>2. CASE GuiStep
  <2>1. /\ stop_' = stop_ \/ stop_' = TRUE
        /\ restart_' = restart_ \/ restart_' = TRUE
        /\ continue_ => continue_'
    BY <1>2 DEF GuiStep, UserStep, onRowExpanded, onRowCollapsed, RowExpanded, RowsCollapsed,
                ForgetRow, onRefresh, storeSettings, restart, Stop, NotifyContinue
  <2> QED
    BY <2>1
<1>3. CASE DiskStep
  BY <1>3 DEF DiskStep
<1>4. CASE UNCHANGED vars
  BY <1>4 DEF vars
<1> QED
  BY <1>1, <1>2, <1>3, <1>4 DEF Next

LEMMA CutShortInit == Init => CutShortBreaks
  BY DEF Init, CutShortBreaks

LEMMA CutShortStep == TypeOK /\ CutShortBreaks /\ [Next]_vars => CutShortBreaks'
<1> SUFFICES ASSUME TypeOK, CutShortBreaks, [Next]_vars PROVE CutShortBreaks'
  OBVIOUS
<1> DEFINE Working == {"scanRoots", "entry", "entryDone", "missing", "checkDir", "openDir",
                       "save", "adding", "changing", "deleting", "committing"}
<1>1. ASSUME shouldBreak, pc \in Working PROVE shouldBreak'
  BY <1>1, FlagsStaySet
<1>2. ASSUME cutShort' = cutShort, pc \in Working PROVE CutShortBreaks'
  BY <1>1, <1>2 DEF CutShortBreaks
<1>3. ASSUME pc' \notin Working \/ ~cutShort' PROVE CutShortBreaks'
  BY <1>3 DEF CutShortBreaks
<1>4. CASE LoopHead \/ ReadSettings \/ ClearRestart \/ Unhook \/ ClearContinue \/ Hook \/ Pause
           \/ ScanDirs
  BY <1>3, <1>4 DEF LoopHead, ReadSettings, ClearRestart, Unhook, ClearContinue, Hook, Pause,
                    ScanDirs
<1>5. CASE ScanRoots \/ EntryDone \/ OpenDir \/ ScanDirsDone
  <2>1. pc \in Working /\ (cutShort' = cutShort \/ shouldBreak)
    <3>1. CASE ScanRoots
      BY <3>1 DEF ScanRoots, EnterScanDir
    <3>2. CASE EntryDone
      BY <3>2 DEF EntryDone
    <3>3. CASE OpenDir
      BY <3>3 DEF OpenDir, EnterScanDir
    <3>4. CASE ScanDirsDone
      BY <3>4 DEF ScanDirsDone, TypeOK
    <3> QED
      BY <1>5, <3>1, <3>2, <3>3, <3>4
  <2> QED
    BY <1>1, <1>2, <2>1 DEF CutShortBreaks
<1>6. CASE \/ ScanEntry \/ IterationFails \/ Missing \/ CheckDir \/ QueryFails
           \/ Save \/ BeginFails \/ SaveAdded \/ SaveChanged \/ SaveDeleted \/ StatementFails
           \/ Commit \/ CommitFails \/ CommitThrows
  <2>1. cutShort' = cutShort /\ (pc \in Working \/ pc' \notin Working)
    BY <1>6 DEF ScanEntry, IterationFails, Missing, CheckDir, QueryFails, Save, BeginFails,
                SaveAdded, SaveChanged, SaveDeleted, StatementFails, Executes, Commit,
                CommitFails, CommitThrows, histVars
  <2> QED
    BY <1>2, <1>3, <2>1
<1>7. CASE GuiStep \/ DiskStep \/ UNCHANGED vars
  <2>1. cutShort' = cutShort /\ pc' = pc
    BY <1>7, OutsideLeavesScan
  <2> QED
    BY <1>2, <1>3, <2>1
<1> QED
  BY <1>4, <1>5, <1>6, <1>7 DEF Next, ScanStep

\* The table changes only in the loops of save and in a rollback.
LEMMA TableWrittenBySave ==
    ASSUME [Next]_vars, files' # files
    PROVE  \/ files' = committed
           \/ pc \in {"adding", "changing", "deleting"} /\ ~shouldBreak
<1> USE DEF dbVars, tableVars
<1>1. CASE StatementFails \/ CommitFails \/ CommitThrows
  BY <1>1, StatementFailsEffect, CommitEffect DEF Undo
<1>2. CASE ScanStep /\ ~(StatementFails \/ CommitFails \/ CommitThrows)
  BY <1>2 DEF ScanStep, LoopHead, ReadSettings, ClearRestart, Unhook, ClearContinue, ScanRoots,
              ScanEntry, EntryDone, IterationFails, Missing, ScanDirs, ScanDirsDone, CheckDir,
              OpenDir, QueryFails, Save, BeginFails, SaveAdded, SaveChanged, SaveDeleted,
              Commit, Hook, Pause, beginTransaction, commit
<1>3. CASE GuiStep \/ DiskStep \/ UNCHANGED vars
  BY <1>3, OutsideLeavesScan
<1> QED
  BY <1>1, <1>2, <1>3 DEF Next

\* A scan that was cut short, whoever cut it short and whatever failed since,
\* never writes to the table: what it has found so far is thrown away.
THEOREM PartialScansAreDropped == Spec => PartialScanWritesNothing
<1>1. CutShortBreaks /\ [Next]_vars => (cutShort /\ cutShort' => files' \in {files, committed})
  BY TableWrittenBySave DEF CutShortBreaks
<1> QED
  BY <1>1, TypeCorrect, CutShortInit, CutShortStep, PTL DEF Spec, PartialScanWritesNothing

-----------------------------------------------------------------------------
(* Transactions. *)

TransactionInv ==
    /\ RootedInv
    /\ NoTransactionLeftOpen
    /\ faults = 0 => failed = {}
    /\ faults = 0 /\ InSave => inTx

\* Unless something fails now, none of the steps in which a call fails is taken.
LEMMA NothingFails ==
    ASSUME TransactionInv, [Next]_vars, faults' = 0
    PROVE  ~(StatementFails \/ CommitFails \/ CommitThrows \/ BeginFails \/ QueryFails)
<1> USE DEF TransactionInv, NoTransactionLeftOpen, InSave
<1>0. faults \in Nat
  BY DEF RootedInv, TypeOK
<1>1. ~ForeignKeyFails
  BY RootedKeepsForeignKeys DEF NoForeignKeyFailure
<1>2. faults' # faults + 1 /\ (faults' = faults => failed = {})
  BY <1>0
<1>3. ~(BeginFails /\ faults = 0 /\ inTx)
  BY DEF BeginFails
<1>4. ~StatementFails
  BY <1>1, <1>2, StatementFailsEffect
<1>5. ~(CommitFails \/ CommitThrows)
  BY <1>2, CommitEffect
<1>6. ~BeginFails
  BY <1>2, <1>3, BeginFailsEffect
<1>7. ~QueryFails
  BY <1>2, QueryFailsEffect
<1> QED
  BY <1>4, <1>5, <1>6, <1>7

LEMMA TransactionInit == Init => TransactionInv
  BY RootedInit DEF Init, TransactionInv, NoTransactionLeftOpen, InSave

LEMMA TransactionStep == TransactionInv /\ [Next]_vars => TransactionInv'
<1> USE DEF TransactionInv, NoTransactionLeftOpen, InSave
<1> SUFFICES ASSUME TransactionInv, [Next]_vars, faults' = 0
             PROVE  /\ failed' = {}
                    /\ inTx' => InSave'
                    /\ ~inTx' => files' = committed'
                    /\ InSave' => inTx'
  BY RootedStep
<1> USE DEF dbVars, tableVars, boundVars
<1>0. faults \in Nat
  BY DEF RootedInv, TypeOK
<1>1. ~(StatementFails \/ CommitFails \/ CommitThrows \/ BeginFails \/ QueryFails)
  BY NothingFails
<1>2. CASE \/ LoopHead \/ ReadSettings \/ ClearRestart \/ Unhook \/ ClearContinue
           \/ ScanRoots \/ ScanEntry \/ EntryDone \/ IterationFails \/ Missing
           \/ ScanDirs \/ ScanDirsDone \/ CheckDir \/ OpenDir \/ Hook \/ Pause
  <2>1. UNCHANGED dbVars /\ ~InSave /\ ~InSave' /\ (faults' = faults \/ faults' = faults + 1)
    BY <1>2 DEF LoopHead, ReadSettings, ClearRestart, Unhook, ClearContinue, ScanRoots,
                ScanEntry, EntryDone, IterationFails, Missing, ScanDirs, ScanDirsDone,
                CheckDir, OpenDir, Hook, Pause, EnterScanDir, LeaveScanDir
  <2> QED
    BY <1>0, <2>1
<1>3. CASE Save
  BY <1>3 DEF Save, SaveReturns, SaveOrder, beginTransaction
<1>4. CASE SaveAdded \/ SaveChanged \/ SaveDeleted
  <2>1. inTx' = inTx /\ failed' = failed /\ faults' = faults /\ InSave /\ InSave'
    BY <1>4 DEF SaveAdded, SaveChanged, SaveDeleted, addFile, replaceFile, delFile,
                PhaseAfter, SaveOrder
  <2> QED
    BY <2>1
<1>5. CASE Commit
  BY <1>5 DEF Commit, commit, SaveReturns
<1>6. CASE GuiStep \/ DiskStep \/ UNCHANGED vars
  BY <1>6, OutsideLeavesScan
<1> QED
  BY <1>1, <1>2, <1>3, <1>4, <1>5, <1>6 DEF Next, ScanStep

LEMMA TransactionInvCorrect == Spec => []TransactionInv
  BY TransactionInit, TransactionStep, PTL DEF Spec

\* As long as no call to the database fails, the scanner holds a transaction
\* exactly while save writes, and outside it everything is committed.
THEOREM TransactionsAreClosed == Spec => []NoTransactionLeftOpen
<1>1. TransactionInv => NoTransactionLeftOpen
  BY DEF TransactionInv
<1> QED
  BY <1>1, TransactionInvCorrect, PTL

-----------------------------------------------------------------------------
(* Events. *)

\* What has been said last about a record.
LEMMA LastEvent ==
    ASSUME TypeOK, NEW id, EventsOf(id) # {}
    PROVE  Max(EventsOf(id)) \in EventsOf(id) /\ \A k \in EventsOf(id) : k <= Max(EventsOf(id))
<1>1. Len(events) \in Nat /\ DOMAIN events = 1 .. Len(events)
  BY DEF TypeOK
<1>2. EventsOf(id) \in SUBSET Nat /\ \A k \in EventsOf(id) : k <= Len(events)
  BY <1>1 DEF EventsOf
<1> QED
  BY <1>1, <1>2, BoundedHasMaximum, MaxIsMember

\* One more event is the last about its record, and changes nothing for the others.
LEMMA NextEvent ==
    ASSUME TypeOK, TypeOK', NEW e \in ScanEvent, events' = Append(events, e), NEW id
    PROVE  /\ e.id # id => /\ EventsOf(id)' = EventsOf(id)
                           /\ \A k \in EventsOf(id) : events'[k] = events[k]
           /\ e.id = id => events'[Max(EventsOf(id)')] = e
<1> DEFINE n == Len(events) + 1
<1>1. Len(events) \in Nat /\ DOMAIN events = 1 .. Len(events) /\ DOMAIN events' = 1 .. n
  BY DEF TypeOK
<1>2. events'[n] = e /\ \A k \in 1 .. Len(events) : events'[k] = events[k]
  BY <1>1 DEF TypeOK
<1>3. ASSUME e.id # id
      PROVE  EventsOf(id)' = EventsOf(id) /\ \A k \in EventsOf(id) : events'[k] = events[k]
  BY <1>1, <1>2, <1>3 DEF EventsOf
<1>4. ASSUME e.id = id PROVE events'[Max(EventsOf(id)')] = e
  <2>1. n \in EventsOf(id)' /\ \A k \in EventsOf(id)' : k \in 1 .. n
    BY <1>1, <1>2, <1>4 DEF EventsOf
  <2>2. /\ Max(EventsOf(id)') \in EventsOf(id)'
        /\ \A k \in EventsOf(id)' : k <= Max(EventsOf(id)')
    <3>1. EventsOf(id)' \in SUBSET Nat /\ \A k \in EventsOf(id)' : k <= n
      BY <1>1, <2>1
    <3> QED
      BY <1>1, <2>1, <3>1, BoundedHasMaximum, MaxIsMember
  <2>3. Max(EventsOf(id)') = n
    BY <1>1, <2>1, <2>2
  <2> QED
    BY <1>2, <2>3
<1> QED
  BY <1>3, <1>4

\* Two steps of save at most touch a row: its INSERT or UPDATE, which is said last,
\* or its deletion, after which the row is gone.
LEMMA ObituaryStep ==
    ASSUME TransactionInv, TransactionInv', NoFalseObituary, [Next]_vars
    PROVE  NoFalseObituary'
<1> SUFFICES ASSUME faults' = 0, NEW id \in DOMAIN files', EventsOf(id)' # {}
             PROVE  events'[Max(EventsOf(id)')].type # "DELETED"
  BY DEF NoFalseObituary
<1> USE DEF dbVars, tableVars, boundVars
<1>0. TypeOK /\ TypeOK' /\ faults \in Nat
  BY DEF TransactionInv, RootedInv, TypeOK
<1>1. ~(StatementFails \/ CommitFails \/ CommitThrows \/ BeginFails \/ QueryFails)
  BY NothingFails
<1>2. ASSUME faults = 0, id \in DOMAIN files, EventsOf(id)' = EventsOf(id),
             \A k \in EventsOf(id) : events'[k] = events[k]
      PROVE  events'[Max(EventsOf(id)')].type # "DELETED"
  BY <1>0, <1>2, LastEvent DEF NoFalseObituary
<1>3. ASSUME faults' = faults \/ faults' = faults + 1, files' = files, events' = events
      PROVE  events'[Max(EventsOf(id)')].type # "DELETED"
  BY <1>0, <1>2, <1>3 DEF EventsOf
<1>4. ASSUME NEW e \in ScanEvent, events' = Append(events, e), faults = 0, e.type # "DELETED",
             id = e.id \/ id \in DOMAIN files
      PROVE  events'[Max(EventsOf(id)')].type # "DELETED"
  BY <1>0, <1>2, <1>4, NextEvent
<1>5. CASE \/ LoopHead \/ ReadSettings \/ ClearRestart \/ Unhook \/ ClearContinue
           \/ ScanRoots \/ ScanEntry \/ EntryDone \/ IterationFails \/ Missing
           \/ ScanDirs \/ ScanDirsDone \/ CheckDir \/ OpenDir \/ Hook \/ Pause \/ Save \/ Commit
  <2>1. files' = files /\ events' = events /\ (faults' = faults \/ faults' = faults + 1)
    BY <1>5 DEF LoopHead, ReadSettings, ClearRestart, Unhook, ClearContinue, ScanRoots,
                ScanEntry, EntryDone, IterationFails, Missing, ScanDirs, ScanDirsDone,
                CheckDir, OpenDir, Hook, Pause, Save, Commit, beginTransaction, commit
  <2> QED
    BY <1>3, <2>1
<1>6. CASE SaveAdded
  <2>1. CASE changes.added = <<>> \/ shouldBreak
    BY <1>3, <1>6, <2>1 DEF SaveAdded
  <2>2. CASE ~(changes.added = <<>> \/ shouldBreak)
    <3>1. /\ files' = InsertRow(files, Head(changes.added))
          /\ events' = Append(events, Event("ADDED", NewRowId(files))) /\ faults = 0
      BY <1>6, <2>2 DEF SaveAdded, addFile
    <3>2. Event("ADDED", NewRowId(files)) \in ScanEvent
      BY <1>0, NewRowIdIsFresh DEF Event, ScanEvent, TypeOK
    <3>3. id = NewRowId(files) \/ id \in DOMAIN files
      BY <3>1 DEF InsertRow
    <3> QED
      BY <1>4, <3>1, <3>2, <3>3 DEF Event
  <2> QED
    BY <2>1, <2>2
<1>7. CASE SaveChanged
  <2>1. CASE changes.changed = <<>> \/ shouldBreak
    BY <1>3, <1>7, <2>1 DEF SaveChanged
  <2>2. CASE ~(changes.changed = <<>> \/ shouldBreak)
    <3> DEFINE rec == Head(changes.changed)
    <3>1. /\ files' = UpdateRow(files, rec[1], rec[2])
          /\ events' = Append(events, Event("UPDATED", rec[1])) /\ faults = 0
      BY <1>7, <2>2 DEF SaveChanged, replaceFile
    <3>2. rec \in FileRecord
      BY <1>0, <2>2, RestTypes, ChangesIsOver DEF TypeOK
    <3>3. Event("UPDATED", rec[1]) \in ScanEvent
      BY <3>2 DEF Event, ScanEvent, FileRecord
    <3>4. DOMAIN files' = DOMAIN files
      BY <1>0, <3>1, <3>2, UpdateRowKeepsTable DEF TypeOK, FileRecord
    <3> QED
      BY <1>4, <3>1, <3>3, <3>4 DEF Event
  <2> QED
    BY <2>1, <2>2
<1>8. CASE SaveDeleted
  <2>1. CASE changes.deleted = <<>> \/ shouldBreak
    BY <1>3, <1>8, <2>1 DEF SaveDeleted
  <2>2. CASE ~(changes.deleted = <<>> \/ shouldBreak)
    <3> DEFINE gone == Head(changes.deleted)
    <3>1. /\ files' = DeleteRow(files, gone)
          /\ events' = Append(events, Event("DELETED", gone)) /\ faults = 0
      BY <1>8, <2>2 DEF SaveDeleted, delFile
    <3>2. gone \in RecordID
      BY <1>0, <2>2, RestTypes, ChangesIsOver DEF TypeOK
    <3>3. Event("DELETED", gone) \in ScanEvent
      BY <3>2 DEF Event, ScanEvent
    <3>4. id # gone /\ id \in DOMAIN files
      BY <3>1 DEF DeleteRow, Cascade
    <3>5. Event("DELETED", gone).id # id
      BY <3>4 DEF Event
    <3> QED
      BY <1>0, <1>2, <3>1, <3>3, <3>4, <3>5, NextEvent
  <2> QED
    BY <2>1, <2>2
<1>9. CASE GuiStep \/ DiskStep \/ UNCHANGED vars
  <2>1. events' = events
    BY <1>9 DEF GuiStep, UserStep, onRowExpanded, onRowCollapsed, RowExpanded, RowsCollapsed,
                ForgetRow, onRefresh, storeSettings, restart, Stop, DiskStep, vars
  <2> QED
    BY <1>3, <1>9, <2>1, OutsideLeavesScan
<1> QED
  BY <1>1, <1>5, <1>6, <1>7, <1>8, <1>9 DEF Next, ScanStep

\* As long as no call to the database fails, a widget that has got to the end of
\* the events does not believe a record of the table to be deleted: not even one
\* whose id was that of a deleted record before.
THEOREM NoRecordIsDeclaredDead == Spec => []NoFalseObituary
<1>1. Init => NoFalseObituary
  BY DEF Init, NoFalseObituary, EventsOf
<1> QED
  BY <1>1, TransactionInvCorrect, ObituaryStep, PTL DEF Spec

=============================================================================
