---------------------------- MODULE CourseProofs ----------------------------
(***************************************************************************)
(* Proofs about the course of a scan: what it has noted at any moment, and *)
(* what follows for the names of the records and for the root directories. *)
(***************************************************************************)
EXTENDS ScanInvariants, ScanThreadProofs, SequenceTheorems

-----------------------------------------------------------------------------
(* What Changes note, as sets. *)

LEMMA RangeOfAppend ==
    ASSUME NEW S, NEW s \in Seq(S), NEW x \in S
    PROVE  Range(Append(s, x)) = Range(s) \cup {x}
<1> DEFINE t == Append(s, x)
<1>1. Len(s) \in Nat /\ DOMAIN s = 1 .. Len(s) /\ DOMAIN t = 1 .. Len(s) + 1
  BY AppendProperties, LenProperties
<1>2. t[Len(s) + 1] = x /\ \A k \in 1 .. Len(s) : t[k] = s[k]
  BY AppendProperties
<1> HIDE DEF t
<1>3. DOMAIN t = DOMAIN s \cup {Len(s) + 1}
  BY <1>1
<1> QED
  BY <1>1, <1>2, <1>3 DEF Range

LEMMA RangeOfConcat ==
    ASSUME NEW S, NEW s \in Seq(S), NEW t \in Seq(S)
    PROVE  Range(s \o t) = Range(s) \cup Range(t)
<1> DEFINE u == s \o t
<1>1. /\ Len(s) \in Nat /\ DOMAIN s = 1 .. Len(s)
      /\ Len(t) \in Nat /\ DOMAIN t = 1 .. Len(t)
      /\ DOMAIN u = 1 .. Len(s) + Len(t)
  BY ConcatProperties, LenProperties
<1>2. /\ \A k \in 1 .. Len(s) : u[k] = s[k]
      /\ \A k \in Len(s) + 1 .. Len(s) + Len(t) : u[k] = t[k - Len(s)]
  BY ConcatProperties, <1>1
<1> HIDE DEF u
<1>3. Range(u) \subseteq Range(s) \cup Range(t)
  <2>1. ASSUME NEW k \in 1 .. Len(s) + Len(t) PROVE u[k] \in Range(s) \cup Range(t)
    <3>1. CASE k <= Len(s)
      BY <1>1, <1>2, <3>1 DEF Range
    <3>2. CASE k > Len(s)
      <4>1. k - Len(s) \in 1 .. Len(t) /\ u[k] = t[k - Len(s)]
        BY <1>1, <1>2, <3>2
      <4> QED
        BY <1>1, <4>1 DEF Range
    <3> QED
      BY <1>1, <3>1, <3>2
  <2> QED
    BY <1>1, <2>1 DEF Range
<1>4. ASSUME NEW k \in 1 .. Len(t) PROVE t[k] \in Range(u)
  <2>1. k + Len(s) \in 1 .. Len(s) + Len(t) /\ u[k + Len(s)] = t[k]
    BY <1>1, <1>2
  <2> QED
    BY <1>1, <2>1 DEF Range
<1>5. ASSUME NEW k \in 1 .. Len(s) PROVE s[k] \in Range(u)
  BY <1>1, <1>2 DEF Range
<1>6. Range(s) \subseteq Range(u) /\ Range(t) \subseteq Range(u)
  BY <1>1, <1>4, <1>5 DEF Range
<1>7. Range(u) = Range(s) \cup Range(t)
  BY <1>3, <1>6
<1> QED
  BY <1>7 DEF u

LEMMA RangeOfTail ==
    ASSUME NEW S, NEW s \in Seq(S), s # <<>>
    PROVE  Range(s) = {Head(s)} \cup Range(Tail(s))
<1> DEFINE t == Tail(s)
<1>1. Len(s) \in Nat \ {0} /\ DOMAIN s = 1 .. Len(s) /\ DOMAIN t = 1 .. Len(s) - 1
  BY EmptySeq, HeadTailProperties, LenProperties
<1>2. Head(s) = s[1] /\ \A k \in 1 .. Len(s) - 1 : t[k] = s[k + 1]
  BY HeadTailProperties
<1> HIDE DEF t
<1>3. ASSUME NEW k \in 1 .. Len(s) PROVE s[k] = Head(s) \/ s[k] \in Range(t)
  <2>1. CASE k = 1
    BY <1>2, <2>1
  <2>2. CASE k # 1
    <3>1. k - 1 \in 1 .. Len(s) - 1 /\ t[k - 1] = s[k]
      BY <1>1, <1>2, <2>2
    <3> QED
      BY <1>1, <3>1 DEF Range
  <2> QED
    BY <2>1, <2>2
<1>4. ASSUME NEW k \in 1 .. Len(s) - 1 PROVE t[k] \in Range(s)
  BY <1>1, <1>2 DEF Range
<1>5. Head(s) \in Range(s)
  BY <1>1, <1>2 DEF Range
<1>6. Range(s) \subseteq {Head(s)} \cup Range(t)
  BY <1>1, <1>3 DEF Range
<1>7. Range(t) \subseteq Range(s)
  BY <1>1, <1>4 DEF Range
<1>8. Range(s) = {Head(s)} \cup Range(t)
  BY <1>5, <1>6, <1>7
<1> QED
  BY <1>8 DEF t

LEMMA RangeOfNone == Range(<<>>) = {}
  BY DEF Range

LEMMA NothingNoted ==
    /\ Deleted(NoChanges) = {} /\ Changed(NoChanges) = {} /\ Added(NoChanges) = {}
    /\ NoChanges.added = <<>>
  BY RangeOfNone DEF Deleted, Changed, Added, NoChanges

LEMMA NotedByEntries ==
    ASSUME NEW A, NEW B, NEW c \in ChangesOver(A, B)
    PROVE  /\ \A id \in RecordID :
                  /\ Deleted(delEntry(c, id)) = Deleted(c) \cup {id}
                  /\ Changed(delEntry(c, id)) = Changed(c)
                  /\ delEntry(c, id).added = c.added
           /\ \A rec \in A :
                  /\ Deleted(replaceEntry(c, rec)) = Deleted(c)
                  /\ Changed(replaceEntry(c, rec)) = Changed(c) \cup {rec}
                  /\ replaceEntry(c, rec).added = c.added
           /\ \A info \in B :
                  /\ Deleted(addEntry(c, info)) = Deleted(c)
                  /\ Changed(addEntry(c, info)) = Changed(c)
                  /\ addEntry(c, info).added = Append(c.added, info)
                  /\ Added(addEntry(c, info)) = Added(c) \cup {info}
  BY RangeOfAppend DEF ChangesOver, delEntry, replaceEntry, addEntry, Deleted, Changed, Added

LEMMA NotedBySplice ==
    ASSUME NEW c \in Changes, NEW d \in Changes
    PROVE  /\ Deleted(Splice(c, d)) = Deleted(c) \cup Deleted(d)
           /\ Changed(Splice(c, d)) = Changed(c) \cup Changed(d)
           /\ Added(Splice(c, d)) = Added(c) \cup Added(d)
           /\ Splice(c, d).added = c.added \o d.added
  BY RangeOfConcat DEF Changes, Splice, Deleted, Changed, Added

-----------------------------------------------------------------------------
(* The steps, by what they do to the table and to what is noted.           *)

\* scanDir begins to iterate over a directory.
Enters ==
    /\ pc \in {"scanRoots", "openDir"} /\ ~shouldBreak
    /\ pc' = IF entries' = {} THEN "missing" ELSE "entry"
    /\ IF pc = "scanRoots"
       THEN dirId' = ROOT_RECORD_ID /\ entries' = DOMAIN roots
       ELSE dirId' = dirId /\ entries' = Listing(files[dirId].fileName)
    /\ oldRecords' = childrenFiles(files, dirId')
    /\ UNCHANGED <<part, changes, roots, initial, todo>>

\* scanDir returns what it has noted.
Leaves ==
    /\ pc = "scanRoots" \/ InScanDir
    /\ pc' = IF initial THEN "save" ELSE "checkDir"
    /\ shouldBreak \/ (pc = "missing" /\ oldRecords = {})
    /\ part' = NoChanges /\ changes' = Splice(changes, part)
    /\ entries' = {} /\ oldRecords' = {}
    /\ IF pc = "scanRoots" THEN dirId' = ROOT_RECORD_ID ELSE dirId' = dirId
    /\ UNCHANGED <<roots, initial, todo>>

\* The scan of a directory, or the whole scan, is given up.
GivesUp ==
    /\ \/ pc \in {"openDir", "entry"} /\ dirId # ROOT_RECORD_ID /\ pc' = "checkDir"
       \/ pc = "scanRoots" /\ pc' = "hook"
       \/ pc \in {"scanDirs", "checkDir"} /\ pc' = "stopped"
    /\ pc # "openDir" => faults' # 0
    /\ part' = NoChanges
    /\ UNCHANGED <<changes, roots, initial, todo, dirId>>

\* The loop of scanDir goes on.
GoesOn ==
    /\ pc = "entryDone" /\ pc' = (IF entries = {} THEN "missing" ELSE "entry") /\ ~shouldBreak
    /\ UNCHANGED <<part, changes, roots, initial, todo, dirId, entries, oldRecords>>

\* A record no entry was found for.
NotesMissing ==
    /\ pc = "missing" /\ pc' = pc
    /\ \E r \in oldRecords :
          part' = delEntry(part, r[1]) /\ oldRecords' = oldRecords \ {r}
    /\ UNCHANGED <<changes, roots, initial, todo, dirId, entries>>

\* save: BEGIN, the end of a loop, a statement, and the end of it all.
Begins ==
    /\ pc = "save" /\ pc' = "adding" /\ ~inTx /\ inTx'
    /\ UNCHANGED <<files, committed, changes>>

PhaseEnds ==
    /\ \/ pc = "adding" /\ pc' = "changing" /\ (changes.added = <<>> \/ shouldBreak)
       \/ pc = "changing" /\ pc' = "deleting" /\ (changes.changed = <<>> \/ shouldBreak)
       \/ pc = "deleting" /\ pc' = "committing" /\ (changes.deleted = <<>> \/ shouldBreak)
    /\ UNCHANGED <<files, committed, inTx, changes>>

Inserts ==
    /\ pc = "adding" /\ pc' = pc /\ ~shouldBreak /\ changes.added # <<>>
    /\ files' = InsertRow(files, Head(changes.added))
    /\ changes' = [changes EXCEPT !.added = Tail(@)]
    /\ UNCHANGED <<committed, inTx>>

Updates ==
    /\ pc = "changing" /\ pc' = pc /\ ~shouldBreak /\ changes.changed # <<>>
    /\ files' = UpdateRow(files, Head(changes.changed)[1], Head(changes.changed)[2])
    /\ changes' = [changes EXCEPT !.changed = Tail(@)]
    /\ UNCHANGED <<committed, inTx>>

Deletes ==
    /\ pc = "deleting" /\ pc' = pc /\ ~shouldBreak /\ changes.deleted # <<>>
    /\ files' = DeleteRow(files, Head(changes.deleted))
    /\ changes' = [changes EXCEPT !.deleted = Tail(@)]
    /\ UNCHANGED <<committed, inTx>>

Ends ==
    /\ pc = "save" \/ InSave
    /\ pc' \in {"hook", "pause", "stopped", "terminated"}
    /\ initial => pc' \in {"hook", "terminated"}
    /\ changes' = NoChanges
    /\ \/ /\ UNCHANGED <<files, committed, inTx, ids, dropped>>
          /\ (pc = "save" /\ changes = NoChanges) \/ faults' # 0
       \/ Undo /\ InSave /\ faults' # 0 /\ UNCHANGED <<ids, dropped>>
       \/ /\ commit /\ pc = "committing"
          /\ ids' = IdsAfterCommit /\ dropped' = (dropped \cup Undeleted) \cap DOMAIN files

SaveStep ==
    /\ Begins \/ PhaseEnds \/ Inserts \/ Updates \/ Deletes \/ Ends
    /\ part = NoChanges /\ part' = part
    /\ ~InScan /\ ~InScan'
    /\ pc # "committing" => UNCHANGED <<ids, dropped>>
    /\ UNCHANGED <<fsVars, flagVars, onChanged, roots, initial, todo, dirId, entries, oldRecords>>

-----------------------------------------------------------------------------
RestStep == LoopHead \/ ReadSettings \/ ClearRestart \/ Unhook \/ Hook \/ Pause

LEMMA RestEffect ==
    ASSUME RestStep
    PROVE  /\ ~InWork /\ ~InWork' /\ ~InScanDir /\ ~InScanDir'
           /\ UNCHANGED <<files, committed, inTx, fsVars, part, changes, initial, todo, dropped, ids>>
           /\ pc # "stopped"
  BY DEF RestStep, LoopHead, ReadSettings, ClearRestart, Unhook, Hook, Pause, InWork, InScan,
         InRounds, InSave, InScanDir, dbVars, tableVars, scanVars, guiVars, histVars

LEMMA ScanRootsEffect ==
    ASSUME TransactionInv, ScanRoots
    PROVE  Enters \/ Leaves
<1>1. part = NoChanges
  BY DEF ScanRoots, TransactionInv, RootedInv, ChangesApply, InScanDir
<1>2. EnterScanDir(ROOT_RECORD_ID, DOMAIN roots, NoChanges)
      /\ pc = "scanRoots" /\ UNCHANGED <<roots, initial, todo>> /\ files' = files
  BY DEF ScanRoots, dbVars, tableVars
<1>3. CASE shouldBreak
  BY <1>1, <1>2, <1>3 DEF EnterScanDir, Leaves
<1>4. CASE ~shouldBreak
  BY <1>1, <1>2, <1>4 DEF EnterScanDir, Enters
<1> QED
  BY <1>3, <1>4

LEMMA OpenDirEffect ==
    ASSUME TransactionInv, dirId # ROOT_RECORD_ID, OpenDir
    PROVE  Enters \/ Leaves \/ GivesUp
<1> DEFINE path == files[dirId].fileName
<1>1. pc = "openDir" /\ UNCHANGED <<roots, initial, todo>>
  BY DEF OpenDir
<1>2. CASE ~Opens(path)
  BY <1>1, <1>2 DEF OpenDir, GivesUp
<1>3. CASE Opens(path) /\ shouldBreak
  BY <1>1, <1>3 DEF OpenDir, EnterScanDir, Leaves, InScanDir
<1>4. CASE Opens(path) /\ ~shouldBreak
  BY <1>1, <1>4 DEF OpenDir, EnterScanDir, Enters
<1> QED
  BY <1>2, <1>3, <1>4

LEMMA EntryDoneEffect ==
    ASSUME EntryDone
    PROVE  Leaves \/ GoesOn
<1>1. CASE shouldBreak
  BY <1>1 DEF EntryDone, LeaveScanDir, Leaves, InScanDir
<1>2. CASE ~shouldBreak
  BY <1>2 DEF EntryDone, GoesOn
<1> QED
  BY <1>1, <1>2

LEMMA MissingEffect ==
    ASSUME Missing
    PROVE  Leaves \/ NotesMissing
<1>1. CASE oldRecords = {}
  BY <1>1 DEF Missing, LeaveScanDir, Leaves, InScanDir
<1>2. CASE oldRecords # {}
  BY <1>2, RangesInOldRecords DEF Missing, NotesMissing
<1> QED
  BY <1>1, <1>2

LEMMA IterationFailsEffect ==
    ASSUME TransactionInv, IterationFails
    PROVE  GivesUp
  BY DEF IterationFails, GivesUp, TransactionInv, RootedInv, TypeOK

\* A call that fails has failed: the count says so.
LEMMA FailureIsCounted ==
    ASSUME TransactionInv, [Next]_vars,
           StatementFails \/ CommitFails \/ CommitThrows \/ BeginFails \/ QueryFails
    PROVE  faults' # 0
  BY NothingFails

LEMMA QueryFailsGivesUp ==
    ASSUME TransactionInv, [Next]_vars, dirId # ROOT_RECORD_ID \/ pc # "openDir", QueryFails
    PROVE  GivesUp
<1>1. faults' # 0
  BY FailureIsCounted
<1>2. pc \in {"scanRoots", "openDir", "scanDirs", "checkDir"}
  BY QueryFailsEffect
<1> QED
  BY <1>1, <1>2 DEF QueryFails, GivesUp

LEMMA SaveStepEffect ==
    ASSUME TransactionInv, [Next]_vars,
           \/ Save \/ BeginFails \/ SaveAdded \/ SaveChanged \/ SaveDeleted
           \/ StatementFails \/ Commit \/ CommitFails \/ CommitThrows
    PROVE  SaveStep
<1> USE DEF dbVars, tableVars, scanVars, guiVars, flagVars, histVars
<1> DEFINE Frame == UNCHANGED <<fsVars, flagVars, onChanged, roots, initial, todo, dirId,
                                entries, oldRecords, part>>
           Kind == Begins \/ PhaseEnds \/ Inserts \/ Updates \/ Deletes \/ Ends
<1>1. (pc = "save" \/ InSave) /\ Frame
  BY DEF Save, BeginFails, SaveAdded, SaveChanged, SaveDeleted, StatementFails, Executes,
         Commit, CommitFails, CommitThrows, InSave
<1>2. part = NoChanges
  BY <1>1 DEF TransactionInv, RootedInv, ChangesApply, InSave, InScanDir
<1>3. Kind
  <2>1. CASE Save
    BY <2>1 DEF Save, SaveReturns, SaveOrder, beginTransaction, Begins, Ends
  <2>2. CASE BeginFails
    BY <2>2, FailureIsCounted DEF BeginFails, SaveThrows, Ends
  <2>3. CASE SaveAdded
    BY <2>3 DEF SaveAdded, addFile, PhaseAfter, SaveOrder, PhaseEnds, Inserts
  <2>4. CASE SaveChanged
    BY <2>4 DEF SaveChanged, replaceFile, PhaseAfter, SaveOrder, PhaseEnds, Updates
  <2>5. CASE SaveDeleted
    BY <2>5 DEF SaveDeleted, delFile, PhaseAfter, SaveOrder, PhaseEnds, Deletes
  <2>6. CASE StatementFails
    <3>1. InSave /\ UNCHANGED <<ids, dropped>>
      BY <2>6 DEF StatementFails, Executes, InSave
    <3>2. faults' # 0 /\ Undo /\ (SaveThrows \/ Terminates)
      BY <2>6, FailureIsCounted, StatementFailsEffect
    <3> QED
      BY <3>1, <3>2 DEF SaveThrows, Terminates, Ends
  <2>7. CASE Commit
    BY <2>7 DEF Commit, SaveReturns, Ends, InSave
  <2>8. CASE CommitFails \/ CommitThrows
    <3>1. pc = "committing" /\ UNCHANGED <<ids, dropped>>
      BY <2>8 DEF CommitFails, CommitThrows
    <3>2. /\ faults' # 0 /\ (Undo \/ UNCHANGED tableVars)
          /\ SaveThrows \/ Terminates \/ SaveReturns(TRUE)
      BY <2>8, FailureIsCounted, CommitEffect
    <3> QED
      BY <3>1, <3>2 DEF SaveThrows, Terminates, SaveReturns, Ends, InSave
  <2> QED
    BY <1>1, <2>1, <2>2, <2>3, <2>4, <2>5, <2>6, <2>7, <2>8
<1>4. ~InScan /\ ~InScan'
  BY <1>1, <1>3 DEF InScan, InRounds, InSave, Begins, PhaseEnds, Inserts, Updates, Deletes, Ends
<1>5. pc # "committing" => UNCHANGED <<ids, dropped>>
  BY DEF Save, BeginFails, SaveAdded, SaveChanged, SaveDeleted, StatementFails, Commit,
         CommitFails, CommitThrows
<1> QED
  BY <1>1, <1>2, <1>3, <1>4, <1>5 DEF SaveStep

OutsideStep == GuiStep \/ DiskStep \/ UNCHANGED vars

\* Every step is one of these.
LEMMA StepKinds ==
    ASSUME TransactionInv, pc = "openDir" => dirId # ROOT_RECORD_ID, [Next]_vars
    PROVE  \/ RestStep \/ ClearContinue \/ ScanDirs \/ ScanDirsDone \/ CheckDir \/ ScanEntry
           \/ (Enters \/ Leaves \/ GivesUp \/ GoesOn \/ NotesMissing)
              /\ UNCHANGED <<files, committed, inTx, fsVars, flagVars, onChanged, ids, dropped>>
           \/ SaveStep
           \/ OutsideStep
<1> USE DEF dbVars, tableVars, guiVars
<1>1. CASE ScanRoots
  BY <1>1, ScanRootsEffect DEF ScanRoots
<1>2. CASE OpenDir
  BY <1>2, OpenDirEffect DEF OpenDir
<1>3. CASE EntryDone
  BY <1>3, EntryDoneEffect DEF EntryDone
<1>4. CASE IterationFails
  BY <1>4, IterationFailsEffect DEF IterationFails, histVars
<1>5. CASE Missing
  BY <1>5, MissingEffect DEF Missing, histVars
<1>6. CASE QueryFails
  BY <1>6, QueryFailsGivesUp DEF QueryFails, histVars
<1>7. CASE \/ Save \/ BeginFails \/ SaveAdded \/ SaveChanged \/ SaveDeleted
           \/ StatementFails \/ Commit \/ CommitFails \/ CommitThrows
  BY <1>7, SaveStepEffect
<1> QED
  BY <1>1, <1>2, <1>3, <1>4, <1>5, <1>6, <1>7 DEF Next, ScanStep, RestStep, OutsideStep

-----------------------------------------------------------------------------
(* The course of a scan. *)

LEMMA CheckDirEffect ==
    ASSUME TypeOK, CheckDir
    PROVE  /\ pc = "checkDir" /\ Min(todo) \in todo /\ Min(todo) \in RecordID
           /\ todo' = todo \ {Min(todo)} /\ dirId' = Min(todo)
           /\ pc' \in {"checkDir", "openDir"}
           /\ pc' = "checkDir" => part' = part
           /\ UNCHANGED <<files, committed, inTx, fsVars, flagVars, onChanged, ids, roots,
                          initial, entries, oldRecords, dropped>>
<1>1. Min(todo) \in todo
  BY MinIsMember DEF CheckDir, TypeOK, RecordID
<1> QED
  BY <1>1 DEF CheckDir, TypeOK, dbVars, tableVars, guiVars, histVars

LEMMA CourseStep ==
    ASSUME TransactionInv, Course, [Next]_vars
    PROVE  Course'
<1> USE DEF InWork, InScan, InRounds, InLoop, InSave, InScanDir
<1>0. TypeOK /\ 0 \notin todo
  BY DEF TransactionInv, RootedInv, TypeOK, RecordID
<1>a. pc = "openDir" => dirId # ROOT_RECORD_ID
  BY DEF Course
<1>1. CASE RestStep
  <2>1. changes = NoChanges
    BY <1>1, RestEffect DEF Course
  <2>2. initial' => pc' \in {"scanDirs", "stopped"}
    BY <1>1 DEF RestStep, LoopHead, ReadSettings, ClearRestart, Unhook, Hook, Pause, Course,
                scanVars
  <2> QED
    BY <1>1, <2>1, <2>2, RestEffect DEF Course
<1>2. CASE ClearContinue
  BY <1>2 DEF ClearContinue, Course
<1>3. CASE ScanDirs
  BY <1>3 DEF ScanDirs, Course
<1>4. CASE ScanDirsDone
  BY <1>4 DEF ScanDirsDone, Course
<1>5. CASE CheckDir
  BY <1>0, <1>5, CheckDirEffect DEF Course, ROOT_RECORD_ID, RecordID
<1>6. CASE ScanEntry
  BY <1>6 DEF ScanEntry, NextEntries, Course
<1>7. CASE Enters
  BY <1>0, <1>7 DEF Enters, Course, ROOT_RECORD_ID
<1>8. CASE Leaves
  BY <1>8 DEF Leaves, Course
<1>9. CASE GivesUp
  BY <1>9 DEF GivesUp, Course
<1>10. CASE GoesOn
  BY <1>10 DEF GoesOn, Course
<1>11. CASE NotesMissing
  BY <1>11 DEF NotesMissing, Course
<1>12. CASE SaveStep
  BY <1>12 DEF SaveStep, Begins, PhaseEnds, Inserts, Updates, Deletes, Ends, Course
<1>13. CASE OutsideStep
  BY <1>13, OutsideLeavesScan DEF OutsideStep, Course
<1> QED
  BY <1>a, <1>1, <1>2, <1>3, <1>4, <1>5, <1>6, <1>7, <1>8, <1>9, <1>10, <1>11, <1>12, <1>13,
     StepKinds

LEMMA UncommittedStep ==
    ASSUME TransactionInv, Course, Uncommitted, [Next]_vars
    PROVE  Uncommitted'
<1> USE DEF InSave, Uncommitted
<1>a. pc = "openDir" => dirId # ROOT_RECORD_ID
  BY DEF Course
<1>1. CASE RestStep
  BY <1>1, RestEffect DEF InWork
<1>2. CASE ClearContinue \/ ScanDirs \/ ScanDirsDone \/ CheckDir \/ ScanEntry
  BY <1>2 DEF ClearContinue, ScanDirs, ScanDirsDone, CheckDir, ScanEntry, dbVars, tableVars
<1>3. CASE (Enters \/ Leaves \/ GivesUp \/ GoesOn \/ NotesMissing)
           /\ UNCHANGED <<files, committed, inTx>>
  BY <1>3 DEF Enters, Leaves, GivesUp, GoesOn, NotesMissing
<1>4. CASE SaveStep
  BY <1>4 DEF SaveStep, Begins, PhaseEnds, Inserts, Updates, Deletes, Ends, Undo, commit
<1>5. CASE OutsideStep
  BY <1>5, OutsideLeavesScan DEF OutsideStep
<1> QED
  BY <1>a, <1>1, <1>2, <1>3, <1>4, <1>5, StepKinds

LEMMA AddedFirstStep ==
    ASSUME TransactionInv, Course, AddedFirst, [Next]_vars
    PROVE  AddedFirst'
<1> USE DEF AddedFirst
<1>a. pc = "openDir" => dirId # ROOT_RECORD_ID
  BY DEF Course
<1>1. CASE RestStep
  BY <1>1, RestEffect DEF InWork, InSave
<1>2. CASE ClearContinue \/ ScanDirs \/ ScanDirsDone \/ CheckDir \/ ScanEntry
  BY <1>2 DEF ClearContinue, ScanDirs, ScanDirsDone, CheckDir, ScanEntry
<1>3. CASE Enters \/ Leaves \/ GivesUp \/ GoesOn \/ NotesMissing
  BY <1>3 DEF Enters, Leaves, GivesUp, GoesOn, NotesMissing
<1>4. CASE SaveStep
  <2>1. changes \in Changes
    BY DEF TransactionInv, RootedInv, TypeOK
  <2>2. CASE Updates \/ Deletes
    <3>1. changes'.added = changes.added /\ pc' = pc /\ ~shouldBreak
      BY <2>1, <2>2 DEF Updates, Deletes, Changes
    <3> QED
      BY <2>2, <3>1 DEF Updates, Deletes
  <2>3. CASE Begins \/ PhaseEnds \/ Inserts \/ Ends
    BY <1>4, <2>3 DEF SaveStep, Begins, PhaseEnds, Inserts, Ends, shouldBreak, flagVars
  <2> QED
    BY <1>4, <2>2, <2>3 DEF SaveStep
<1>5. CASE OutsideStep
  <2>1. shouldBreak /\ pc \notin {"clearRestart", "clearContinue", "pause"} => shouldBreak'
    BY FlagsStaySet DEF TransactionInv, RootedInv
  <2> QED
    BY <1>5, <2>1, OutsideLeavesScan DEF OutsideStep
<1> QED
  BY <1>a, <1>1, <1>2, <1>3, <1>4, <1>5, StepKinds

-----------------------------------------------------------------------------
(* What scanEntry and the rest of a scan note, as sets. *)

\* The entry is a song or a directory that is to be scanned; it is nothing of the kind.
Scans(p) == is_directory(p) /\ Recursive(p)
Takes(p) == ~Unreadable(p) /\ (Scans(p) \/ (p \in Supported /\ Exists(p)))

InfoOf(p) == NewInfo(p, IF Scans(p) THEN 0 ELSE disk[p].mtime)

Passes(p) == (shouldBreak \/ ~Takes(p)) /\ UNCHANGED <<part, oldRecords>>

Spares(p) == ~shouldBreak /\ EntryUnreadable(p)

Adds(p) ==
    /\ ~shouldBreak /\ Takes(p) /\ EqualRange(p) = {}
    /\ Deleted(part)' = Deleted(part) /\ Changed(part)' = Changed(part)
    /\ part'.added = Append(part.added, InfoOf(p))
    /\ Added(part)' = Added(part) \cup {InfoOf(p)}
    /\ UNCHANGED oldRecords

Finds(p, r) ==
    /\ ~shouldBreak /\ Takes(p)
    /\ Deleted(part)' = Deleted(part) /\ part'.added = part.added
    /\ \/ UNCHANGED part
       \/ ~Scans(p) /\ Changed(part)' = Changed(part) \cup {<<r[1], InfoOf(p)>>}
    /\ oldRecords' = oldRecords \ {r}

LEMMA InfoOfType ==
    ASSUME TypeOK, NEW p \in Paths
    PROVE  /\ InfoOf(p) \in FileInfo
           /\ InfoOf(p).fileName = p /\ InfoOf(p).parentID = dirId
           /\ InfoOf(p).isDir = is_directory(p)
           /\ InfoOf(p).lastWriteTime = IF Scans(p) THEN 0 ELSE disk[p].mtime
<1>1. disk[p].mtime \in Nat
  BY FileSystemAssumption DEF TypeOK, FsTypeOK, Node
<1> QED
  BY <1>1, NewInfoType DEF TypeOK, InfoOf, NewInfo

LEMMA ScanEntryEffect ==
    ASSUME TypeOK, ScanEntry
    PROVE  /\ pc = "entry" /\ pc' = "entryDone"
           /\ UNCHANGED <<files, committed, inTx, fsVars, flagVars, onChanged, ids, roots,
                          initial, todo, dirId, changes, dropped>>
           /\ \E p \in entries :
                 /\ p \in Paths
                 /\ entries' = entries \ {p}
                 /\ \/ Passes(p) \/ Spares(p) \/ Adds(p)
                    \/ \E r \in EqualRange(p) : Finds(p, r)
<1>1. PICK p \in NextEntries :
          /\ entries' = entries \ {p}
          /\ IF shouldBreak
             THEN UNCHANGED <<part, oldRecords>>
             ELSE EntryUnreadable(p) \/ EntryIsDir(p) \/ EntryIgnored(p) \/ EntryIsFile(p)
  BY DEF ScanEntry
<1>2. p \in entries /\ p \in Paths
  BY <1>1 DEF NextEntries, TypeOK
<1>3. part \in ChangesOver(FileRecord, FileInfo) /\ InfoOf(p) \in FileInfo
  BY <1>2, ChangesIsOver, InfoOfType DEF TypeOK
<1>4. ASSUME NEW r \in EqualRange(p)
      PROVE  /\ Deleted(replaceEntry(part, <<r[1], InfoOf(p)>>)) = Deleted(part)
             /\ Changed(replaceEntry(part, <<r[1], InfoOf(p)>>))
                    = Changed(part) \cup {<<r[1], InfoOf(p)>>}
             /\ replaceEntry(part, <<r[1], InfoOf(p)>>).added = part.added
  <2>1. <<r[1], InfoOf(p)>> \in FileRecord
    BY <1>3, RangesInOldRecords DEF TypeOK, FileRecord
  <2> QED
    BY <1>3, <2>1, NotedByEntries
<1>5. Passes(p) \/ Spares(p) \/ Adds(p) \/ \E r \in EqualRange(p) : Finds(p, r)
  <2>1. CASE shouldBreak
    BY <1>1, <2>1 DEF Passes
  <2>2. CASE ~shouldBreak /\ EntryUnreadable(p)
    BY <2>2 DEF Spares
  <2>3. CASE ~shouldBreak /\ EntryIsDir(p)
    <3>1. Takes(p) /\ Scans(p) /\ InfoOf(p) = NewInfo(p, 0)
      BY <2>3 DEF EntryIsDir, Takes, Scans, InfoOf
    <3>2. CASE EqualRange(p) = {}
      <4>1. part' = addEntry(part, InfoOf(p)) /\ oldRecords' = oldRecords
        BY <2>3, <3>1, <3>2 DEF EntryIsDir, Erase
      <4> QED
        BY <1>3, <2>3, <3>1, <3>2, <4>1, NotedByEntries DEF Adds, Deleted, Changed, Added
    <3>3. CASE EqualRange(p) # {}
      <4>1. PICK r \in EqualRange(p) : oldRecords' = oldRecords \ {r}
        BY <2>3, <3>3 DEF EntryIsDir, Erase
      <4>2. part' = part
        BY <2>3, <3>3 DEF EntryIsDir
      <4> QED
        BY <2>3, <3>1, <4>1, <4>2 DEF Finds, Deleted
    <3> QED
      BY <3>2, <3>3
  <2>4. CASE ~shouldBreak /\ EntryIgnored(p)
    BY <2>4 DEF EntryIgnored, Passes, Takes, Scans
  <2>5. CASE ~shouldBreak /\ EntryIsFile(p)
    <3>1. Takes(p) /\ ~Scans(p) /\ InfoOf(p) = NewInfo(p, disk[p].mtime)
      BY <2>5 DEF EntryIsFile, Takes, Scans, InfoOf
    <3>2. CASE EqualRange(p) = {}
      <4>1. part' = addEntry(part, InfoOf(p)) /\ oldRecords' = oldRecords
        BY <2>5, <3>1, <3>2 DEF EntryIsFile
      <4> QED
        BY <1>3, <2>5, <3>1, <3>2, <4>1, NotedByEntries DEF Adds, Deleted, Changed, Added
    <3>3. CASE EqualRange(p) # {}
      <4>1. PICK r \in EqualRange(p) :
                /\ part' = part \/ part' = replaceEntry(part, <<r[1], InfoOf(p)>>)
                /\ oldRecords' = oldRecords \ {r}
        BY <2>5, <3>1, <3>3 DEF EntryIsFile
      <4>2. Finds(p, r)
        BY <1>4, <2>5, <3>1, <4>1 DEF Finds, Deleted, Changed
      <4> QED
        BY <4>2
    <3> QED
      BY <3>2, <3>3
  <2> QED
    BY <1>1, <2>1, <2>2, <2>3, <2>4, <2>5
<1>6. /\ pc = "entry" /\ pc' = "entryDone"
      /\ UNCHANGED <<files, committed, inTx, fsVars, flagVars, onChanged, ids, roots,
                     initial, todo, dirId, changes, dropped>>
  BY DEF ScanEntry, dbVars, tableVars, guiVars, histVars
<1> QED
  BY <1>1, <1>2, <1>5, <1>6

LEMMA LeavesEffect ==
    ASSUME TypeOK, Leaves
    PROVE  /\ Deleted(changes)' = Deleted(changes) \cup Deleted(part) /\ Deleted(part)' = {}
           /\ Changed(changes)' = Changed(changes) \cup Changed(part) /\ Changed(part)' = {}
           /\ Added(changes)' = Added(changes) \cup Added(part) /\ Added(part)' = {}
           /\ changes'.added = changes.added \o part.added /\ part'.added = <<>>
<1>1. part \in Changes /\ changes \in Changes
  BY DEF TypeOK
<1>2. part' = NoChanges /\ changes' = Splice(changes, part)
  BY DEF Leaves
<1>3. /\ Deleted(changes') = Deleted(changes) \cup Deleted(part)
      /\ Changed(changes') = Changed(changes) \cup Changed(part)
      /\ Added(changes') = Added(changes) \cup Added(part)
      /\ changes'.added = changes.added \o part.added
  BY <1>1, <1>2, NotedBySplice
<1>4. Deleted(part') = {} /\ Changed(part') = {} /\ Added(part') = {} /\ part'.added = <<>>
  BY <1>2, NothingNoted
<1> QED
  BY <1>3, <1>4 DEF Deleted, Changed, Added

LEMMA NotesMissingEffect ==
    ASSUME TypeOK, NotesMissing
    PROVE  /\ \E r \in oldRecords : /\ Deleted(part)' = Deleted(part) \cup {r[1]}
                                    /\ oldRecords' = oldRecords \ {r}
           /\ Changed(part)' = Changed(part)
           /\ Added(part)' = Added(part) /\ part'.added = part.added
<1>1. PICK r \in oldRecords : part' = delEntry(part, r[1]) /\ oldRecords' = oldRecords \ {r}
  BY DEF NotesMissing
<1>2. r[1] \in RecordID
  BY <1>1 DEF TypeOK, FileRecord
<1>3. part \in ChangesOver(FileRecord, FileInfo)
  BY ChangesIsOver DEF TypeOK
<1>4. /\ Deleted(part') = Deleted(part) \cup {r[1]} /\ Changed(part') = Changed(part)
      /\ part'.added = part.added
  BY <1>1, <1>2, <1>3, NotedByEntries
<1> QED
  BY <1>1, <1>4 DEF Deleted, Changed, Added

\* The three ways out of checkDir's tests.
SkipsDir(id) ==
    /\ \/ id \notin DOMAIN files \/ Unreadable(files[id].fileName)
       \/ is_directory(files[id].fileName)
          /\ disk[files[id].fileName].mtime = files[id].lastWriteTime
    /\ pc' = pc /\ UNCHANGED <<part, changes>>

DropsDir(id) ==
    /\ id \in DOMAIN files /\ ~is_directory(files[id].fileName)
    /\ ~Unreadable(files[id].fileName)
    /\ Deleted(changes)' = Deleted(changes) \cup {id}
    /\ Changed(changes)' = Changed(changes)
    /\ changes'.added = changes.added /\ Added(changes)' = Added(changes)
    /\ pc' = pc /\ UNCHANGED part

RenewsDir(id) ==
    LET path == files[id].fileName
        new == [files[id] EXCEPT !.lastWriteTime = disk[path].mtime]
    IN  /\ id \in DOMAIN files /\ is_directory(path)
        /\ disk[path].mtime # files[id].lastWriteTime
        /\ <<id, new>> \in FileRecord
        /\ Changed(part)' = {<<id, new>>} /\ Deleted(part)' = {} /\ Added(part)' = {}
        /\ part'.added = <<>>
        /\ pc' = "openDir" /\ UNCHANGED changes

LEMMA CheckDirNotes ==
    ASSUME TypeOK, CheckDir
    PROVE  SkipsDir(Min(todo)) \/ DropsDir(Min(todo)) \/ RenewsDir(Min(todo))
<1> DEFINE id == Min(todo)
           path == files[id].fileName
           new == [files[id] EXCEPT !.lastWriteTime = disk[path].mtime]
<1>1. pc = "checkDir"
  BY DEF CheckDir
<1>2. CASE \/ id \notin DOMAIN files \/ Unreadable(path)
           \/ is_directory(path) /\ disk[path].mtime = files[id].lastWriteTime
  BY <1>2 DEF CheckDir, SkipsDir
<1>3. CASE id \in DOMAIN files /\ ~Unreadable(path) /\ ~is_directory(path)
  <2>1. id \in RecordID /\ changes \in ChangesOver(FileRecord, FileInfo)
    <3>1. id \in RecordID
      BY <1>3 DEF TypeOK, IsTable
    <3> QED
      BY <3>1, ChangesIsOver DEF TypeOK
  <2>2. changes' = delEntry(changes, id) /\ part' = part /\ pc' = pc
    BY <1>3 DEF CheckDir
  <2>3. Added(delEntry(changes, id)) = Added(changes)
    BY <2>1, NotedByEntries DEF Added
  <2> QED
    BY <1>3, <2>1, <2>2, <2>3, NotedByEntries DEF DropsDir, Deleted, Changed, Added
<1>4. CASE id \in DOMAIN files /\ ~Unreadable(path) /\ is_directory(path)
           /\ disk[path].mtime # files[id].lastWriteTime
  <2>1. id \in RecordID /\ files[id] \in FileInfo
    BY <1>4 DEF TypeOK, IsTable
  <2>2. disk[path].mtime \in Nat
    BY <2>1, FileSystemAssumption DEF TypeOK, FsTypeOK, Node, FileInfo
  <2>3. <<id, new>> \in FileRecord
    BY <2>1, <2>2 DEF FileRecord, FileInfo
  <2>4. part' = replaceEntry(NoChanges, <<id, new>>) /\ changes' = changes /\ pc' = "openDir"
    BY <1>4 DEF CheckDir
  <2> HIDE DEF new
  <2>5. NoChanges \in ChangesOver(FileRecord, FileInfo)
    BY NoChangesType
  <2>6. /\ Deleted(part') = {} /\ Changed(part') = {<<id, new>>} /\ part'.added = <<>>
        /\ Added(part') = {}
    BY <2>3, <2>4, <2>5, NotedByEntries, NothingNoted DEF Added
  <2>7. /\ Deleted(part)' = {} /\ Changed(part)' = {<<id, new>>} /\ Added(part)' = {}
    BY <2>6 DEF Deleted, Changed, Added
  <2> QED
    BY <1>4, <2>3, <2>4, <2>6, <2>7 DEF RenewsDir, new
<1> QED
  BY <1>2, <1>3, <1>4

LEMMA InsertsEffect ==
    ASSUME TypeOK, Inserts
    PROVE  /\ Head(changes.added) \in FileInfo
           /\ changes'.added = Tail(changes.added)
           /\ Added(changes) = {Head(changes.added)} \cup Added(changes)'
           /\ Deleted(changes)' = Deleted(changes) /\ Changed(changes)' = Changed(changes)
  BY RangeOfTail, RestTypes, ChangesIsOver DEF Inserts, TypeOK, Changes, Deleted, Changed, Added

LEMMA UpdatesEffect ==
    ASSUME TypeOK, Updates
    PROVE  /\ Head(changes.changed) \in FileRecord
           /\ Changed(changes) = {Head(changes.changed)} \cup Changed(changes)'
           /\ Deleted(changes)' = Deleted(changes) /\ Added(changes)' = Added(changes)
           /\ changes'.added = changes.added
  BY RangeOfTail, RestTypes, ChangesIsOver DEF Updates, TypeOK, Changes, Deleted, Changed, Added

LEMMA DeletesEffect ==
    ASSUME TypeOK, Deletes
    PROVE  /\ Head(changes.deleted) \in RecordID
           /\ Deleted(changes) = {Head(changes.deleted)} \cup Deleted(changes)'
           /\ Changed(changes)' = Changed(changes) /\ Added(changes)' = Added(changes)
           /\ changes'.added = changes.added
  BY RangeOfTail, RestTypes, ChangesIsOver DEF Deletes, TypeOK, Changes, Deleted, Changed, Added

LEMMA NotedTypes ==
    ASSUME NEW A, NEW B, NEW c \in ChangesOver(A, B)
    PROVE  Deleted(c) \subseteq RecordID /\ Changed(c) \subseteq A /\ Added(c) \subseteq B
<1>1. \A S : \A s \in Seq(S) : Range(s) \subseteq S
  BY DEF Range
<1> QED
  BY <1>1 DEF ChangesOver, Deleted, Changed, Added

\* The rows of the table after a statement of save.
LEMMA RowsAfterInsert ==
    ASSUME TypeOK, Inserts
    PROVE  /\ DOMAIN files' = DOMAIN files \cup {NewRowId(files)}
           /\ NewRowId(files) \notin DOMAIN files /\ NewRowId(files) \in RecordID
           /\ files'[NewRowId(files)] = Head(changes.added)
           /\ \A i \in DOMAIN files : i < NewRowId(files) /\ files'[i] = files[i]
<1>1. NewRowId(files) \in RecordID /\ \A i \in DOMAIN files : i < NewRowId(files)
  BY NewRowIdIsFresh DEF TypeOK
<1>2. NewRowId(files) \notin DOMAIN files
  BY <1>1 DEF RecordID
<1> QED
  BY <1>1, <1>2 DEF Inserts, InsertRow

LEMMA RowsAfterUpdate ==
    ASSUME TypeOK, Updates, Head(changes.changed)[1] \in DOMAIN files
    PROVE  /\ DOMAIN files' = DOMAIN files
           /\ files'[Head(changes.changed)[1]] = Head(changes.changed)[2]
           /\ \A i \in DOMAIN files : i # Head(changes.changed)[1] => files'[i] = files[i]
<1>1. files = [i \in DOMAIN files |-> files[i]]
  BY DEF TypeOK, IsTable
<1> QED
  BY <1>1 DEF Updates, UpdateRow

LEMMA RowsAfterDelete ==
    ASSUME Deletes
    PROVE  /\ DOMAIN files' \subseteq DOMAIN files
           /\ Head(changes.deleted) \notin DOMAIN files'
           /\ \A i \in DOMAIN files' : files'[i] = files[i]
<1> DEFINE id == Head(changes.deleted)
<1>1. CASE id \in DOMAIN files
  <2>1. id \in Cascade(files, id)
    BY <1>1 DEF Cascade
  <2> QED
    BY <1>1, <2>1 DEF Deletes, DeleteRow
<1>2. CASE id \notin DOMAIN files
  BY <1>2 DEF Deletes, DeleteRow
<1> QED
  BY <1>1, <1>2

LEMMA NamesKeptStep ==
    ASSUME TransactionInv, Course, NamesKept, [Next]_vars
    PROVE  NamesKept'
<1>0. RootedInv /\ TypeOK /\ part \in Changes /\ changes \in Changes
  BY DEF TransactionInv, RootedInv, TypeOK
<1>a. pc = "openDir" => dirId # ROOT_RECORD_ID
  BY DEF Course
<1> DEFINE Noted == Changed(part) \cup Changed(changes)
<1>b. ASSUME files' = files, Changed(part)' \cup Changed(changes)' \subseteq Noted PROVE NamesKept'
  BY <1>b DEF NamesKept
<1>1. CASE RestStep \/ ScanDirsDone
  BY <1>1, <1>b, RestEffect DEF ScanDirsDone, Changed, dbVars, tableVars
<1>2. CASE ClearContinue \/ ScanDirs
  <2>1. files' = files /\ part' = part /\ changes' = NoChanges
    BY <1>2 DEF ClearContinue, ScanDirs, dbVars, tableVars
  <2>2. Changed(part)' = Changed(part) /\ Changed(changes)' = {}
    BY <2>1, NothingNoted DEF Changed
  <2> QED
    BY <1>b, <2>1, <2>2
<1>3. CASE CheckDir
  <2> DEFINE id == Min(todo)
  <2>1. files' = files
    BY <1>0, <1>3, CheckDirEffect
  <2>2. CASE SkipsDir(id) \/ DropsDir(id)
    BY <1>b, <2>1, <2>2 DEF SkipsDir, DropsDir, Changed
  <2>3. CASE RenewsDir(id)
    <3> DEFINE new == [files[id] EXCEPT !.lastWriteTime = disk[files[id].fileName].mtime]
    <3>1. id \in DOMAIN files /\ Changed(part)' = {<<id, new>>} /\ changes' = changes
      BY <2>3 DEF RenewsDir
    <3>2. new.fileName = files[id].fileName
      BY <1>0, <3>1 DEF TypeOK, IsTable, FileInfo
    <3>3. Changed(changes)' = Changed(changes)
      BY <3>1 DEF Changed
    <3>4. ASSUME NEW rec \in Changed(part)' \cup Changed(changes)', rec[1] \in DOMAIN files
          PROVE  files[rec[1]].fileName = rec[2].fileName
      <4> HIDE DEF new
      <4>1. rec = <<id, new>> \/ rec \in Changed(changes)
        BY <3>1, <3>3
      <4> QED
        BY <3>2, <3>4, <4>1 DEF NamesKept
    <3> QED
      BY <2>1, <3>4 DEF NamesKept
  <2> QED
    BY <1>0, <1>3, <2>2, <2>3, CheckDirNotes
<1>4. CASE ScanEntry
  <2>1. /\ files' = files /\ changes' = changes /\ pc = "entry"
        /\ \/ Changed(part)' = Changed(part)
           \/ \E p \in Paths : \E r \in EqualRange(p) :
                  Changed(part)' = Changed(part) \cup {<<r[1], InfoOf(p)>>}
    BY <1>0, <1>4, ScanEntryEffect
       DEF Passes, Spares, EntryUnreadable, Adds, Finds, Changed
  <2>2. Changed(changes)' = Changed(changes)
    BY <2>1 DEF Changed
  <2>3. ASSUME NEW p \in Paths, NEW r \in EqualRange(p)
        PROVE  r[1] \in DOMAIN files /\ files[r[1]].fileName = InfoOf(p).fileName
    <3>1. r \in childrenFiles(files, dirId) /\ r[2].fileName = p
      BY <1>0, <2>1, <2>3 DEF RootedInv, ChangesApply, InScanDir, EqualRange
    <3> QED
      BY <1>0, <3>1, InfoOfType DEF childrenFiles
  <2> QED
    BY <2>1, <2>2, <2>3 DEF NamesKept
<1>5. CASE (Enters \/ Leaves \/ GivesUp \/ GoesOn \/ NotesMissing) /\ files' = files
  <2>1. Changed(part)' \cup Changed(changes)' \subseteq Noted
    <3>1. CASE Enters \/ GoesOn
      BY <3>1 DEF Enters, GoesOn, Changed
    <3>2. CASE Leaves
      BY <1>0, <3>2, LeavesEffect
    <3>3. CASE GivesUp
      <4>1. Changed(part)' = {} /\ Changed(changes)' = Changed(changes)
        BY <3>3, NothingNoted DEF GivesUp, Changed
      <4> QED
        BY <4>1
    <3>4. CASE NotesMissing
      <4>1. Changed(changes)' = Changed(changes)
        BY <3>4 DEF NotesMissing, Changed
      <4> QED
        BY <1>0, <3>4, <4>1, NotesMissingEffect
    <3> QED
      BY <1>5, <3>1, <3>2, <3>3, <3>4
  <2> QED
    BY <1>5, <1>b, <2>1
<1>6. CASE SaveStep
  <2>1. Changed(part)' = {} /\ Changed(part) = {}
    BY <1>6, NothingNoted DEF SaveStep, Changed
  <2>2. CASE Begins \/ PhaseEnds
    BY <1>b, <2>1, <2>2 DEF Begins, PhaseEnds, Changed
  <2>3. CASE Inserts
    <3>1. Changed(changes) \subseteq Replacing(files)
      BY <1>0, <2>3, NotedTypes DEF Inserts, RootedInv, ChangesApply, Applicable
    <3>2. \A rec \in Changed(changes) : rec[1] \in DOMAIN files
      BY <3>1 DEF Replacing
    <3> QED
      BY <1>0, <2>1, <2>3, <3>2, InsertsEffect, RowsAfterInsert DEF NamesKept
  <2>4. CASE Updates
    <3> DEFINE rec == Head(changes.changed)
    <3>1. rec \in Changed(changes) /\ Changed(changes)' \subseteq Changed(changes)
      BY <1>0, <2>4, UpdatesEffect
    <3>2. rec[1] \in DOMAIN files
      BY <1>0, <2>4, <3>1, NotedTypes DEF Updates, RootedInv, ChangesApply, Applicable, Replacing
    <3>3. \A i \in DOMAIN files' : i \in DOMAIN files /\ files'[i].fileName = files[i].fileName
      BY <1>0, <2>4, <3>1, <3>2, RowsAfterUpdate DEF NamesKept
    <3> QED
      BY <2>1, <3>1, <3>3 DEF NamesKept
  <2>5. CASE Deletes
    BY <1>0, <2>1, <2>5, DeletesEffect, RowsAfterDelete DEF NamesKept
  <2>6. CASE Ends
    <3>1. Changed(changes)' = {}
      BY <2>6, NothingNoted DEF Ends, Changed
    <3> QED
      BY <2>1, <3>1 DEF NamesKept
  <2> QED
    BY <1>6, <2>2, <2>3, <2>4, <2>5, <2>6 DEF SaveStep
<1>7. CASE OutsideStep
  BY <1>7, <1>b, OutsideLeavesScan DEF OutsideStep, Changed
<1> QED
  BY <1>a, <1>1, <1>2, <1>3, <1>4, <1>5, <1>6, <1>7, StepKinds

LEMMA StagesStep ==
    ASSUME TransactionInv, Course, Stages, [Next]_vars
    PROVE  Stages'
<1> USE DEF Stages
<1>0. TypeOK
  BY DEF TransactionInv, RootedInv
<1>a. pc = "openDir" => dirId # ROOT_RECORD_ID
  BY DEF Course
<1>1. CASE RestStep \/ ClearContinue \/ ScanDirs \/ ScanDirsDone \/ ScanEntry
  BY <1>1 DEF RestStep, LoopHead, ReadSettings, ClearRestart, Unhook, Hook, Pause,
              ClearContinue, ScanDirs, ScanDirsDone, ScanEntry
<1>2. CASE CheckDir
  BY <1>0, <1>2, CheckDirEffect, CheckDirNotes DEF SkipsDir, DropsDir, RenewsDir
<1>3. CASE Enters \/ Leaves \/ GivesUp \/ GoesOn \/ NotesMissing
  BY <1>3 DEF Enters, Leaves, GivesUp, GoesOn, NotesMissing
<1>4. CASE SaveStep
  BY <1>4 DEF SaveStep, Begins, PhaseEnds, Inserts, Updates, Deletes, Ends
<1>5. CASE OutsideStep
  BY <1>5, OutsideLeavesScan DEF OutsideStep, Deleted
<1> QED
  BY <1>a, <1>1, <1>2, <1>3, <1>4, <1>5, StepKinds

LEMMA DeletionsKnownStep ==
    ASSUME TransactionInv, Course, DeletionsKnown, [Next]_vars
    PROVE  DeletionsKnown'
<1>0. RootedInv /\ TypeOK /\ part \in Changes /\ changes \in Changes
  BY DEF TransactionInv, RootedInv, TypeOK
<1>a. pc = "openDir" => dirId # ROOT_RECORD_ID
  BY DEF Course
<1>b. ~InScanDir => Deleted(part) = {}
  BY <1>0, NothingNoted DEF RootedInv, ChangesApply
<1> USE DEF InScan, InRounds, InScanDir
<1>c. ASSUME files' = files, Deleted(part)' = {} \/ (part' = part /\ dirId' = dirId),
             changes' = changes,
             \/ ~InScan' /\ pc' \notin {"save", "adding", "changing"}
             \/ InScan \/ pc \in {"save", "adding", "changing"}
      PROVE  DeletionsKnown'
  BY <1>c DEF DeletionsKnown, RowsBelow, Deleted
<1>1. CASE RestStep
  <2>1. Deleted(part)' = {}
    BY <1>1, <1>b, RestEffect DEF Deleted
  <2> QED
    BY <1>1, <1>c, <2>1, RestEffect DEF InWork, InSave
<1>2. CASE ClearContinue \/ ScanDirs
  <2>1. Deleted(part)' = {} /\ Deleted(changes)' = {}
    BY <1>2, <1>b, NothingNoted DEF ClearContinue, ScanDirs, Deleted
  <2> QED
    BY <2>1 DEF DeletionsKnown
<1>3. CASE ScanDirsDone
  BY <1>3, <1>c DEF ScanDirsDone, dbVars, tableVars
<1>4. CASE CheckDir
  <2>1. files' = files /\ pc = "checkDir" /\ Deleted(part) = {}
    BY <1>0, <1>b, <1>4, CheckDirEffect
  <2>2. Deleted(part)' = {}
    BY <1>0, <1>4, <2>1, CheckDirNotes DEF SkipsDir, DropsDir, RenewsDir, Deleted
  <2>3. Deleted(changes)' \subseteq DOMAIN files
    <3>1. Deleted(changes) \subseteq DOMAIN files
      BY <2>1 DEF DeletionsKnown
    <3>2. CASE SkipsDir(Min(todo)) \/ RenewsDir(Min(todo))
      BY <3>1, <3>2 DEF SkipsDir, RenewsDir, Deleted
    <3>3. CASE DropsDir(Min(todo))
      BY <3>1, <3>3 DEF DropsDir
    <3> QED
      BY <1>0, <1>4, <3>2, <3>3, CheckDirNotes
  <2> QED
    BY <2>1, <2>2, <2>3 DEF DeletionsKnown
<1>5. CASE ScanEntry
  <2>1. /\ files' = files /\ dirId' = dirId /\ Deleted(changes)' = Deleted(changes)
        /\ Deleted(part)' = Deleted(part) /\ InScan
    BY <1>0, <1>5, ScanEntryEffect DEF Passes, Spares, EntryUnreadable, Adds, Finds, Deleted
  <2> QED
    BY <2>1 DEF DeletionsKnown, RowsBelow
<1>6. CASE (Enters \/ Leaves \/ GivesUp \/ GoesOn \/ NotesMissing) /\ files' = files
  <2>1. CASE Enters
    <3>1. Deleted(part)' = {} \/ (part' = part /\ dirId' = dirId)
      BY <1>b, <2>1 DEF Enters, Deleted
    <3> QED
      BY <1>6, <1>c, <2>1, <3>1 DEF Enters
  <2>2. CASE GoesOn
    BY <1>6, <1>c, <2>2 DEF GoesOn
  <2>3. CASE GivesUp
    <3>1. Deleted(part)' = {}
      BY <2>3, NothingNoted DEF GivesUp, Deleted
    <3>2. InScan \/ pc' = "stopped"
      BY <2>3 DEF GivesUp
    <3> QED
      BY <1>6, <1>c, <2>3, <3>1, <3>2 DEF GivesUp
  <2>4. CASE Leaves
    <3>1. InScan /\ Deleted(part) \subseteq DOMAIN files /\ Deleted(changes) \subseteq DOMAIN files
      BY <2>4 DEF Leaves, DeletionsKnown, RowsBelow
    <3> QED
      BY <1>0, <1>6, <2>4, <3>1, LeavesEffect DEF DeletionsKnown
  <2>5. CASE NotesMissing
    <3>1. dirId' = dirId /\ Deleted(changes)' = Deleted(changes) /\ InScan
      BY <2>5 DEF NotesMissing, Deleted
    <3>2. \A r \in oldRecords : r[1] \in RowsBelow(dirId)
      BY <1>0, <2>5 DEF NotesMissing, RootedInv, ChangesApply, childrenFiles, RowsBelow
    <3>3. Deleted(part)' \subseteq RowsBelow(dirId)
      BY <1>0, <2>5, <3>2, NotesMissingEffect DEF DeletionsKnown
    <3> QED
      BY <1>6, <3>1, <3>3 DEF DeletionsKnown, RowsBelow
  <2> QED
    BY <1>6, <2>1, <2>2, <2>3, <2>4, <2>5
<1>7. CASE SaveStep
  <2>1. Deleted(part)' = {} /\ ~InScan'
    BY <1>7, NothingNoted DEF SaveStep, Deleted
  <2>2. CASE Begins \/ PhaseEnds
    BY <1>c, <2>1, <2>2 DEF Begins, PhaseEnds
  <2>3. CASE Inserts
    <3>1. Deleted(changes)' \subseteq DOMAIN files'
      BY <1>0, <2>3, InsertsEffect, RowsAfterInsert DEF Inserts, DeletionsKnown
    <3> QED
      BY <2>1, <3>1 DEF DeletionsKnown
  <2>4. CASE Updates
    <3>1. DOMAIN files' = DOMAIN files
      BY <1>0, <2>4, RowsAfterUpdate DEF Updates, UpdateRow
    <3>2. Deleted(changes)' \subseteq DOMAIN files'
      BY <1>0, <2>4, <3>1, UpdatesEffect DEF Updates, DeletionsKnown
    <3> QED
      BY <2>1, <3>2 DEF DeletionsKnown
  <2>5. CASE Deletes \/ Ends
    BY <2>1, <2>5 DEF Deletes, Ends, DeletionsKnown
  <2> QED
    BY <1>7, <2>2, <2>3, <2>4, <2>5 DEF SaveStep
<1>8. CASE OutsideStep
  BY <1>8, OutsideLeavesScan DEF OutsideStep, DeletionsKnown, RowsBelow, Deleted
<1> QED
  BY <1>a, <1>1, <1>2, <1>3, <1>4, <1>5, <1>6, <1>7, <1>8, StepKinds

\* What a scan does at every moment, whatever happens meanwhile.
WorkInv == TransactionInv /\ CourseInv

LEMMA CourseInit == Init => WorkInv
<1> SUFFICES ASSUME Init PROVE WorkInv
  OBVIOUS
<1>1. TransactionInv /\ RootedInv
  BY TransactionInit DEF TransactionInv
<1>2. /\ part = NoChanges /\ changes = NoChanges /\ pc = "loop" /\ ~initial
      /\ committed = files
  BY DEF Init
<1> QED
  BY <1>1, <1>2, NothingNoted
     DEF WorkInv, CourseInv, Course, Stages, Uncommitted, NamesKept, DeletionsKnown, AddedFirst,
         InWork, InScan, InRounds, InSave, InLoop, InScanDir

LEMMA CourseInvStep == WorkInv /\ [Next]_vars => WorkInv'
  BY TransactionStep, CourseStep, StagesStep, UncommittedStep, NamesKeptStep, DeletionsKnownStep,
     AddedFirstStep DEF WorkInv, CourseInv, TransactionInv

LEMMA WorkInvCorrect == Spec => []WorkInv
  BY CourseInit, CourseInvStep, PTL DEF Spec

-----------------------------------------------------------------------------
(* The root directories. *)

\* What the GUI thread and other programs may do to the flags.
LEMMA OutsideFlags ==
    ASSUME TypeOK, OutsideStep
    PROVE  /\ onChanged' = onChanged
           /\ restart_ => restart_'
           /\ stop_ => stop_'
           /\ continue_ => continue_'
           /\ continue_' => continue_ \/ onChanged
<1> USE DEF OutsideStep, guiVars, flagVars, TypeOK
<1>1. CASE GuiStep
  BY <1>1 DEF GuiStep, UserStep, onRowExpanded, onRowCollapsed, RowExpanded, RowsCollapsed,
              ForgetRow, onRefresh, storeSettings, restart, Stop, NotifyContinue
<1>2. CASE DiskStep \/ UNCHANGED vars
  BY <1>2 DEF DiskStep, vars
<1> QED
  BY <1>1, <1>2

LEMMA FaultsAreCounted ==
    ASSUME TypeOK, [Next]_vars, faults' = 0
    PROVE  faults = 0
<1>1. faults \in Nat
  BY DEF TypeOK
<1>2. CASE \/ StatementFails \/ CommitFails \/ CommitThrows \/ BeginFails \/ QueryFails
  <2>1. faults' = faults \/ faults' = faults + 1
    BY <1>2, StatementFailsEffect, CommitEffect, BeginFailsEffect, QueryFailsEffect
  <2> QED
    BY <1>1, <2>1
<1>3. CASE IterationFails
  BY <1>1, <1>3 DEF IterationFails
<1>4. CASE \/ LoopHead \/ ReadSettings \/ ClearRestart \/ Unhook \/ ClearContinue
           \/ ScanRoots \/ ScanEntry \/ EntryDone \/ Missing \/ ScanDirs \/ ScanDirsDone
           \/ CheckDir \/ OpenDir \/ Hook \/ Pause \/ Save \/ SaveAdded \/ SaveChanged
           \/ SaveDeleted \/ Commit
  BY <1>4 DEF LoopHead, ReadSettings, ClearRestart, Unhook, ClearContinue, ScanRoots, ScanEntry,
              EntryDone, Missing, ScanDirs, ScanDirsDone, CheckDir, OpenDir, Hook, Pause, Save,
              SaveAdded, SaveChanged, SaveDeleted, Commit, boundVars
<1>5. CASE OutsideStep
  BY <1>5, OutsideLeavesScan DEF OutsideStep
<1> QED
  BY <1>2, <1>3, <1>4, <1>5 DEF Next, ScanStep, OutsideStep

LEMMA UnhookedStep ==
    ASSUME WorkInv, Unhooked, [Next]_vars
    PROVE  Unhooked'
<1> USE DEF Unhooked, InWork, InScan, InRounds, InSave, InScanDir
<1>0. TypeOK /\ Course /\ TransactionInv
  BY DEF WorkInv, CourseInv, RootedInv
<1>a. pc = "openDir" => dirId # ROOT_RECORD_ID
  BY <1>0 DEF Course
<1>1. CASE RestStep
  BY <1>1 DEF RestStep, LoopHead, ReadSettings, ClearRestart, Unhook, Hook, Pause,
              flagVars, guiVars
<1>2. CASE ClearContinue \/ ScanDirs \/ ScanDirsDone
  BY <1>2 DEF ClearContinue, ScanDirs, ScanDirsDone, flagVars, guiVars
<1>3. CASE CheckDir \/ ScanEntry
  BY <1>0, <1>3, CheckDirEffect, ScanEntryEffect DEF flagVars
<1>4. CASE (Enters \/ Leaves \/ GivesUp \/ GoesOn \/ NotesMissing)
           /\ UNCHANGED <<flagVars, onChanged>>
  BY <1>4 DEF Enters, Leaves, GivesUp, GoesOn, NotesMissing, flagVars
<1>5. CASE SaveStep
  BY <1>5 DEF SaveStep, Begins, PhaseEnds, Inserts, Updates, Deletes, Ends, flagVars
<1>6. CASE OutsideStep
  BY <1>0, <1>6, OutsideFlags, OutsideLeavesScan DEF OutsideStep
<1> QED
  BY <1>0, <1>a, <1>1, <1>2, <1>3, <1>4, <1>5, <1>6, StepKinds

LEMMA SteadyIsReadable ==
    ASSUME TypeOK, NEW p, Steady(p)
    PROVE  ~Unreadable(p)
  BY DEF Steady, Unreadable, TypeOK, FsTypeOK

\* The parts of RootsInv.
RootsAdded ==
    \A a \in Added(part) \cup Added(changes) :
        a.parentID = ROOT_RECORD_ID => Configured(a.fileName)

RootsSeen ==
    initial /\ InLoop =>
        \A i \in Unconfigured : <<i, files[i]>> \in oldRecords \/ i \in Deleted(part)

RootsGoing ==
    /\ initial /\ Undisturbed /\ (pc = "save" \/ InSave) => Unconfigured \subseteq Deleted(changes)
    /\ initial /\ Undisturbed /\ pc = "committing" => Unconfigured = {}

RootsGone == Undisturbed /\ ~InInitialScan => Unconfigured = {}

LEMMA RootsParts == RootsInv <=> RootsAdded /\ RootsSeen /\ RootsGoing /\ RootsGone
  BY DEF RootsInv, RootsAdded, RootsSeen, RootsGoing, RootsGone

LEMMA RootsAddedStep ==
    ASSUME WorkInv, RootsAdded, [Next]_vars
    PROVE  RootsAdded'
<1>0. TypeOK /\ Course /\ TransactionInv /\ RootedInv
  BY DEF WorkInv, CourseInv, RootedInv
<1>a. pc = "openDir" => dirId # ROOT_RECORD_ID
  BY <1>0 DEF Course
<1>b. ASSUME roots' = roots, Added(part)' \cup Added(changes)' \subseteq Added(part) \cup Added(changes)
      PROVE  RootsAdded'
  BY <1>b DEF RootsAdded, Configured
<1>c. ASSUME part' = NoChanges, changes' = NoChanges PROVE RootsAdded'
  <2>1. Added(part)' = {} /\ Added(changes)' = {}
    BY <1>c, NothingNoted DEF Added
  <2> QED
    BY <2>1 DEF RootsAdded
<1>1. CASE RestStep
  <2>1. part = NoChanges /\ changes = NoChanges
    BY <1>0, <1>1, RestEffect DEF Course, RootedInv, ChangesApply
  <2> QED
    BY <1>1, <1>c, <2>1, RestEffect
<1>2. CASE ClearContinue \/ ScanDirs
  <2>1. part = NoChanges
    BY <1>0, <1>2 DEF ClearContinue, ScanDirs, RootedInv, ChangesApply, InScanDir
  <2> QED
    BY <1>2, <1>c, <2>1 DEF ClearContinue, ScanDirs
<1>3. CASE ScanDirsDone
  BY <1>3, <1>b DEF ScanDirsDone, Added
<1>4. CASE CheckDir
  <2>1. Added(part)' \cup Added(changes)' \subseteq Added(part) \cup Added(changes)
    BY <1>0, <1>4, CheckDirNotes DEF SkipsDir, DropsDir, RenewsDir, Added
  <2> QED
    BY <1>0, <1>4, <1>b, <2>1, CheckDirEffect
<1>5. CASE ScanEntry
  <2>1. PICK p \in entries : p \in Paths /\ (\/ Passes(p) \/ Spares(p) \/ Adds(p)
                                             \/ \E r \in EqualRange(p) : Finds(p, r))
    BY <1>0, <1>5, ScanEntryEffect
  <2>2. roots' = roots /\ Added(changes)' = Added(changes) /\ pc = "entry"
    BY <1>0, <1>5, ScanEntryEffect DEF Added
  <2>3. CASE ~Adds(p)
    <3>1. Added(part)' = Added(part)
      BY <2>1, <2>3 DEF Passes, Spares, EntryUnreadable, Finds, Added
    <3> QED
      BY <1>b, <2>2, <3>1
  <2>4. CASE Adds(p)
    <3>1. InfoOf(p).parentID = dirId /\ InfoOf(p).fileName = p
      BY <1>0, <2>1, InfoOfType
    <3>2. dirId = ROOT_RECORD_ID => Configured(p)
      BY <1>0, <2>1, <2>2, <2>4 DEF Adds, Takes, Scans, Recursive, Configured, Course, InLoop
    <3> QED
      BY <2>2, <2>4, <3>1, <3>2 DEF Adds, RootsAdded, Configured
  <2> QED
    BY <2>3, <2>4
<1>6. CASE Enters \/ Leaves \/ GivesUp \/ GoesOn \/ NotesMissing
  <2>1. roots' = roots
    BY <1>6 DEF Enters, Leaves, GivesUp, GoesOn, NotesMissing
  <2>2. Added(part)' \cup Added(changes)' \subseteq Added(part) \cup Added(changes)
    <3>1. CASE Enters \/ GoesOn
      BY <3>1 DEF Enters, GoesOn, Added
    <3>2. CASE Leaves
      BY <1>0, <3>2, LeavesEffect
    <3>3. CASE GivesUp
      <4>1. Added(part)' = {} /\ Added(changes)' = Added(changes)
        BY <3>3, NothingNoted DEF GivesUp, Added
      <4> QED
        BY <4>1
    <3>4. CASE NotesMissing
      <4>1. Added(changes)' = Added(changes)
        BY <3>4 DEF NotesMissing, Added
      <4> QED
        BY <1>0, <3>4, <4>1, NotesMissingEffect
    <3> QED
      BY <1>6, <3>1, <3>2, <3>3, <3>4
  <2> QED
    BY <1>b, <2>1, <2>2
<1>7. CASE SaveStep
  <2>1. roots' = roots /\ part' = part /\ part = NoChanges
    BY <1>7 DEF SaveStep
  <2>2. Added(part)' = Added(part)
    BY <2>1 DEF Added
  <2>3. CASE Ends
    BY <1>c, <2>1, <2>3 DEF Ends
  <2>4. CASE Begins \/ PhaseEnds
    BY <1>b, <2>1, <2>4 DEF Begins, PhaseEnds, Added
  <2>5. CASE Inserts \/ Updates \/ Deletes
    BY <1>0, <1>b, <2>1, <2>2, <2>5, InsertsEffect, UpdatesEffect, DeletesEffect
  <2> QED
    BY <1>7, <2>3, <2>4, <2>5 DEF SaveStep
<1>8. CASE OutsideStep
  BY <1>8, <1>b, OutsideLeavesScan DEF OutsideStep, Added
<1> QED
  BY <1>0, <1>a, <1>1, <1>2, <1>3, <1>4, <1>5, <1>6, <1>7, <1>8, StepKinds

LEMMA RootsSeenStep ==
    ASSUME SteadyRoots, WorkInv, RootsSeen, [Next]_vars
    PROVE  RootsSeen'
<1> USE DEF InLoop
<1>0. TypeOK /\ Course /\ TransactionInv /\ RootedInv
  BY DEF WorkInv, CourseInv, RootedInv
<1>a. pc = "openDir" => dirId # ROOT_RECORD_ID
  BY <1>0 DEF Course
<1>b. ASSUME UNCHANGED <<files, roots, initial>>, InLoop,
             \A i \in Unconfigured : <<i, files[i]>> \in oldRecords
                  => <<i, files[i]>> \in oldRecords' \/ i \in Deleted(part)',
             Deleted(part) \subseteq Deleted(part)'
      PROVE  RootsSeen'
  BY <1>b DEF RootsSeen, Unconfigured, RowsBelow, Configured
<1>1. CASE RestStep \/ ClearContinue \/ ScanDirs \/ ScanDirsDone \/ CheckDir \/ SaveStep
  <2>1. pc' \notin {"entry", "entryDone", "missing"}
    BY <1>0, <1>1, RestEffect, CheckDirEffect
       DEF ClearContinue, ScanDirs, ScanDirsDone, SaveStep, InWork, InScan, InRounds
  <2> QED
    BY <2>1 DEF RootsSeen
<1>2. CASE ScanEntry
  <2>1. PICK p \in entries : p \in Paths /\ (\/ Passes(p) \/ Spares(p) \/ Adds(p)
                                             \/ \E r \in EqualRange(p) : Finds(p, r))
    BY <1>0, <1>2, ScanEntryEffect
  <2>2. UNCHANGED <<files, roots, initial>> /\ pc = "entry"
    BY <1>0, <1>2, ScanEntryEffect
  <2>3. CASE ~initial
    BY <2>2, <2>3 DEF RootsSeen
  <2>4. CASE initial
    <3>1. dirId = ROOT_RECORD_ID /\ p \in DOMAIN roots
      BY <1>0, <2>1, <2>2, <2>4 DEF Course
    <3>2. ~Unreadable(p)
      BY <1>0, <3>1, SteadyIsReadable DEF SteadyRoots, TypeOK
    <3>3. Deleted(part)' = Deleted(part)
      BY <2>1, <3>2 DEF Passes, Spares, EntryUnreadable, Adds, Finds, Deleted
    <3>4. CASE Passes(p) \/ Adds(p)
      BY <1>b, <2>2, <3>3, <3>4 DEF Passes, Adds
    <3>5. ASSUME NEW r \in EqualRange(p), Finds(p, r) PROVE RootsSeen'
      <4>1. r[2].fileName = p /\ Configured(p)
        BY <3>1, <3>5 DEF EqualRange, Finds, Takes, Scans, Recursive, Configured
      <4>2. ASSUME NEW i \in Unconfigured PROVE <<i, files[i]>> # r
        BY <4>1 DEF Unconfigured
      <4> QED
        BY <1>b, <2>2, <3>3, <3>5, <4>2 DEF Finds
    <3> QED
      BY <2>1, <3>2, <3>4, <3>5 DEF Spares, EntryUnreadable
  <2> QED
    BY <2>3, <2>4
<1>3. CASE (Enters \/ Leaves \/ GivesUp \/ GoesOn \/ NotesMissing) /\ files' = files
  <2>1. CASE Enters
    <3>1. pc = "scanRoots" \/ ~initial'
      BY <1>0, <2>1 DEF Enters, Course
    <3>2. pc = "scanRoots" => oldRecords' = childrenFiles(files, ROOT_RECORD_ID)
      BY <2>1 DEF Enters
    <3> QED
      BY <1>3, <3>1, <3>2 DEF RootsSeen, Unconfigured, RowsBelow, childrenFiles
  <2>2. CASE Leaves \/ GivesUp
    BY <2>2 DEF Leaves, GivesUp, RootsSeen
  <2>3. CASE GoesOn
    BY <1>3, <1>b, <2>3 DEF GoesOn, Deleted
  <2>4. CASE NotesMissing
    <3>1. PICK r \in oldRecords : /\ Deleted(part)' = Deleted(part) \cup {r[1]}
                                  /\ oldRecords' = oldRecords \ {r}
      BY <1>0, <2>4, NotesMissingEffect
    <3> QED
      BY <1>3, <1>b, <2>4, <3>1 DEF NotesMissing
  <2> QED
    BY <1>3, <2>1, <2>2, <2>3, <2>4
<1>4. CASE OutsideStep
  <2>1. UNCHANGED <<files, roots, initial, pc, oldRecords, part>>
    BY <1>4, OutsideLeavesScan DEF OutsideStep
  <2> QED
    BY <2>1 DEF RootsSeen, Unconfigured, RowsBelow, Configured, Deleted
<1> QED
  BY <1>0, <1>a, <1>1, <1>2, <1>3, <1>4, StepKinds

\* Nothing that save writes is a root directory that is not configured.
LEMMA UnconfiguredWritten ==
    ASSUME WorkInv, RootsAdded, roots' = roots
    PROVE  /\ Inserts => Unconfigured' \subseteq Unconfigured
           /\ Updates => Unconfigured' \subseteq Unconfigured
           /\ Deletes => Unconfigured' \subseteq Unconfigured \ {Head(changes.deleted)}
<1> USE DEF Unconfigured, RowsBelow, Configured
<1>0. TypeOK /\ RootedInv
  BY DEF WorkInv, CourseInv, RootedInv
<1>1. CASE Inserts
  <2>1. Head(changes.added) \in Added(changes)
    BY <1>0, <1>1, InsertsEffect
  <2> QED
    BY <1>0, <1>1, <2>1, RowsAfterInsert DEF RootsAdded, Inserts, Updates, Deletes
<1>2. CASE Updates
  <2> DEFINE rec == Head(changes.changed)
  <2>1. rec \in Changed(changes)
    BY <1>0, <1>2, UpdatesEffect
  <2>2. rec[1] \in DOMAIN files /\ rec[2].parentID = files[rec[1]].parentID
    BY <1>0, <1>2, <2>1, NotedTypes DEF Updates, RootedInv, ChangesApply, Applicable, Replacing
  <2>3. rec[2].fileName = files[rec[1]].fileName
    BY <2>1, <2>2 DEF WorkInv, CourseInv, NamesKept
  <2> QED
    BY <1>0, <1>2, <2>2, <2>3, RowsAfterUpdate DEF Inserts, Updates, Deletes
<1>3. CASE Deletes
  BY <1>3, RowsAfterDelete DEF Inserts, Updates, Deletes
<1> QED
  BY <1>1, <1>2, <1>3

LEMMA RootsGoingStep ==
    ASSUME WorkInv, Unhooked, RootsInv, [Next]_vars
    PROVE  RootsGoing'
<1> USE DEF InLoop, InSave
<1>0. TypeOK /\ Course /\ TransactionInv /\ RootedInv
  BY DEF WorkInv, CourseInv, RootedInv
<1>a. pc = "openDir" => dirId # ROOT_RECORD_ID
  BY <1>0 DEF Course
<1>b. RootsAdded /\ RootsSeen /\ RootsGoing
  BY RootsParts
<1>c. Undisturbed' /\ UNCHANGED flagVars => Undisturbed
  BY <1>0, FaultsAreCounted DEF Undisturbed, flagVars
<1>1. CASE RestStep \/ ClearContinue \/ ScanDirs \/ CheckDir \/ ScanEntry
  <2>1. pc' # "save" /\ ~InSave'
    BY <1>0, <1>1, RestEffect, CheckDirEffect, ScanEntryEffect DEF ClearContinue, ScanDirs, InWork
  <2> QED
    BY <2>1 DEF RootsGoing
<1>2. CASE ScanDirsDone
  BY <1>0, <1>2 DEF ScanDirsDone, Course, RootsGoing
<1>3. CASE Leaves /\ UNCHANGED <<files, flagVars>>
  <2> SUFFICES ASSUME initial', Undisturbed', pc' = "save" PROVE Unconfigured' \subseteq Deleted(changes)'
    BY <1>3 DEF Leaves, RootsGoing
  <2>1. initial /\ Undisturbed
    BY <1>3, <1>c DEF Leaves
  <2>2. ~shouldBreak
    BY <1>3, <2>1 DEF Leaves, Unhooked, Undisturbed, shouldBreak, InWork, InScan, InRounds, InScanDir
  <2>3. pc = "missing" /\ oldRecords = {}
    BY <1>3, <2>2 DEF Leaves
  <2>4. Unconfigured \subseteq Deleted(part)
    BY <1>b, <2>1, <2>3 DEF RootsSeen
  <2>5. Unconfigured' = Unconfigured
    BY <1>3 DEF Leaves, Unconfigured, RowsBelow, Configured
  <2> QED
    BY <1>0, <1>3, <2>4, <2>5, LeavesEffect
<1>4. CASE Enters \/ GivesUp \/ GoesOn \/ NotesMissing
  BY <1>4 DEF Enters, GivesUp, GoesOn, NotesMissing, RootsGoing
<1>5. CASE SaveStep
  <2> SUFFICES ASSUME initial', Undisturbed', InSave'
               PROVE  /\ Unconfigured' \subseteq Deleted(changes)'
                      /\ pc' = "committing" => Unconfigured' = {}
    BY <1>5 DEF SaveStep, Begins, PhaseEnds, Inserts, Updates, Deletes, Ends, RootsGoing
  <2>1. roots' = roots /\ initial /\ Undisturbed /\ (pc = "save" \/ InSave)
    BY <1>5, <1>c DEF SaveStep, Begins, PhaseEnds, Inserts, Updates, Deletes, Ends
  <2>2. Unconfigured \subseteq Deleted(changes)
    BY <1>b, <2>1 DEF RootsGoing
  <2>3. ~shouldBreak
    BY <2>1 DEF Unhooked, Undisturbed, shouldBreak, InWork
  <2>4. CASE Begins \/ PhaseEnds
    <3>1. Unconfigured' = Unconfigured /\ Deleted(changes)' = Deleted(changes)
      BY <2>1, <2>4 DEF Begins, PhaseEnds, Unconfigured, RowsBelow, Configured, Deleted
    <3>2. pc' = "committing" => Deleted(changes) = {}
      BY <2>3, <2>4, RangeOfNone DEF Begins, PhaseEnds, Deleted
    <3> QED
      BY <2>2, <3>1, <3>2
  <2>5. CASE Inserts
    BY <1>0, <1>b, <2>1, <2>2, <2>5, UnconfiguredWritten, InsertsEffect DEF Inserts
  <2>6. CASE Updates
    BY <1>0, <1>b, <2>1, <2>2, <2>6, UnconfiguredWritten, UpdatesEffect DEF Updates
  <2>7. CASE Deletes
    BY <1>0, <1>b, <2>1, <2>2, <2>7, UnconfiguredWritten, DeletesEffect DEF Deletes
  <2> QED
    BY <1>5, <2>4, <2>5, <2>6, <2>7 DEF SaveStep, Ends
<1>6. CASE OutsideStep
  <2>1. UNCHANGED <<files, roots, initial, pc, changes, faults>>
    BY <1>6, OutsideLeavesScan DEF OutsideStep
  <2>2. Undisturbed' => Undisturbed
    BY <1>0, <1>6, <2>1, OutsideFlags DEF Undisturbed
  <2> QED
    BY <1>b, <2>1, <2>2 DEF RootsGoing, Unconfigured, RowsBelow, Configured, Deleted
<1> QED
  BY <1>0, <1>a, <1>1, <1>2, <1>3, <1>4, <1>5, <1>6, StepKinds

LEMMA RootsGoneStep ==
    ASSUME WorkInv, Unhooked, RootsInv, [Next]_vars
    PROVE  RootsGone'
<1> USE DEF InInitialScan
<1>0. TypeOK /\ Course /\ TransactionInv /\ RootedInv
  BY DEF WorkInv, CourseInv, RootedInv
<1>a. pc = "openDir" => dirId # ROOT_RECORD_ID
  BY <1>0 DEF Course
<1>b. RootsAdded /\ RootsGoing /\ RootsGone
  BY RootsParts
<1>c. Undisturbed' /\ UNCHANGED flagVars => Undisturbed
  BY <1>0, FaultsAreCounted DEF Undisturbed, flagVars
<1> SUFFICES ASSUME Undisturbed', ~InInitialScan' PROVE Unconfigured' = {}
  BY DEF RootsGone
<1>d. ASSUME Undisturbed, ~InInitialScan, UNCHANGED <<files, roots>> PROVE Unconfigured' = {}
  BY <1>b, <1>d DEF RootsGone, Unconfigured, RowsBelow, Configured
<1>1. CASE RestStep
  <2>1. CASE LoopHead \/ Hook \/ Pause
    <3>1. ~InInitialScan /\ UNCHANGED <<files, roots>>
      BY <1>0, <2>1 DEF LoopHead, Hook, Pause, Course, InWork, InScan, InRounds, InSave,
                        dbVars, tableVars, scanVars
    <3>2. Undisturbed
      BY <1>0, <2>1, FaultsAreCounted DEF Undisturbed, LoopHead, Hook, Pause, flagVars
    <3> QED
      BY <1>d, <3>1, <3>2
  <2>2. CASE ReadSettings
    BY <2>2 DEF ReadSettings, Unhooked, Undisturbed, flagVars
  <2>3. CASE ClearRestart \/ Unhook
    BY <2>3 DEF ClearRestart, Unhook
  <2> QED
    BY <1>1, <2>1, <2>2, <2>3 DEF RestStep
<1>2. CASE ClearContinue
  BY <1>2 DEF ClearContinue
<1>3. CASE ScanDirs \/ ScanDirsDone
  <2>1. ~InInitialScan /\ UNCHANGED <<files, roots, flagVars>>
    BY <1>0, <1>3 DEF ScanDirs, ScanDirsDone, Course, dbVars, tableVars
  <2> QED
    BY <1>c, <1>d, <2>1
<1>4. CASE CheckDir \/ ScanEntry
  <2>1. ~InInitialScan /\ UNCHANGED <<files, roots, flagVars>>
    BY <1>0, <1>4, CheckDirEffect, ScanEntryEffect
  <2> QED
    BY <1>c, <1>d, <2>1
<1>5. CASE (Enters \/ Leaves \/ GivesUp \/ GoesOn \/ NotesMissing) /\ UNCHANGED <<files, flagVars>>
  <2>1. CASE GivesUp /\ pc # "openDir"
    BY <2>1 DEF GivesUp, Undisturbed
  <2>2. CASE ~(GivesUp /\ pc # "openDir")
    <3>1. ~InInitialScan /\ roots' = roots
      BY <1>0, <1>5, <2>2
         DEF Enters, Leaves, GivesUp, GoesOn, NotesMissing, Course, InScanDir
    <3> QED
      BY <1>5, <1>c, <1>d, <3>1
  <2> QED
    BY <2>1, <2>2
<1>6. CASE SaveStep
  <2>1. Undisturbed /\ roots' = roots /\ initial' = initial
    BY <1>6, <1>c DEF SaveStep
  <2>2. CASE Ends
    <3>1. files' = files
      BY <2>2 DEF Ends, Undisturbed, commit
    <3>2. CASE initial
      <4>1. (changes = NoChanges /\ pc = "save") \/ pc = "committing"
        BY <2>2 DEF Ends, Undisturbed
      <4>2. Unconfigured = {}
        BY <1>b, <2>1, <3>2, <4>1, NothingNoted DEF RootsGoing
      <4> QED
        BY <2>1, <3>1, <4>2 DEF Unconfigured, RowsBelow, Configured
    <3>3. CASE ~initial
      BY <1>d, <2>1, <2>2, <3>1, <3>3 DEF Ends, InSave
    <3> QED
      BY <3>2, <3>3
  <2>3. CASE Begins \/ PhaseEnds
    BY <1>d, <2>1, <2>3 DEF Begins, PhaseEnds
  <2>4. CASE Inserts \/ Updates \/ Deletes
    <3>1. Unconfigured = {}
      BY <1>b, <2>1, <2>4 DEF Inserts, Updates, Deletes, RootsGone
    <3> QED
      BY <1>b, <2>1, <2>4, <3>1, UnconfiguredWritten
  <2> QED
    BY <1>6, <2>2, <2>3, <2>4 DEF SaveStep
<1>7. CASE OutsideStep
  <2>1. UNCHANGED <<files, roots, initial, pc, faults>>
    BY <1>7, OutsideLeavesScan DEF OutsideStep
  <2>2. Undisturbed
    BY <1>0, <1>7, <2>1, OutsideFlags DEF Undisturbed
  <2> QED
    BY <1>d, <2>1, <2>2
<1> QED
  BY <1>0, <1>a, <1>1, <1>2, <1>3, <1>4, <1>5, <1>6, <1>7, StepKinds

LEMMA RootsInit == Init => WorkInv /\ Unhooked /\ RootsInv
<1> SUFFICES ASSUME Init PROVE Unhooked /\ RootsInv
  BY CourseInit
<1>1. Added(part) = {} /\ Added(changes) = {}
  BY NothingNoted DEF Init
<1> QED
  BY <1>1 DEF Init, Unhooked, RootsInv, InWork, InScan, InRounds, InSave, InLoop, Undisturbed

LEMMA RootsStep ==
    ASSUME SteadyRoots
    PROVE  WorkInv /\ Unhooked /\ RootsInv /\ [Next]_vars => (WorkInv /\ Unhooked /\ RootsInv)'
<1> SUFFICES ASSUME WorkInv, Unhooked, RootsInv, [Next]_vars PROVE RootsInv'
  BY CourseInvStep, UnhookedStep
<1>1. (RootsAdded /\ RootsSeen /\ RootsGoing /\ RootsGone)'
  BY RootsParts, RootsAddedStep, RootsSeenStep, RootsGoingStep, RootsGoneStep
<1> QED
  BY <1>1 DEF RootsInv, RootsAdded, RootsSeen, RootsGoing, RootsGone

LEMMA RootsSuffice == WorkInv /\ RootsInv => OnlyConfiguredRoots
  BY DEF RootsInv, Undisturbed, OnlyConfiguredRoots, Unconfigured, RowsBelow, childrenFiles

\* If the directories that the settings name can always be read, then after an initial
\* scan that nothing interrupts the settings name every root directory of the table.
THEOREM RootsAreConfigured ==
    ASSUME SteadyRoots
    PROVE  Spec => []OnlyConfiguredRoots
  BY RootsInit, RootsStep, RootsSuffice, PTL DEF Spec

-----------------------------------------------------------------------------
(* One record per name. *)

LEMMA NewNamesOfNone == ASSUME NEW db PROVE NewNames(<<>>, db)
  BY DEF NewNames

LEMMA NewNamesOfAppend ==
    ASSUME NEW db, NEW s \in Seq(FileInfo), NEW x \in FileInfo, NewNames(s, db),
           \A a \in Range(s) : Key(a) # Key(x), \A i \in DOMAIN db : Key(x) # Key(db[i])
    PROVE  NewNames(Append(s, x), db)
<1> DEFINE t == Append(s, x)
<1>1. Len(s) \in Nat /\ DOMAIN s = 1 .. Len(s) /\ DOMAIN t = 1 .. Len(s) + 1
  BY AppendProperties, LenProperties
<1>2. t[Len(s) + 1] = x /\ \A k \in 1 .. Len(s) : t[k] = s[k]
  BY AppendProperties
<1> HIDE DEF t
<1>3. DOMAIN t = DOMAIN s \cup {Len(s) + 1}
  BY <1>1
<1>4. \A m \in DOMAIN s : Key(s[m]) # Key(x)
  BY DEF Range
<1>5. NewNames(t, db)
  BY <1>1, <1>2, <1>3, <1>4 DEF NewNames
<1> QED
  BY <1>5 DEF t

LEMMA NewNamesOfConcat ==
    ASSUME NEW db, NEW s \in Seq(FileInfo), NEW t \in Seq(FileInfo),
           NewNames(s, db), NewNames(t, db), \A a \in Range(s), b \in Range(t) : Key(a) # Key(b)
    PROVE  NewNames(s \o t, db)
<1> DEFINE u == s \o t
<1>1. /\ Len(s) \in Nat /\ DOMAIN s = 1 .. Len(s)
      /\ Len(t) \in Nat /\ DOMAIN t = 1 .. Len(t)
      /\ DOMAIN u = 1 .. Len(s) + Len(t)
  BY ConcatProperties, LenProperties
<1>2. /\ \A k \in 1 .. Len(s) : u[k] = s[k]
      /\ \A k \in Len(s) + 1 .. Len(s) + Len(t) : u[k] = t[k - Len(s)]
  BY ConcatProperties, <1>1
<1> HIDE DEF u
<1>3. ASSUME NEW k \in DOMAIN u
      PROVE  \/ k \in DOMAIN s /\ u[k] = s[k]
             \/ k - Len(s) \in DOMAIN t /\ u[k] = t[k - Len(s)] /\ k \in Nat
  BY <1>1, <1>2
<1>4. \A m \in DOMAIN s, n \in DOMAIN t : Key(s[m]) # Key(t[n])
  BY DEF Range
<1>5. ASSUME NEW m \in DOMAIN u, NEW n \in DOMAIN u, Key(u[m]) = Key(u[n]) PROVE m = n
  <2>1. CASE m \in DOMAIN s /\ u[m] = s[m] /\ n \in DOMAIN s /\ u[n] = s[n]
    BY <1>5, <2>1 DEF NewNames
  <2>2. CASE /\ m - Len(s) \in DOMAIN t /\ u[m] = t[m - Len(s)] /\ m \in Nat
             /\ n - Len(s) \in DOMAIN t /\ u[n] = t[n - Len(s)] /\ n \in Nat
    <3>1. m - Len(s) = n - Len(s)
      BY <1>5, <2>2 DEF NewNames
    <3> QED
      BY <1>1, <2>2, <3>1
  <2> QED
    BY <1>3, <1>4, <1>5, <2>1, <2>2
<1>6. \A m \in DOMAIN u, i \in DOMAIN db : Key(u[m]) # Key(db[i])
  BY <1>3 DEF NewNames
<1>7. NewNames(u, db)
  BY <1>5, <1>6 DEF NewNames
<1> QED
  BY <1>7 DEF u

LEMMA NewNamesOfTail ==
    ASSUME NEW db, NEW s \in Seq(FileInfo), s # <<>>, NewNames(s, db)
    PROVE  /\ NewNames(Tail(s), db)
           /\ \A i \in DOMAIN db : Key(Head(s)) # Key(db[i])
           /\ \A m \in DOMAIN Tail(s) : Key(Tail(s)[m]) # Key(Head(s))
<1> DEFINE t == Tail(s)
<1>1. Len(s) \in Nat \ {0} /\ DOMAIN s = 1 .. Len(s) /\ DOMAIN t = 1 .. Len(s) - 1
  BY EmptySeq, HeadTailProperties, LenProperties
<1>2. Head(s) = s[1] /\ \A k \in 1 .. Len(s) - 1 : t[k] = s[k + 1]
  BY HeadTailProperties
<1> HIDE DEF t
<1>3. ASSUME NEW m \in DOMAIN t PROVE m \in Nat /\ m + 1 \in DOMAIN s /\ t[m] = s[m + 1] /\ m + 1 # 1
  BY <1>1, <1>2
<1>4. 1 \in DOMAIN s
  BY <1>1
<1>5. /\ NewNames(t, db)
      /\ \A i \in DOMAIN db : Key(Head(s)) # Key(db[i])
      /\ \A m \in DOMAIN t : Key(t[m]) # Key(Head(s))
  <2>1. ASSUME NEW m \in DOMAIN t, NEW n \in DOMAIN t, Key(t[m]) = Key(t[n]) PROVE m = n
    <3>1. m + 1 = n + 1
      BY <1>3, <2>1 DEF NewNames
    <3> QED
      BY <1>3, <3>1
  <2> QED
    BY <1>2, <1>3, <1>4, <2>1 DEF NewNames
<1> QED
  BY <1>5 DEF t

\* Nothing is unreadable where nothing is flaky.
LEMMA AllIsReadable ==
    ASSUME TypeOK, Flaky = {}, NEW p
    PROVE  ~Unreadable(p)
  BY DEF Unreadable, TypeOK, FsTypeOK

\* The parts of NamesInv that are about the table and about the additions noted.
NamesAreNew ==
    /\ UniqueNames(files) /\ UniqueNames(committed)
    /\ NewNames(part.added, files) /\ NewNames(changes.added, files)

LEMMA NamesParts == NamesInv <=> NamesAreNew /\ AdditionsInOrder /\ OldRecordsWait
  BY DEF NamesInv, NamesAreNew

LEMMA OldRecordsWaitStep ==
    ASSUME Flaky = {}, WorkInv, OldRecordsWait, [Next]_vars
    PROVE  OldRecordsWait'
<1> USE DEF OldRecordsWait, InLoop, RowsBelow
<1>0. TypeOK /\ Course /\ Stages /\ TransactionInv
  BY DEF WorkInv, CourseInv, RootedInv
<1>a. pc = "openDir" => dirId # ROOT_RECORD_ID
  BY <1>0 DEF Course
<1>1. CASE RestStep \/ ClearContinue \/ ScanDirs \/ ScanDirsDone \/ CheckDir \/ SaveStep
  BY <1>0, <1>1, RestEffect, CheckDirEffect
     DEF ClearContinue, ScanDirs, ScanDirsDone, SaveStep, InWork, InScan, InRounds
<1>2. CASE ScanEntry
  <2>1. UNCHANGED <<files, dirId>> /\ pc = "entry"
    BY <1>0, <1>2, ScanEntryEffect
  <2>2. PICK p \in entries : /\ entries' = entries \ {p}
                             /\ \/ Passes(p) \/ Spares(p) \/ Adds(p)
                                \/ \E r \in EqualRange(p) : Finds(p, r)
    BY <1>0, <1>2, ScanEntryEffect
  <2>3. ~Spares(p)
    BY <1>0, AllIsReadable DEF Spares, EntryUnreadable
  <2>4. oldRecords' = oldRecords \/ \E r : r[2].fileName = p /\ oldRecords' = oldRecords \ {r}
    BY <2>2, <2>3 DEF Passes, Adds, Finds, EqualRange
  <2> QED
    BY <2>1, <2>2, <2>4
<1>3. CASE (Enters \/ Leaves \/ GivesUp \/ GoesOn \/ NotesMissing) /\ files' = files
  BY <1>0, <1>3 DEF Enters, Leaves, GivesUp, GoesOn, NotesMissing, childrenFiles, Stages
<1>4. CASE OutsideStep
  BY <1>4, OutsideLeavesScan DEF OutsideStep
<1> QED
  BY <1>0, <1>a, <1>1, <1>2, <1>3, <1>4, StepKinds

LEMMA AdditionsInOrderStep ==
    ASSUME WorkInv, AdditionsInOrder, [Next]_vars
    PROVE  AdditionsInOrder'
<1> USE DEF AdditionsInOrder, InRounds, InScanDir
<1>0. TypeOK /\ Course /\ Stages /\ TransactionInv
  BY DEF WorkInv, CourseInv, RootedInv
<1>a. pc = "openDir" => dirId # ROOT_RECORD_ID
  BY <1>0 DEF Course
<1>1. CASE RestStep \/ ClearContinue \/ ScanDirsDone \/ SaveStep
  BY <1>0, <1>1, RestEffect DEF ClearContinue, ScanDirsDone, SaveStep, InWork, InScan
<1>2. CASE ScanDirs
  <2>1. Added(changes)' = {} /\ pc' = "checkDir"
    BY <1>2, NothingNoted DEF ScanDirs, Added
  <2> QED
    BY <2>1
<1>3. CASE CheckDir
  <2> DEFINE id == Min(todo)
  <2>1. pc = "checkDir" /\ id \in todo /\ todo' = todo \ {id} /\ dirId' = id
    BY <1>0, <1>3, CheckDirEffect
  <2>2. Added(changes)' = Added(changes) /\ (pc' = "checkDir" \/ (pc' = "openDir" /\ Added(part)' = {}))
    BY <1>0, <1>3, <2>1, CheckDirNotes DEF SkipsDir, DropsDir, RenewsDir, Added
  <2> QED
    BY <2>1, <2>2
<1>4. CASE ScanEntry
  <2>1. UNCHANGED <<dirId, todo>> /\ pc = "entry" /\ pc' = "entryDone"
        /\ Added(changes)' = Added(changes)
    BY <1>0, <1>4, ScanEntryEffect DEF Added
  <2>2. PICK p \in entries : /\ entries' = entries \ {p} /\ p \in Paths
                             /\ \/ Passes(p) \/ Spares(p) \/ Adds(p)
                                \/ \E r \in EqualRange(p) : Finds(p, r)
    BY <1>0, <1>4, ScanEntryEffect
  <2>3. InfoOf(p).fileName = p /\ InfoOf(p).parentID = dirId
    BY <1>0, <2>2, InfoOfType
  <2>4. Added(part)' \subseteq Added(part) \cup {InfoOf(p)}
    BY <2>2 DEF Passes, Spares, EntryUnreadable, Adds, Finds, Added
  <2> QED
    BY <2>1, <2>2, <2>3, <2>4
<1>5. CASE Enters
  <2>1. Added(part)' = {}
    <3>1. part = NoChanges \/ part.added = <<>>
      BY <1>0, <1>5 DEF Enters, Stages, TransactionInv, RootedInv, ChangesApply
    <3> QED
      BY <1>5, <3>1, NothingNoted, RangeOfNone DEF Enters, Added
  <2>2. Added(changes)' = Added(changes) /\ (pc = "scanRoots" => Added(changes) = {})
    BY <1>0, <1>5, NothingNoted DEF Enters, Course, Added
  <2> QED
    BY <1>5, <2>1, <2>2 DEF Enters
<1>6. CASE Leaves
  <2>1. Added(changes)' = Added(changes) \cup Added(part) /\ pc' \in {"save", "checkDir"}
        /\ todo' = todo
    BY <1>0, <1>6, LeavesEffect DEF Leaves
  <2>2. pc' = "checkDir" => InScanDir
    BY <1>0, <1>6 DEF Leaves, Course
  <2>3. InScanDir => dirId \notin todo
    BY <1>0 DEF Course
  <2> QED
    BY <2>1, <2>2, <2>3
<1>7. CASE GivesUp
  BY <1>7 DEF GivesUp, Added
<1>8. CASE GoesOn
  BY <1>8 DEF GoesOn, Added
<1>9. CASE NotesMissing
  BY <1>0, <1>9, NotesMissingEffect DEF NotesMissing, Added
<1>10. CASE OutsideStep
  BY <1>10, OutsideLeavesScan DEF OutsideStep, Added
<1> QED
  BY <1>0, <1>a, <1>1, <1>2, <1>3, <1>4, <1>5, <1>6, <1>7, <1>8, <1>9, <1>10, StepKinds

LEMMA NamesAreNewStep ==
    ASSUME WorkInv, NamesInv, [Next]_vars
    PROVE  NamesAreNew'
<1>0. /\ TypeOK /\ Course /\ Stages /\ TransactionInv /\ RootedInv /\ NamesKept
      /\ NamesAreNew /\ AdditionsInOrder /\ OldRecordsWait
      /\ part.added \in Seq(FileInfo) /\ changes.added \in Seq(FileInfo)
  BY NamesParts DEF WorkInv, CourseInv, RootedInv, TypeOK, Changes
<1>a. pc = "openDir" => dirId # ROOT_RECORD_ID
  BY <1>0 DEF Course
<1>b. ASSUME UNCHANGED <<files, committed>>, part'.added \in {part.added, <<>>},
             changes'.added \in {changes.added, <<>>}
      PROVE  NamesAreNew'
  BY <1>0, <1>b, NewNamesOfNone DEF NamesAreNew
<1>1. CASE RestStep \/ ClearContinue \/ ScanDirs \/ ScanDirsDone
  BY <1>1, <1>b, RestEffect, NothingNoted
     DEF ClearContinue, ScanDirs, ScanDirsDone, dbVars, tableVars
<1>2. CASE CheckDir
  BY <1>0, <1>2, <1>b, CheckDirEffect, CheckDirNotes DEF SkipsDir, DropsDir, RenewsDir
<1>3. CASE ScanEntry
  <2>1. UNCHANGED <<files, committed, changes>> /\ pc = "entry"
    BY <1>0, <1>3, ScanEntryEffect
  <2>2. PICK p \in entries : p \in Paths /\ (\/ Passes(p) \/ Spares(p) \/ Adds(p)
                                             \/ \E r \in EqualRange(p) : Finds(p, r))
    BY <1>0, <1>3, ScanEntryEffect
  <2>3. CASE ~Adds(p)
    <3>1. part'.added = part.added
      BY <2>2, <2>3 DEF Passes, Spares, EntryUnreadable, Finds
    <3> QED
      BY <1>b, <2>1, <3>1
  <2>4. CASE Adds(p)
    <3>1. InfoOf(p) \in FileInfo /\ InfoOf(p).fileName = p /\ InfoOf(p).parentID = dirId
      BY <1>0, <2>2, InfoOfType
    <3>2. \A a \in Range(part.added) : Key(a) # Key(InfoOf(p))
      BY <1>0, <2>1, <3>1 DEF AdditionsInOrder, InScanDir, Added, Key
    <3>3. \A i \in DOMAIN files : Key(InfoOf(p)) # Key(files[i])
      <4> SUFFICES ASSUME NEW i \in DOMAIN files, Key(InfoOf(p)) = Key(files[i]) PROVE FALSE
        OBVIOUS
      <4>1. i \in RowsBelow(dirId) /\ files[i].fileName = p
        BY <3>1 DEF Key, RowsBelow
      <4>2. <<i, files[i]>> \in EqualRange(p)
        BY <1>0, <2>1, <4>1 DEF OldRecordsWait, InLoop, EqualRange
      <4> QED
        BY <2>4, <4>2 DEF Adds
    <3>4. NewNames(Append(part.added, InfoOf(p)), files)
      BY <1>0, <3>1, <3>2, <3>3, NewNamesOfAppend DEF NamesAreNew
    <3> QED
      BY <1>0, <2>1, <2>4, <3>4 DEF Adds, NamesAreNew
  <2> QED
    BY <2>3, <2>4
<1>4. CASE (Enters \/ GivesUp \/ GoesOn \/ NotesMissing) /\ UNCHANGED <<files, committed>>
  BY <1>0, <1>4, <1>b, NotesMissingEffect, NothingNoted
     DEF Enters, GivesUp, GoesOn, NotesMissing
<1>5. CASE Leaves /\ UNCHANGED <<files, committed>>
  <2>1. changes'.added = changes.added \o part.added /\ part'.added = <<>>
    BY <1>0, <1>5, LeavesEffect
  <2>2. \A a \in Range(changes.added), b \in Range(part.added) : Key(a) # Key(b)
    <3>1. CASE InScanDir
      BY <1>0, <3>1 DEF AdditionsInOrder, Added, Key
    <3>2. CASE ~InScanDir
      BY <1>0, <3>2, NothingNoted, RangeOfNone DEF RootedInv, ChangesApply
    <3> QED
      BY <3>1, <3>2
  <2>3. NewNames(changes.added \o part.added, files)
    BY <1>0, <2>2, NewNamesOfConcat DEF NamesAreNew
  <2> QED
    BY <1>0, <1>5, <2>1, <2>3, NewNamesOfNone DEF NamesAreNew
<1>6. CASE SaveStep
  <2>1. part'.added = <<>>
    BY <1>6, NothingNoted DEF SaveStep
  <2>2. CASE Begins \/ PhaseEnds
    BY <1>b, <2>1, <2>2 DEF Begins, PhaseEnds
  <2>3. CASE Inserts
    <3>1. /\ changes'.added = Tail(changes.added)
          /\ NewNames(Tail(changes.added), files)
          /\ \A i \in DOMAIN files : Key(Head(changes.added)) # Key(files[i])
          /\ \A m \in DOMAIN Tail(changes.added) : Key(Tail(changes.added)[m]) # Key(Head(changes.added))
      BY <1>0, <2>3, InsertsEffect, NewNamesOfTail DEF Inserts, NamesAreNew
    <3>2. UniqueNames(files') /\ NewNames(Tail(changes.added), files')
      BY <1>0, <2>3, <3>1, RowsAfterInsert DEF NamesAreNew, UniqueNames, NewNames
    <3> QED
      BY <1>0, <2>1, <2>3, <3>1, <3>2, NewNamesOfNone DEF Inserts, NamesAreNew
  <2>4. CASE Updates
    <3> DEFINE rec == Head(changes.changed)
    <3>1. rec \in Changed(changes) /\ changes'.added = changes.added /\ committed' = committed
      BY <1>0, <2>4, UpdatesEffect DEF Updates
    <3>2. rec \in Replacing(files)
      BY <1>0, <2>4, <3>1, NotedTypes DEF Updates, RootedInv, ChangesApply, Applicable
    <3>3. DOMAIN files' = DOMAIN files /\ \A i \in DOMAIN files : Key(files'[i]) = Key(files[i])
      BY <1>0, <2>4, <3>1, <3>2, RowsAfterUpdate DEF NamesKept, Replacing, Key
    <3>4. UniqueNames(files') /\ NewNames(changes.added, files')
      BY <1>0, <3>3 DEF NamesAreNew, UniqueNames, NewNames
    <3> QED
      BY <1>0, <2>1, <3>1, <3>4, NewNamesOfNone DEF NamesAreNew
  <2>5. CASE Deletes
    <3>1. UniqueNames(files') /\ NewNames(changes.added, files')
      BY <1>0, <2>5, RowsAfterDelete DEF NamesAreNew, UniqueNames, NewNames
    <3> QED
      BY <1>0, <2>1, <2>5, <3>1, DeletesEffect, NewNamesOfNone DEF Deletes, NamesAreNew
  <2>6. CASE Ends
    <3>1. changes'.added = <<>>
      BY <2>6, NothingNoted DEF Ends
    <3>2. files' \in {files, committed} /\ committed' \in {files, committed}
      BY <2>6 DEF Ends, Undo, commit
    <3> QED
      BY <1>0, <2>1, <3>1, <3>2, NewNamesOfNone DEF NamesAreNew
  <2> QED
    BY <1>6, <2>2, <2>3, <2>4, <2>5, <2>6 DEF SaveStep
<1>7. CASE OutsideStep
  BY <1>7, <1>b, OutsideLeavesScan DEF OutsideStep
<1> QED
  BY <1>0, <1>a, <1>1, <1>2, <1>3, <1>4, <1>5, <1>6, <1>7, StepKinds

LEMMA NamesInit ==
    ASSUME \A db \in InitialTables : UniqueNames(db)
    PROVE  Init => WorkInv /\ NamesInv
<1> SUFFICES ASSUME Init PROVE NamesInv
  BY CourseInit
<1>1. part.added = <<>> /\ changes.added = <<>>
  BY NothingNoted DEF Init
<1>2. UniqueNames(files) /\ committed = files
  BY DEF Init
<1> QED
  BY <1>1, <1>2, NewNamesOfNone
     DEF Init, NamesInv, AdditionsInOrder, OldRecordsWait, InRounds, InScanDir, InLoop

LEMMA NamesStep ==
    ASSUME Flaky = {}
    PROVE  WorkInv /\ NamesInv /\ [Next]_vars => (WorkInv /\ NamesInv)'
<1> SUFFICES ASSUME WorkInv, NamesInv, [Next]_vars PROVE NamesInv'
  BY CourseInvStep
<1>1. (NamesAreNew /\ AdditionsInOrder /\ OldRecordsWait)'
  BY NamesParts, NamesAreNewStep, AdditionsInOrderStep, OldRecordsWaitStep
<1> QED
  BY <1>1 DEF NamesInv, NamesAreNew

LEMMA NamesSuffice == NamesInv => NoDuplicates
  BY DEF NamesInv, UniqueNames, Key, NoDuplicates

\* If everything can always be read, no directory comes to have two records of one name,
\* provided that the earlier run has left none.
THEOREM NamesAreUnique ==
    ASSUME Flaky = {}, \A db \in InitialTables : UniqueNames(db)
    PROVE  Spec => []NoDuplicates
  BY NamesInit, NamesStep, NamesSuffice, PTL DEF Spec

=============================================================================
