--------------------------- MODULE MediaLibProofs ---------------------------
(***************************************************************************)
(* Proofs about the widget: however the events are late, its tree keeps    *)
(* one row per record and becomes the table once they are all handled.     *)
(* And about the scanner with this widget: it keeps what it keeps alone.   *)
(***************************************************************************)
EXTENDS WidgetInvariants, LibraryProofs, FiniteSetTheorems

-----------------------------------------------------------------------------
(* Trees: the rows above a row are found through the one it hangs below.   *)

IsTree(tree) ==
    DOMAIN tree \subseteq RecordID /\ \A h \in DOMAIN tree : tree[h].above \in DOMAIN tree \cup {TopLevel}

LEMMA RowsFromHoldsBelow ==
    ASSUME NEW tree, NEW h \in DOMAIN tree
    PROVE  /\ h \in RowsFrom(tree, h)
           /\ RowsFrom(tree, h) \subseteq DOMAIN tree
           /\ HoldsRowsBelow(tree, RowsFrom(tree, h))
  BY DEF RowsFrom, HoldsRowsBelow

LEMMA RowIsOnItsWay ==
    ASSUME NEW tree, NEW h \in DOMAIN tree
    PROVE  h \in RowsUpTo(tree, h) /\ RowsUpTo(tree, h) \subseteq DOMAIN tree
  BY RowsFromHoldsBelow DEF RowsUpTo

LEMMA RowsUpToAbove ==
    ASSUME NEW tree, NEW h \in DOMAIN tree, tree[h].above \in DOMAIN tree
    PROVE  RowsUpTo(tree, tree[h].above) \subseteq RowsUpTo(tree, h)
  BY RowsFromHoldsBelow DEF RowsUpTo, HoldsRowsBelow

LEMMA RowsUpToAreAbove ==
    ASSUME NEW tree, NEW h \in DOMAIN tree, NEW g \in RowsUpTo(tree, h)
    PROVE  RowsUpTo(tree, g) \subseteq RowsUpTo(tree, h)
<1> SUFFICES ASSUME NEW r \in RowsUpTo(tree, g) PROVE h \in RowsFrom(tree, r)
  BY DEF RowsUpTo
<1>1. g \in RowsFrom(tree, r) /\ h \in RowsFrom(tree, g)
  BY DEF RowsUpTo
<1>2. ASSUME NEW R \in SUBSET DOMAIN tree, r \in R, HoldsRowsBelow(tree, R) PROVE h \in R
  BY <1>1, <1>2 DEF RowsFrom
<1> QED
  BY <1>2 DEF RowsFrom

\* A row that is put below another one leaves the ways up from the others alone.
LEMMA RowsUpToAfterAppend ==
    ASSUME NEW tree, IsTree(tree), NEW new \in RecordID \ DOMAIN tree, NEW tree2,
           DOMAIN tree2 = DOMAIN tree \cup {new},
           \A h \in DOMAIN tree : tree2[h] = tree[h],
           tree2[new].above \in DOMAIN tree \cup {TopLevel}
    PROVE  /\ \A h \in DOMAIN tree : RowsUpTo(tree2, h) = RowsUpTo(tree, h)
           /\ RowsUpTo(tree2, new) \subseteq
                 {new} \cup (IF tree2[new].above = TopLevel THEN {} ELSE RowsUpTo(tree, tree2[new].above))
<1>0. TopLevel \notin DOMAIN tree /\ new # TopLevel
  BY DEF IsTree, TopLevel, RecordID
<1>1. ASSUME NEW h \in DOMAIN tree, NEW r \in RowsUpTo(tree, h) PROVE r \in RowsUpTo(tree2, h)
  <2>1. r \in DOMAIN tree /\ h \in RowsFrom(tree, r)
    BY <1>1 DEF RowsUpTo
  <2>2. ASSUME NEW R \in SUBSET DOMAIN tree2, r \in R, HoldsRowsBelow(tree2, R) PROVE h \in R
    <3>1. HoldsRowsBelow(tree, R \cap DOMAIN tree)
      BY <2>2 DEF HoldsRowsBelow
    <3> QED
      BY <2>1, <2>2, <3>1 DEF RowsFrom
  <2> QED
    BY <2>1, <2>2 DEF RowsUpTo, RowsFrom
<1>2. ASSUME NEW h \in DOMAIN tree, NEW r \in RowsUpTo(tree2, h) PROVE r \in RowsUpTo(tree, h)
  <2>1. r \in DOMAIN tree2 /\ h \in RowsFrom(tree2, r)
    BY <1>2 DEF RowsUpTo
  <2>2. r # new
    <3>1. HoldsRowsBelow(tree2, {new})
      BY <1>0 DEF HoldsRowsBelow, IsTree
    <3> QED
      BY <2>1, <3>1 DEF RowsFrom
  <2>3. ASSUME NEW R \in SUBSET DOMAIN tree, r \in R, HoldsRowsBelow(tree, R) PROVE h \in R
    <3>1. HoldsRowsBelow(tree2, R \cup {new})
      BY <1>0, <2>3 DEF HoldsRowsBelow, IsTree
    <3> QED
      BY <2>1, <2>3, <3>1 DEF RowsFrom
  <2> QED
    BY <2>1, <2>2, <2>3 DEF RowsUpTo, RowsFrom
<1>3. ASSUME NEW r \in RowsUpTo(tree2, new), r # new
      PROVE  tree2[new].above # TopLevel /\ r \in RowsUpTo(tree, tree2[new].above)
  <2>1. r \in DOMAIN tree /\ new \in RowsFrom(tree2, r)
    BY <1>3 DEF RowsUpTo
  <2>2. ASSUME NEW R \in SUBSET DOMAIN tree, r \in R, HoldsRowsBelow(tree, R)
        PROVE  tree2[new].above \in R
    <3>1. SUFFICES ASSUME tree2[new].above \notin R PROVE FALSE
      OBVIOUS
    <3>2. HoldsRowsBelow(tree2, R)
      BY <1>0, <2>2, <3>1 DEF HoldsRowsBelow, IsTree
    <3> QED
      BY <2>1, <2>2, <3>2 DEF RowsFrom
  <2>3. tree2[new].above \in DOMAIN tree
    BY <2>1, <2>2 DEF HoldsRowsBelow
  <2> QED
    BY <1>0, <2>1, <2>2, <2>3 DEF RowsUpTo, RowsFrom
<1>4. \A h \in DOMAIN tree : RowsUpTo(tree2, h) = RowsUpTo(tree, h)
  BY <1>1, <1>2
<1>5. RowsUpTo(tree2, new) \subseteq
          {new} \cup (IF tree2[new].above = TopLevel THEN {} ELSE RowsUpTo(tree, tree2[new].above))
  BY <1>3
<1> QED
  BY <1>4, <1>5
\* Nor does it change the ways up from the rows that stay when a row is removed with
\* those below it.
LEMMA RowsUpToAfterRemoval ==
    ASSUME NEW tree, NEW top \in DOMAIN tree, NEW tree2,
           tree2 = [h \in DOMAIN tree \ RowsFrom(tree, top) |-> tree[h]]
    PROVE  \A h \in DOMAIN tree2 :
              RowsUpTo(tree2, h) = RowsUpTo(tree, h) /\ top \notin RowsUpTo(tree, h)
<1> DEFINE gone == RowsFrom(tree, top)
<1>0. HoldsRowsBelow(tree, gone) /\ DOMAIN tree2 = DOMAIN tree \ gone /\ gone \subseteq DOMAIN tree
      /\ top \in gone /\ \A h \in DOMAIN tree2 : tree2[h] = tree[h]
  BY RowsFromHoldsBelow
<1>1. ASSUME NEW h \in DOMAIN tree2, NEW r \in RowsUpTo(tree, h) PROVE r \in RowsUpTo(tree2, h)
  <2>1. r \in DOMAIN tree /\ h \in RowsFrom(tree, r)
    BY <1>1 DEF RowsUpTo
  <2>2. r \notin gone
    BY <1>0, <2>1 DEF RowsFrom
  <2>3. ASSUME NEW R \in SUBSET DOMAIN tree2, r \in R, HoldsRowsBelow(tree2, R) PROVE h \in R
    <3>1. HoldsRowsBelow(tree, R \cup gone) /\ R \cup gone \in SUBSET DOMAIN tree
      BY <1>0, <2>3 DEF HoldsRowsBelow
    <3> HIDE DEF gone
    <3> QED
      BY <1>0, <2>1, <2>3, <3>1 DEF RowsFrom
  <2> QED
    BY <1>0, <2>1, <2>2, <2>3 DEF RowsUpTo, RowsFrom
<1>2. ASSUME NEW h \in DOMAIN tree2, NEW r \in RowsUpTo(tree2, h) PROVE r \in RowsUpTo(tree, h)
  <2>1. r \in DOMAIN tree2 /\ h \in RowsFrom(tree2, r)
    BY <1>2 DEF RowsUpTo
  <2>2. ASSUME NEW R \in SUBSET DOMAIN tree, r \in R, HoldsRowsBelow(tree, R) PROVE h \in R
    <3>1. HoldsRowsBelow(tree2, R \cap DOMAIN tree2)
      BY <1>0, <2>2 DEF HoldsRowsBelow
    <3> HIDE DEF gone
    <3> QED
      BY <1>0, <2>1, <2>2, <3>1 DEF RowsFrom
  <2> HIDE DEF gone
  <2> QED
    BY <1>0, <2>1, <2>2 DEF RowsUpTo, RowsFrom
<1>3. ASSUME NEW h \in DOMAIN tree2 PROVE top \notin RowsUpTo(tree, h)
  BY <1>0 DEF RowsUpTo
<1> QED
  BY <1>1, <1>2, <1>3

-----------------------------------------------------------------------------
(* Types.  The widget's steps leave the scanner alone but for the queue and *)
(* what concerns the expanded rows.                                        *)

\* What the proofs need to know of the scanner.
ScannerInv == TransactionInv /\ Course /\ Uncommitted

WidgetInv ==
    /\ WidgetTypeOK
    /\ IsFiniteSet(DOMAIN rows)
    /\ handling => events # <<>>

\* A row the user expands or collapses.
UserAtRow ==
    \E h \in DOMAIN rows : RowsCollapsed(IdsOf(RowsFrom(rows, h))) \/ RowExpanded(rows[h].id)

LEMMA UserOfTreeKinds ==
    ASSUME UserOfTree
    PROVE  (UserAtRow \/ GuiStep) /\ UNCHANGED widgetVars
  BY DEF UserOfTree, UserAtRow, GuiStep

LEMMA MediaLibStepKinds ==
    ASSUME [MediaLibNext]_allVars
    PROVE  \/ ScannerStep
           \/ (GuiStep \/ DiskStep \/ UNCHANGED vars) /\ UNCHANGED widgetVars
           \/ UserAtRow /\ UNCHANGED widgetVars
           \/ Dispatch \/ HandleEvent
  BY UserOfTreeKinds DEF MediaLibNext, allVars

LEMMA FirstEvent ==
    ASSUME TypeOK, events # <<>>
    PROVE  /\ Head(events) \in ScanEvent /\ Tail(events) \in Seq(ScanEvent)
           /\ Head(events) = events[1] /\ Len(Tail(events)) = Len(events) - 1
           /\ \A k \in 1 .. Len(events) - 1 : Tail(events)[k] = events[k + 1]
           /\ Len(events) \in Nat \ {0} /\ DOMAIN events = 1 .. Len(events)
           /\ DOMAIN Tail(events) = 1 .. Len(events) - 1
<1>1. events \in Seq(ScanEvent)
  BY DEF TypeOK
<1> QED
  BY <1>1, HeadTailProperties, EmptySeq, LenProperties

LEMMA HandleEventEffect ==
    ASSUME TypeOK, WidgetInv, HandleEvent
    PROVE  /\ events # <<>> /\ events' = Tail(events)
           /\ \/ Head(events).type = "ADDED" /\ addRec(Head(events).id)
              \/ Head(events).type = "DELETED" /\ delRec(Head(events).id)
              \/ Head(events).type = "UPDATED" /\ UNCHANGED <<treeVars, ids>>
           /\ UNCHANGED overtaken
<1>1. Head(events) \in ScanEvent /\ events # <<>>
  BY FirstEvent DEF WidgetInv, HandleEvent
<1>2. Head(events).type \in {"ADDED", "DELETED", "UPDATED"}
  BY <1>1 DEF ScanEvent
<1> QED
  BY <1>1, <1>2 DEF HandleEvent

LEMMA WidgetLeavesScanner ==
    ASSUME TypeOK, WidgetInv, UserAtRow \/ Dispatch \/ HandleEvent
    PROVE  /\ UNCHANGED <<dbVars, fsVars, stop_, restart_, settings, storing, onChanged, pc,
                          scanVars, histVars, faults>>
           /\ continue_' \in BOOLEAN /\ requests' \in Nat
           /\ ids' \subseteq RecordID /\ events' \in Seq(ScanEvent)
<1> USE DEF vars, guiVars, flagVars, boundVars
<1>1. CASE Dispatch
  BY <1>1 DEF Dispatch, TypeOK
<1>2. CASE HandleEvent
  <2>1. ids' \subseteq RecordID
    BY <1>2, HandleEventEffect DEF TypeOK, addRec, delRec
  <2>2. events' \in Seq(ScanEvent)
    BY <1>2, HandleEventEffect, FirstEvent
  <2> QED
    BY <1>2, <2>1, <2>2 DEF HandleEvent, TypeOK
<1>3. ASSUME NEW h \in DOMAIN rows,
             RowsCollapsed(IdsOf(RowsFrom(rows, h))) \/ RowExpanded(rows[h].id)
      PROVE  /\ UNCHANGED <<dbVars, fsVars, stop_, restart_, settings, storing, onChanged, pc,
                            scanVars, histVars, faults, events>>
             /\ continue_' \in BOOLEAN /\ requests' \in Nat
             /\ ids' \subseteq RecordID
  <2>1. rows[h].id \in RecordID
    BY DEF WidgetInv, WidgetTypeOK
  <2> QED
    BY <1>3, <2>1 DEF RowsCollapsed, RowExpanded, Request, NotifyContinue, TypeOK
<1> QED
  BY <1>1, <1>2, <1>3 DEF UserAtRow, TypeOK

LEMMA ScannerInvKept ==
    ASSUME ScannerInv,
           UNCHANGED <<dbVars, fsVars, stop_, restart_, settings, storing, onChanged, pc,
                       scanVars, histVars, faults>>,
           continue_' \in BOOLEAN, requests' \in Nat,
           ids' \subseteq RecordID, events' \in Seq(ScanEvent)
    PROVE  ScannerInv'
<1> USE DEF dbVars, tableVars, fsVars, scanVars, histVars
<1>1. TypeOK'
  BY DEF ScannerInv, TransactionInv, RootedInv, TypeOK, FsTypeOK
<1>2. Rooted' /\ ChangesApply'
  BY DEF ScannerInv, TransactionInv, RootedInv, Rooted, ChangesApply, InScanDir
<1>3. TransactionInv'
  BY <1>1, <1>2 DEF ScannerInv, TransactionInv, RootedInv, NoTransactionLeftOpen, InSave
<1>4. Course' /\ Uncommitted'
  BY DEF ScannerInv, Course, Uncommitted, InScanDir, InWork, InScan, InRounds, InLoop, InSave
<1> QED
  BY <1>3, <1>4 DEF ScannerInv

LEMMA ScannerInvStep ==
    ASSUME ScannerInv, WidgetInv, [MediaLibNext]_allVars
    PROVE  ScannerInv'
<1>1. TypeOK
  BY DEF ScannerInv, TransactionInv, RootedInv
<1>2. CASE [Next]_vars
  BY <1>2, TransactionStep, CourseStep, UncommittedStep DEF ScannerInv
<1>3. CASE UserAtRow \/ Dispatch \/ HandleEvent
  BY <1>1, <1>3, WidgetLeavesScanner, ScannerInvKept
<1> QED
  BY <1>2, <1>3, MediaLibStepKinds DEF ScannerStep, Next

-----------------------------------------------------------------------------
(* What the scanner does to the table, and what it queues for the widget.  *)

Announces ==
    /\ Head(changes.added) \in Insertable(files)
    /\ files' = InsertRow(files, Head(changes.added))
    /\ events' = Append(events, Event("ADDED", NewRowId(files)))
    /\ UNCHANGED <<committed, inTx, faults>>

Renews ==
    /\ \E rec \in Replacing(files) :
          /\ files' = UpdateRow(files, rec[1], rec[2])
          /\ events' = Append(events, Event("UPDATED", rec[1]))
    /\ UNCHANGED <<committed, inTx, faults>>

Withdraws ==
    /\ \E id \in RecordID :
          /\ files' = DeleteRow(files, id)
          /\ events' = Append(events, Event("DELETED", id))
    /\ UNCHANGED <<committed, inTx, faults>>

KeepsQuiet ==
    /\ \/ files' = files /\ committed' \in {committed, files}
       \/ files' = committed /\ committed' = committed /\ faults' # 0
    /\ UNCHANGED events
    /\ faults' = faults \/ faults' = faults + 1

LEMMA TableAndEvents ==
    ASSUME TransactionInv, [Next]_vars
    PROVE  Announces \/ Renews \/ Withdraws \/ KeepsQuiet
<1> USE DEF dbVars, tableVars, boundVars
<1>0. TypeOK /\ RootedInv /\ (pc \in {"adding", "changing"} => changes \in Applicable(files))
  BY DEF TransactionInv, RootedInv, ChangesApply
<1>1. CASE \/ LoopHead \/ ReadSettings \/ ClearRestart \/ Unhook \/ ClearContinue
           \/ ScanRoots \/ ScanEntry \/ EntryDone \/ IterationFails \/ Missing
           \/ ScanDirs \/ ScanDirsDone \/ CheckDir \/ OpenDir \/ Hook \/ Pause \/ Save
  <2>1. /\ UNCHANGED <<files, committed, events>>
        /\ faults' = faults \/ faults' = faults + 1
    BY <1>1 DEF LoopHead, ReadSettings, ClearRestart, Unhook, ClearContinue, ScanRoots,
                ScanEntry, EntryDone, IterationFails, Missing, ScanDirs, ScanDirsDone,
                CheckDir, OpenDir, Hook, Pause, Save, beginTransaction
  <2> QED
    BY <2>1 DEF KeepsQuiet
<1>2. CASE QueryFails \/ BeginFails
  BY <1>2, QueryFailsEffect, BeginFailsEffect DEF QueryFails, BeginFails, KeepsQuiet
<1>3. CASE StatementFails
  <2>1. UNCHANGED events
    BY <1>3 DEF StatementFails
  <2> QED
    BY <1>3, <2>1, StatementFailsEffect, FailureIsCounted DEF Undo, KeepsQuiet
<1>4. CASE CommitFails \/ CommitThrows
  <2>1. UNCHANGED events
    BY <1>4 DEF CommitFails, CommitThrows
  <2> QED
    BY <1>4, <2>1, CommitEffect, FailureIsCounted DEF Undo, KeepsQuiet
<1>5. CASE Commit
  BY <1>5 DEF Commit, commit, KeepsQuiet
<1>6. CASE SaveAdded
  <2>1. CASE changes.added = <<>> \/ shouldBreak
    BY <1>6, <2>1 DEF SaveAdded, KeepsQuiet
  <2>2. CASE ~(changes.added = <<>> \/ shouldBreak)
    <3>1. Head(changes.added) \in Insertable(files)
      BY <1>0, <1>6, <2>2, RestTypes DEF Applicable, SaveAdded
    <3> QED
      BY <1>6, <2>2, <3>1 DEF SaveAdded, addFile, Announces
  <2> QED
    BY <2>1, <2>2
<1>7. CASE SaveChanged
  <2>1. CASE changes.changed = <<>> \/ shouldBreak
    BY <1>7, <2>1 DEF SaveChanged, KeepsQuiet
  <2>2. CASE ~(changes.changed = <<>> \/ shouldBreak)
    <3>1. Head(changes.changed) \in Replacing(files)
      BY <1>0, <1>7, <2>2, RestTypes DEF Applicable, SaveChanged
    <3> QED
      BY <1>7, <2>2, <3>1 DEF SaveChanged, replaceFile, Renews
  <2> QED
    BY <2>1, <2>2
<1>8. CASE SaveDeleted
  <2>1. CASE changes.deleted = <<>> \/ shouldBreak
    BY <1>8, <2>1 DEF SaveDeleted, KeepsQuiet
  <2>2. CASE ~(changes.deleted = <<>> \/ shouldBreak)
    <3>1. Head(changes.deleted) \in RecordID
      BY <1>0, <2>2, RestTypes, ChangesIsOver DEF TypeOK
    <3> QED
      BY <1>8, <2>2, <3>1 DEF SaveDeleted, delFile, Withdraws
  <2> QED
    BY <2>1, <2>2
<1>9. CASE GuiStep \/ DiskStep \/ UNCHANGED vars
  <2>1. events' = events
    BY <1>9 DEF GuiStep, UserStep, onRowExpanded, onRowCollapsed, RowExpanded, RowsCollapsed,
                ForgetRow, onRefresh, storeSettings, restart, Stop, DiskStep, vars
  <2> QED
    BY <1>9, <2>1, OutsideLeavesScan DEF KeepsQuiet
<1> QED
  BY <1>1, <1>2, <1>3, <1>4, <1>5, <1>6, <1>7, <1>8, <1>9 DEF Next, ScanStep

\* The events stay in the queue where they are, and at most one is added.
LEMMA QueueGrows ==
    ASSUME TransactionInv, [Next]_vars
    PROVE  /\ \/ events' = events
              \/ \E e \in ScanEvent : events' = Append(events, e)
           /\ DOMAIN events \subseteq DOMAIN events'
           /\ \A k \in DOMAIN events : events'[k] = events[k]
<1>0. TypeOK /\ events \in Seq(ScanEvent)
  BY DEF TransactionInv, RootedInv, TypeOK
<1>1. \/ events' = events
      \/ \E e \in ScanEvent : events' = Append(events, e)
  BY <1>0, TableAndEvents, NewRowIdIsFresh
     DEF Announces, Renews, Withdraws, KeepsQuiet, Event, ScanEvent, TypeOK, Replacing, FileRecord
<1>2. ASSUME NEW e \in ScanEvent, events' = Append(events, e)
      PROVE  DOMAIN events \subseteq DOMAIN events' /\ \A k \in DOMAIN events : events'[k] = events[k]
  BY <1>0, <1>2, AppendProperties, LenProperties
<1> QED
  BY <1>1, <1>2

-----------------------------------------------------------------------------
(* The tree is a tree, and every expanded row is in it. *)

LEMMA NewRowIsNew ==
    ASSUME IsFiniteSet(DOMAIN rows), DOMAIN rows \subseteq RecordID, NEW id \in RecordID
    PROVE  NewRow(id) \in RecordID \ DOMAIN rows
<1> DEFINE n == Cardinality(DOMAIN rows)
           Free == {h \in id .. id + n : h \notin DOMAIN rows}
<1>1. n \in Nat
  BY FS_CardinalityType
<1>2. Free # {}
  <2>1. SUFFICES ASSUME Free = {} PROVE FALSE
    OBVIOUS
  <2>2. id .. id + n \in SUBSET DOMAIN rows
    BY <2>1
  <2>3. Cardinality(id .. id + n) <= n
    BY <2>2, FS_Subset
  <2>4. Cardinality(id .. id + n) = n + 1
    BY <1>1, FS_Interval DEF RecordID
  <2> QED
    BY <1>1, <2>3, <2>4
<1>3. Free \in SUBSET RecordID
  BY <1>1 DEF RecordID
<1>4. Min(Free) \in Free
  BY <1>2, <1>3, MinIsMember DEF RecordID
<1> QED
  BY <1>3, <1>4 DEF NewRow

\* fillRow, as addRec calls it.
Appends(id, h) ==
    /\ h \in RecordID \ DOMAIN rows
    /\ id \in DOMAIN committed /\ committed[id].parentID \in DOMAIN file2row_
    /\ DOMAIN rows' = DOMAIN rows \cup {h}
    /\ rows'[h] = [id |-> id, above |-> file2row_[committed[id].parentID]]
    /\ \A g \in DOMAIN rows : rows'[g] = rows[g]
    /\ DOMAIN file2row_' = DOMAIN file2row_ \cup {id}
    /\ \A i \in DOMAIN file2row_ : file2row_'[i] = file2row_[i]
    /\ id \notin DOMAIN file2row_ => file2row_'[id] = h

\* delRec, for a record that has a row.
Drops(id) ==
    /\ id \in DOMAIN file2row_ /\ file2row_[id] \in DOMAIN rows
    /\ rows' = [h \in DOMAIN rows \ RowsFrom(rows, file2row_[id]) |-> rows[h]]
    /\ file2row_' = [i \in DOMAIN file2row_ \ IdsOf(RowsFrom(rows, file2row_[id])) |-> file2row_[i]]
    /\ ids' = ids \ IdsOf(RowsFrom(rows, file2row_[id]))

LEMMA AddRecEffect ==
    ASSUME WidgetInv, NEW id \in RecordID, addRec(id)
    PROVE  /\ ~inTx /\ UNCHANGED ids
           /\ \/ \E h : Appends(id, h)
              \/ /\ UNCHANGED treeVars
                 /\ id \notin DOMAIN committed \/ committed[id].parentID \notin DOMAIN file2row_
<1>1. ASSUME id \in DOMAIN committed, committed[id].parentID \in DOMAIN file2row_
      PROVE  Appends(id, NewRow(id))
  <2>1. appendRow(id, file2row_[committed[id].parentID])
    BY <1>1 DEF addRec
  <2>2. NewRow(id) \in RecordID \ DOMAIN rows
    BY NewRowIsNew DEF WidgetInv, WidgetTypeOK
  <2> QED
    BY <1>1, <2>1, <2>2 DEF appendRow, Appends
<1> QED
  BY <1>1 DEF addRec

LEMMA DelRecEffect ==
    ASSUME WidgetInv, NEW id \in RecordID, delRec(id)
    PROVE  Drops(id) \/ (id \notin DOMAIN file2row_ /\ UNCHANGED <<treeVars, ids>>)
<1>1. ASSUME id \in DOMAIN file2row_ PROVE file2row_[id] \in DOMAIN rows
  BY <1>1 DEF WidgetInv, WidgetTypeOK, RecordID, ROOT_RECORD_ID
<1> QED
  BY <1>1 DEF delRec, Drops

\* All that can happen to the tree.
LEMMA TreeEffect ==
    ASSUME ScannerInv, WidgetInv, [MediaLibNext]_allVars
    PROVE  \/ UNCHANGED <<treeVars, ids>>
           \/ \E id \in RecordID : HandleEvent /\ ((\E h : Appends(id, h) /\ UNCHANGED ids) \/ Drops(id))
           \/ UNCHANGED treeVars /\ ~HandleEvent
<1>1. CASE HandleEvent
  <2>1. TypeOK
    BY DEF ScannerInv, TransactionInv, RootedInv
  <2>2. Head(events).id \in RecordID
    BY <1>1, <2>1, HandleEventEffect, FirstEvent DEF ScanEvent
  <2> QED
    BY <1>1, <2>1, <2>2, HandleEventEffect, AddRecEffect, DelRecEffect
<1>2. CASE ~HandleEvent
  BY <1>2, MediaLibStepKinds DEF ScannerStep, widgetVars, Dispatch
<1> QED
  BY <1>1, <1>2

LEMMA TreeIsKept ==
    ASSUME ScannerInv, WidgetInv, [MediaLibNext]_allVars
    PROVE  /\ DOMAIN rows' \subseteq RecordID /\ IsFiniteSet(DOMAIN rows')
           /\ \A h \in DOMAIN rows' :
                 rows'[h].id \in RecordID /\ rows'[h].above \in DOMAIN rows' \cup {TopLevel}
           /\ ROOT_RECORD_ID \in DOMAIN file2row_' /\ file2row_'[ROOT_RECORD_ID] = TopLevel
           /\ \A i \in DOMAIN file2row_' \ {ROOT_RECORD_ID} :
                 file2row_'[i] \in DOMAIN rows' /\ rows'[file2row_'[i]].id = i
<1> DEFINE Goal ==
           /\ DOMAIN rows' \subseteq RecordID /\ IsFiniteSet(DOMAIN rows')
           /\ \A h \in DOMAIN rows' :
                 rows'[h].id \in RecordID /\ rows'[h].above \in DOMAIN rows' \cup {TopLevel}
           /\ ROOT_RECORD_ID \in DOMAIN file2row_' /\ file2row_'[ROOT_RECORD_ID] = TopLevel
           /\ \A i \in DOMAIN file2row_' \ {ROOT_RECORD_ID} :
                 file2row_'[i] \in DOMAIN rows' /\ rows'[file2row_'[i]].id = i
<1>1. CASE UNCHANGED treeVars
  BY <1>1 DEF treeVars, WidgetInv, WidgetTypeOK
<1>2. ASSUME NEW id \in RecordID, NEW h, Appends(id, h)
      PROVE  Goal
  <2>1. IsFiniteSet(DOMAIN rows')
    BY <1>2, FS_AddElement DEF Appends, WidgetInv
  <2>2. rows'[h].id = id /\ rows'[h].above \in DOMAIN rows \cup {TopLevel}
    BY <1>2 DEF Appends, WidgetInv, WidgetTypeOK
  <2>3. \A i \in DOMAIN file2row_' \ {ROOT_RECORD_ID} :
           file2row_'[i] \in DOMAIN rows' /\ rows'[file2row_'[i]].id = i
    BY <1>2, <2>2 DEF Appends, WidgetInv, WidgetTypeOK
  <2>4. ROOT_RECORD_ID \in DOMAIN file2row_' /\ file2row_'[ROOT_RECORD_ID] = TopLevel
    BY <1>2 DEF Appends, WidgetInv, WidgetTypeOK
  <2>5. \A g \in DOMAIN rows' :
           rows'[g].id \in RecordID /\ rows'[g].above \in DOMAIN rows' \cup {TopLevel}
    BY <1>2, <2>2 DEF Appends, WidgetInv, WidgetTypeOK
  <2> QED
    BY <1>2, <2>1, <2>3, <2>4, <2>5 DEF Appends, WidgetInv, WidgetTypeOK
<1>3. ASSUME NEW id \in RecordID, Drops(id)
      PROVE  Goal
  <2> DEFINE gone == RowsFrom(rows, file2row_[id])
  <2>1. /\ gone \subseteq DOMAIN rows /\ HoldsRowsBelow(rows, gone)
        /\ DOMAIN rows' = DOMAIN rows \ gone /\ \A h \in DOMAIN rows' : rows'[h] = rows[h]
        /\ DOMAIN file2row_' = DOMAIN file2row_ \ IdsOf(gone)
        /\ \A i \in DOMAIN file2row_' : file2row_'[i] = file2row_[i]
    BY <1>3, RowsFromHoldsBelow DEF Drops
  <2> HIDE DEF gone
  <2>2. DOMAIN rows' \subseteq RecordID /\ IsFiniteSet(DOMAIN rows')
    BY <2>1, FS_Subset DEF WidgetInv, WidgetTypeOK
  <2>3. \A h \in DOMAIN rows' :
           rows'[h].id \in RecordID /\ rows'[h].above \in DOMAIN rows' \cup {TopLevel}
    BY <2>1 DEF WidgetInv, WidgetTypeOK, HoldsRowsBelow
  <2>4. ROOT_RECORD_ID \notin IdsOf(gone)
    BY <2>1 DEF IdsOf, WidgetInv, WidgetTypeOK, RecordID, ROOT_RECORD_ID
  <2>5. \A i \in DOMAIN file2row_' \ {ROOT_RECORD_ID} :
           file2row_'[i] \in DOMAIN rows' /\ rows'[file2row_'[i]].id = i
    BY <2>1 DEF WidgetInv, WidgetTypeOK, IdsOf
  <2> QED
    BY <2>1, <2>2, <2>3, <2>4, <2>5 DEF WidgetInv, WidgetTypeOK
<1> QED
  BY <1>1, <1>2, <1>3, TreeEffect

LEMMA WidgetStep ==
    ASSUME ScannerInv, WidgetInv, [MediaLibNext]_allVars
    PROVE  WidgetInv'
<1>1. TypeOK /\ TransactionInv
  BY DEF ScannerInv, TransactionInv, RootedInv
<1>2. /\ signal' \in BOOLEAN /\ handling' \in BOOLEAN /\ overtaken' \in BOOLEAN
      /\ handling' => events' # <<>>
  <2> USE DEF WidgetInv, WidgetTypeOK
  <2>1. CASE ScannerStep
    <3>1. [Next]_vars
      BY <2>1 DEF ScannerStep, Next
    <3>2. events # <<>> => events' # <<>>
      BY <1>1, <3>1, QueueGrows, LenProperties, EmptySeq, AppendProperties DEF TypeOK
    <3> QED
      BY <2>1, <3>2 DEF ScannerStep
  <2>2. CASE (GuiStep \/ DiskStep \/ UNCHANGED vars) /\ UNCHANGED widgetVars
    <3>1. [Next]_vars
      BY <2>2 DEF Next
    <3>2. events # <<>> => events' # <<>>
      BY <1>1, <3>1, QueueGrows, LenProperties, EmptySeq, AppendProperties DEF TypeOK
    <3> QED
      BY <2>2, <3>2 DEF widgetVars
  <2>3. CASE UserAtRow /\ UNCHANGED widgetVars
    <3>1. events' = events
      BY <2>3 DEF UserAtRow, RowsCollapsed, RowExpanded
    <3> QED
      BY <2>3, <3>1 DEF widgetVars
  <2>4. CASE Dispatch
    BY <2>4 DEF Dispatch, vars
  <2>5. CASE HandleEvent
    BY <2>5 DEF HandleEvent
  <2> QED
    BY <2>1, <2>2, <2>3, <2>4, <2>5, MediaLibStepKinds
<1> QED
  BY <1>2, TreeIsKept DEF WidgetInv, WidgetTypeOK

LEMMA WidgetInit == MediaLibInit => ScannerInv /\ WidgetInv
<1> SUFFICES ASSUME MediaLibInit PROVE ScannerInv /\ WidgetInv
  OBVIOUS
<1>1. Init /\ committed = files /\ IsTable(files) /\ ParentsAreOlder(files)
  BY ScanThreadAssumption DEF MediaLibInit, Init
<1>2. ScannerInv
  BY <1>1, CourseInit DEF WorkInv, CourseInv, ScannerInv
<1>3. DOMAIN rows = DOMAIN files /\ DOMAIN files \subseteq RecordID
  BY <1>1 DEF MediaLibInit, IsTable
<1>4. IsFiniteSet(DOMAIN rows)
  <2>1. CASE DOMAIN rows = {}
    BY <2>1, FS_EmptySet
  <2>2. CASE DOMAIN rows # {}
    <3>1. PICK m \in DOMAIN files : \A i \in DOMAIN files : i <= m
      BY <1>1, <1>3, <2>2 DEF IsTable, HasMaximum
    <3>2. DOMAIN rows \in SUBSET Nat /\ m \in Nat
      BY <1>3 DEF RecordID
    <3> QED
      BY <1>3, <3>1, <3>2, FS_BoundedSetOfNaturals
  <2> QED
    BY <2>1, <2>2
<1>5. WidgetTypeOK
  BY <1>1, <1>3 DEF MediaLibInit, WidgetTypeOK, ParentsAreOlder, ParentExists, TopLevel,
                    ROOT_RECORD_ID
<1> QED
  BY <1>2, <1>4, <1>5 DEF WidgetInv, MediaLibInit

\* The widget's tree is one: its rows hang below rows of the tree, and the map from
\* records to rows never refers to a row that has been removed, so the assertion of
\* delRec on its reference holds, whatever fails in the scanner meanwhile.
THEOREM RowReferencesAreValid == MediaLibSpec => []WidgetTypeOK
<1>1. ScannerInv /\ WidgetInv /\ [MediaLibNext]_allVars => (ScannerInv /\ WidgetInv)'
  BY ScannerInvStep, WidgetStep
<1>2. WidgetInv => WidgetTypeOK
  BY DEF WidgetInv
<1> QED
  BY <1>1, <1>2, WidgetInit, PTL DEF MediaLibSpec

\* No row is expanded that the widget has deleted: onPreDeleteRow forgets the rows
\* below the deleted one as well, so the thread does not look after them any more.
THEOREM DeletedRowsAreForgotten == MediaLibSpec => []ExpandedRowsAreShown
<1> DEFINE Inv == ScannerInv /\ WidgetInv /\ ExpandedRowsAreShown
<1>1. MediaLibInit => Inv
  <2>1. ASSUME MediaLibInit PROVE ids \subseteq DOMAIN committed
    BY <2>1 DEF MediaLibInit, Init, dirs
  <2>2. ASSUME MediaLibInit PROVE IdsOf(DOMAIN rows) = DOMAIN committed
    BY <2>2 DEF MediaLibInit, IdsOf
  <2> QED
    BY <2>1, <2>2, WidgetInit DEF ExpandedRowsAreShown
<1>2. ASSUME ScannerInv, WidgetInv, ExpandedRowsAreShown, [MediaLibNext]_allVars
      PROVE  ExpandedRowsAreShown'
  <2> USE DEF ExpandedRowsAreShown
  <2>1. ASSUME UNCHANGED treeVars, ids' \subseteq IdsOf(DOMAIN rows) PROVE ExpandedRowsAreShown'
    BY <2>1 DEF treeVars, IdsOf
  <2>2. CASE UNCHANGED <<treeVars, ids>>
    BY <1>2, <2>1, <2>2
  <2>3. ASSUME NEW id, NEW h, Appends(id, h), UNCHANGED ids PROVE ExpandedRowsAreShown'
    BY <1>2, <2>3 DEF Appends, IdsOf
  <2>4. ASSUME NEW id, Drops(id) PROVE ExpandedRowsAreShown'
    <3> DEFINE gone == RowsFrom(rows, file2row_[id])
    <3>1. ids' = ids \ IdsOf(gone) /\ rows' = [h \in DOMAIN rows \ gone |-> rows[h]]
      BY <2>4 DEF Drops
    <3> HIDE DEF gone
    <3> QED
      BY <1>2, <3>1 DEF IdsOf
  <2>5. CASE UNCHANGED treeVars /\ ~HandleEvent
    <3>1. CASE ScanStep
      <4>1. ids' \subseteq ids
        BY <3>1 DEF ScanStep, LoopHead, ReadSettings, ClearRestart, Unhook, ClearContinue, ScanRoots,
                    ScanEntry, EntryDone, IterationFails, Missing, ScanDirs, ScanDirsDone, CheckDir,
                    OpenDir, QueryFails, Save, BeginFails, SaveAdded, SaveChanged, SaveDeleted,
                    StatementFails, Commit, CommitFails, CommitThrows, Hook, Pause, IdsAfterCommit,
                    guiVars
      <4> QED
        BY <1>2, <2>1, <2>5, <4>1
    <3>2. CASE UserAtRow
      <4>1. PICK h \in DOMAIN rows :
               RowsCollapsed(IdsOf(RowsFrom(rows, h))) \/ RowExpanded(rows[h].id)
        BY <3>2 DEF UserAtRow
      <4>2. ids' \subseteq ids \cup {rows[h].id}
        BY <4>1 DEF RowsCollapsed, RowExpanded
      <4>3. rows[h].id \in IdsOf(DOMAIN rows)
        BY DEF IdsOf
      <4> QED
        BY <1>2, <2>1, <2>5, <4>2, <4>3
    <3>3. CASE UserStep \/ DiskStep \/ Dispatch \/ UNCHANGED vars
      <4>1. ids' = ids
        BY <3>3 DEF UserStep, onRefresh, storeSettings, restart, Stop, DiskStep, Dispatch, vars, guiVars
      <4> QED
        BY <1>2, <2>1, <2>5, <4>1
    <3> QED
      BY <1>2, <2>5, <3>1, <3>2, <3>3
         DEF MediaLibNext, allVars, ScannerStep, UserOfTree, UserAtRow
  <2> QED
    BY <1>2, <2>2, <2>3, <2>4, <2>5, TreeEffect
<1>3. Inv /\ [MediaLibNext]_allVars => Inv'
  BY <1>2, ScannerInvStep, WidgetStep
<1> QED
  BY <1>1, <1>3, PTL DEF MediaLibSpec

-----------------------------------------------------------------------------
(* One row per record.  A row whose record is gone is doomed by a DELETED  *)
(* event that the queue gets to before anything new is shown for its id.   *)

LEMMA IdsUpToAreNear ==
    ASSUME WidgetInv, NEW h \in DOMAIN rows
    PROVE  /\ rows[h].id \in IdsUpTo(h)
           /\ rows[h].above # TopLevel =>
                 /\ rows[h].above \in DOMAIN rows
                 /\ IdsUpTo(rows[h].above) \subseteq IdsUpTo(h)
                 /\ Doomed(rows[h].above) => Doomed(h)
<1>1. rows[h].id \in IdsUpTo(h)
  BY RowIsOnItsWay DEF IdsUpTo, IdsOf
<1>2. ASSUME rows[h].above # TopLevel
      PROVE  rows[h].above \in DOMAIN rows /\ IdsUpTo(rows[h].above) \subseteq IdsUpTo(h)
  <2>1. rows[h].above \in DOMAIN rows
    BY <1>2 DEF WidgetInv, WidgetTypeOK
  <2> QED
    BY <2>1, RowsUpToAbove DEF IdsUpTo, IdsOf
<1> QED
  BY <1>1, <1>2 DEF Doomed

\* The table's cascade goes down the way the tree does.
LEMMA CascadeFollowsTree ==
    ASSUME WidgetInv, TypeOK, LiveRowsAreRecords, NEW x \in DOMAIN files,
           NEW h \in DOMAIN rows, ~Doomed(h), rows[h].id \in Cascade(files, x)
    PROVE  x \in IdsUpTo(h)
<1> DEFINE S == {i \in DOMAIN files :
                    \A g \in DOMAIN rows : rows[g].id = i /\ ~Doomed(g) => x \in IdsUpTo(g)}
<1>1. x \in S
  BY IdsUpToAreNear
<1>2. ClosedUnderChildren(files, S)
  <2> SUFFICES ASSUME NEW i \in DOMAIN files, files[i].parentID \in S,
                      NEW g \in DOMAIN rows, rows[g].id = i, ~Doomed(g)
               PROVE  x \in IdsUpTo(g)
    BY DEF ClosedUnderChildren
  <2>1. files[i].parentID = ParentOf(g)
    BY DEF LiveRowsAreRecords
  <2>2. ParentOf(g) \in RecordID
    BY <2>1 DEF TypeOK, IsTable
  <2>3. rows[g].above # TopLevel /\ ParentOf(g) = rows[rows[g].above].id
    BY <2>2 DEF ParentOf, RecordID, ROOT_RECORD_ID
  <2>4. /\ rows[g].above \in DOMAIN rows /\ ~Doomed(rows[g].above)
        /\ IdsUpTo(rows[g].above) \subseteq IdsUpTo(g)
    BY <2>3, IdsUpToAreNear
  <2> QED
    BY <2>1, <2>3, <2>4
<1>3. rows[h].id \in S
  BY <1>1, <1>2 DEF Cascade
<1> QED
  BY <1>3

LEMMA NextEventIsLast ==
    ASSUME TypeOK, NEW e, events' = Append(events, e)
    PROVE  /\ Len(events) + 1 \in DOMAIN events' /\ events'[Len(events) + 1] = e
           /\ \A k \in DOMAIN events : k < Len(events) + 1 /\ k \in DOMAIN events' /\ events'[k] = events[k]
           /\ \A k \in DOMAIN events' : k \in DOMAIN events \/ k = Len(events) + 1
           /\ Len(events') = Len(events) + 1 /\ Len(events) \in Nat
           /\ DOMAIN events' = 1 .. Len(events) + 1 /\ DOMAIN events = 1 .. Len(events)
<1>1. events \in Seq(ScanEvent)
  BY DEF TypeOK
<1> QED
  BY <1>1

LEMMA EventsMoveUp ==
    ASSUME TypeOK, events # <<>>, events' = Tail(events)
    PROVE  /\ 1 \in DOMAIN events /\ events[1] = Head(events)
           /\ \A k \in DOMAIN events : k \in Nat /\ 1 <= k
           /\ \A k \in DOMAIN events' : k \in Nat /\ k + 1 \in DOMAIN events /\ events'[k] = events[k + 1]
           /\ \A k \in DOMAIN events : k # 1 => k - 1 \in DOMAIN events' /\ events'[k - 1] = events[k]
  BY FirstEvent

\* A step of the scanner or of the user at the table and the queue.
LEMMA QueueEffect ==
    ASSUME ScannerInv, WidgetInv, [MediaLibNext]_allVars, ~HandleEvent
    PROVE  /\ UNCHANGED treeVars
           /\ Announces \/ Renews \/ Withdraws \/ KeepsQuiet
           /\ overtaken => overtaken'
           /\ Announces /\ ~overtaken' => ~Reissues
<1>0. TransactionInv /\ TypeOK
  BY DEF ScannerInv, TransactionInv, RootedInv
<1>1. CASE ScannerStep
  <2>1. [Next]_vars
    BY <1>1 DEF ScannerStep, Next
  <2>2. UNCHANGED treeVars /\ overtaken' = (overtaken \/ Reissues)
    BY <1>1 DEF ScannerStep
  <2> QED
    BY <1>0, <2>1, <2>2, TableAndEvents
<1>2. CASE ~ScannerStep
  <2>1. UNCHANGED <<files, committed, events, faults, treeVars, overtaken>>
    <3>1. CASE (GuiStep \/ DiskStep \/ UNCHANGED vars) /\ UNCHANGED widgetVars
      <4>1. events' = events
        BY <3>1 DEF GuiStep, UserStep, onRowExpanded, onRowCollapsed, RowExpanded, RowsCollapsed,
                    ForgetRow, onRefresh, storeSettings, restart, Stop, DiskStep, vars
      <4> QED
        BY <3>1, <4>1, OutsideLeavesScan DEF widgetVars
    <3>2. CASE UserAtRow /\ UNCHANGED widgetVars
      BY <3>2 DEF UserAtRow, RowsCollapsed, RowExpanded, widgetVars, dbVars, tableVars
    <3>3. CASE Dispatch
      BY <3>3 DEF Dispatch, vars, dbVars, tableVars, boundVars
    <3> QED
      BY <1>2, <3>1, <3>2, <3>3, MediaLibStepKinds
  <2>2. ~Announces
    BY <1>0, <2>1, NextEventIsLast DEF Announces
  <2> QED
    BY <2>1, <2>2 DEF KeepsQuiet
<1> QED
  BY <1>1, <1>2

\* What is queued stays queued, and doomed what is doomed.
LEMMA DoomStays ==
    ASSUME ScannerInv, UNCHANGED treeVars, Announces \/ Renews \/ Withdraws \/ KeepsQuiet
    PROVE  /\ \A h : (IdsUpTo(h)' = IdsUpTo(h)) /\ (ParentOf(h)' = ParentOf(h))
           /\ \A k \in DOMAIN events : k \in DOMAIN events' /\ events'[k] = events[k]
           /\ \A h : Doomed(h) => Doomed(h)'
<1> USE DEF treeVars
<1>1. TypeOK
  BY DEF ScannerInv, TransactionInv, RootedInv
<1>2. \A h : (IdsUpTo(h)' = IdsUpTo(h)) /\ (ParentOf(h)' = ParentOf(h))
  BY DEF IdsUpTo, IdsOf, ParentOf
<1>3. \A k \in DOMAIN events : k \in DOMAIN events' /\ events'[k] = events[k]
  BY <1>1, NextEventIsLast DEF Announces, Renews, Withdraws, KeepsQuiet
<1>4. \A h : Doomed(h) => Doomed(h)'
  BY <1>2, <1>3 DEF Doomed, Queued
<1> QED
  BY <1>2, <1>3, <1>4

\* Unless its row is doomed by a step, a record stays, and stays below its parent.
LEMMA LiveRecordsStay ==
    ASSUME ScannerInv, WidgetInv, LiveRowsAreRecords, UNCHANGED treeVars,
           Announces \/ Renews \/ Withdraws \/ KeepsQuiet
    PROVE  LiveRowsAreRecords'
<1>0. TypeOK /\ IsTable(files)
  BY DEF ScannerInv, TransactionInv, RootedInv, TypeOK
<1> SUFFICES ASSUME NEW h \in DOMAIN rows, ~Doomed(h)', NEW db \in {files', committed'}
             PROVE  rows[h].id \in DOMAIN db /\ db[rows[h].id].parentID = ParentOf(h)
  BY DoomStays DEF LiveRowsAreRecords, treeVars
<1> DEFINE id == rows[h].id
<1>1. ~Doomed(h)
  BY DoomStays
<1>2. \A d \in {files, committed} : id \in DOMAIN d /\ d[id].parentID = ParentOf(h)
  BY <1>1 DEF LiveRowsAreRecords
<1>3. CASE KeepsQuiet
  BY <1>2, <1>3 DEF KeepsQuiet
<1>4. CASE Announces
  <2>1. id \in DOMAIN files' /\ (id # NewRowId(files) => files'[id] = files[id])
    BY <1>2, <1>4 DEF Announces, InsertRow
  <2>2. id # NewRowId(files)
    BY <1>0, <1>2, NewRowIdIsFresh DEF IsTable, RecordID
  <2> QED
    BY <1>2, <1>4, <2>1, <2>2 DEF Announces
<1>5. CASE Renews
  <2>1. PICK rec \in Replacing(files) : files' = UpdateRow(files, rec[1], rec[2])
    BY <1>5 DEF Renews
  <2>2. rec[1] \in DOMAIN files /\ rec[2].parentID = files[rec[1]].parentID
    BY DEF Replacing
  <2>3. DOMAIN files' = DOMAIN files /\ files'[id].parentID = files[id].parentID
    BY <1>0, <1>2, <2>1, <2>2 DEF UpdateRow, IsTable
  <2> QED
    BY <1>2, <1>5, <2>3 DEF Renews
<1>6. CASE Withdraws
  <2>1. PICK x \in RecordID :
           files' = DeleteRow(files, x) /\ events' = Append(events, Event("DELETED", x))
    BY <1>6 DEF Withdraws
  <2>2. x \notin IdsUpTo(h)
    <3>1. \E k \in DOMAIN events' : events'[k] = Event("DELETED", x)
      BY <1>0, <2>1, NextEventIsLast
    <3>2. x \notin IdsUpTo(h)'
      BY <3>1 DEF Doomed, Queued
    <3> QED
      BY <3>2, DoomStays
  <2>3. x \in DOMAIN files => id \notin Cascade(files, x)
    BY <1>0, <1>1, <2>2, CascadeFollowsTree
  <2>4. id \in DOMAIN files' /\ files'[id] = files[id]
    BY <1>2, <2>1, <2>3 DEF DeleteRow
  <2> QED
    BY <1>2, <1>6, <2>4 DEF Withdraws
<1> QED
  BY <1>3, <1>4, <1>5, <1>6

LEMMA RowsInvQueue ==
    ASSUME ScannerInv, WidgetInv, RowsInv, ~overtaken, UNCHANGED treeVars,
           Announces \/ Renews \/ Withdraws \/ KeepsQuiet, Announces => ~Reissues
    PROVE  RowsInv'
<1>0. TypeOK /\ IsTable(files) /\ events \in Seq(ScanEvent)
  BY DEF ScannerInv, TransactionInv, RootedInv, TypeOK
<1>1. OneRowPerRecord /\ RowsAreMapped /\ AddedOnce /\ RowsGoFirst /\ LiveRowsAreRecords
  BY DEF RowsInv
<1>2. OneRowPerRecord' /\ RowsAreMapped'
  BY <1>1 DEF OneRowPerRecord, RowsAreMapped, treeVars
<1>3. LiveRowsAreRecords'
  BY <1>1, LiveRecordsStay
<1> DEFINE n == Len(events) + 1
<1>4. ASSUME Announces
      PROVE  /\ n \in DOMAIN events' /\ events'[n] = Event("ADDED", NewRowId(files))
             /\ \A k \in DOMAIN events : events[k] # events'[n] /\ k < n
             /\ \A k \in DOMAIN events' : k \in DOMAIN events \/ k = n
  <2>1. events' = Append(events, Event("ADDED", NewRowId(files)))
    BY <1>4 DEF Announces
  <2> QED
    BY <1>0, <1>4, <2>1, NextEventIsLast DEF Reissues, Event
<1>5. ASSUME ~Announces, NEW k \in DOMAIN events', events'[k].type = "ADDED"
      PROVE  k \in DOMAIN events
  <2>1. CASE KeepsQuiet
    BY <1>5, <2>1 DEF KeepsQuiet
  <2>2. CASE Renews \/ Withdraws
    <3>1. PICK e : e.type # "ADDED" /\ events' = Append(events, e)
      BY <2>2 DEF Renews, Withdraws, Event
    <3> QED
      BY <1>0, <1>5, <3>1, NextEventIsLast
  <2> QED
    BY <1>5, <2>1, <2>2
<1>6. AddedOnce'
  <2> SUFFICES ASSUME NEW j \in DOMAIN events', NEW k \in DOMAIN events',
                      events'[j] = events'[k], events'[k].type = "ADDED"
               PROVE  j = k
    BY DEF AddedOnce
  <2> QED
    BY <1>1, <1>4, <1>5, DoomStays DEF AddedOnce
<1>7. RowsGoFirst'
  <2> SUFFICES ASSUME NEW h \in DOMAIN rows, NEW k \in DOMAIN events', Queued(k, "ADDED", rows[h].id)'
               PROVE  \E j \in DOMAIN events', id \in IdsUpTo(h) : j < k /\ Queued(j, "DELETED", id)'
    BY DoomStays DEF RowsGoFirst, treeVars
  <2>0. events'[k] = Event("ADDED", rows[h].id) /\ events'[k].type = "ADDED"
    BY DEF Queued, Event, treeVars
  <2>1. ASSUME k \in DOMAIN events
        PROVE  \E j \in DOMAIN events, id \in IdsUpTo(h) : j < k /\ Queued(j, "DELETED", id)
    BY <1>1, <2>0, <2>1, DoomStays DEF RowsGoFirst, Queued
  <2>2. ASSUME Announces, k = n
        PROVE  \E j \in DOMAIN events, id \in IdsUpTo(h) : j < k /\ Queued(j, "DELETED", id)
    <3>1. rows[h].id = NewRowId(files)
      BY <1>4, <2>0, <2>2 DEF Event
    <3>2. rows[h].id \notin DOMAIN files
      BY <1>0, <3>1, NewRowIdIsFresh DEF RecordID, IsTable
    <3>3. Doomed(h)
      BY <1>1, <3>2 DEF LiveRowsAreRecords
    <3> QED
      BY <1>4, <2>2, <3>3 DEF Doomed
  <2>3. \E j \in DOMAIN events, id \in IdsUpTo(h) : j < k /\ Queued(j, "DELETED", id)
    BY <1>4, <1>5, <2>0, <2>1, <2>2
  <2> QED
    BY <2>3, DoomStays DEF Queued
<1> QED
  BY <1>2, <1>3, <1>6, <1>7 DEF RowsInv

\* What handling the first event comes to.
Shows(id, h) == Head(events) = Event("ADDED", id) /\ ~inTx /\ Appends(id, h)

Overlooks(id) ==
    /\ Head(events) = Event("ADDED", id) /\ ~inTx /\ UNCHANGED treeVars
    /\ id \notin DOMAIN committed \/ committed[id].parentID \notin DOMAIN file2row_

Removes(id) == Head(events) = Event("DELETED", id) /\ Drops(id)

IgnoresDeletion(id) ==
    Head(events) = Event("DELETED", id) /\ id \notin DOMAIN file2row_ /\ UNCHANGED treeVars

IgnoresUpdate == Head(events).type = "UPDATED" /\ UNCHANGED treeVars

LEMMA HandledKinds ==
    ASSUME ScannerInv, WidgetInv, HandleEvent
    PROVE  /\ events # <<>> /\ events' = Tail(events)
           /\ UNCHANGED <<files, committed, inTx, faults, overtaken>>
           /\ \/ \E id \in RecordID : (\E h : Shows(id, h)) \/ Overlooks(id) \/ Removes(id)
                                      \/ IgnoresDeletion(id)
              \/ IgnoresUpdate
<1>0. TypeOK
  BY DEF ScannerInv, TransactionInv, RootedInv
<1>1. events # <<>> /\ events' = Tail(events) /\ UNCHANGED overtaken
  BY <1>0, HandleEventEffect
<1>2. UNCHANGED <<files, committed, inTx, faults>>
  BY <1>0, WidgetLeavesScanner DEF dbVars, tableVars
<1> DEFINE e == Head(events)
<1>3. e \in ScanEvent
  BY <1>0, <1>1, FirstEvent
<1>4. e.id \in RecordID /\ e = Event(e.type, e.id)
  BY <1>3 DEF ScanEvent, Event
<1> DEFINE Handled ==
             \/ \E id \in RecordID : (\E h : Shows(id, h)) \/ Overlooks(id) \/ Removes(id)
                                      \/ IgnoresDeletion(id)
             \/ IgnoresUpdate
<1>5. ASSUME e.type = "ADDED", addRec(e.id) PROVE Handled
  <2>1. e = Event("ADDED", e.id) /\ ~inTx
    BY <1>4, <1>5 DEF addRec
  <2> HIDE DEF e
  <2>2. \/ \E h : Appends(e.id, h)
        \/ /\ UNCHANGED treeVars
           /\ e.id \notin DOMAIN committed \/ committed[e.id].parentID \notin DOMAIN file2row_
    BY <1>4, <1>5, AddRecEffect
  <2> USE DEF e
  <2> QED
    BY <1>4, <2>1, <2>2 DEF Shows, Overlooks
<1>6. ASSUME e.type = "DELETED", delRec(e.id) PROVE Handled
  <2>1. e = Event("DELETED", e.id)
    BY <1>4, <1>6
  <2> QED
    BY <1>0, <1>4, <1>6, <2>1, DelRecEffect DEF Removes, IgnoresDeletion, delRec
<1>7. ASSUME e.type = "UPDATED", UNCHANGED treeVars PROVE Handled
  BY <1>7 DEF IgnoresUpdate
<1>8. Handled
  BY <1>0, <1>5, <1>6, <1>7, HandleEventEffect DEF treeVars
<1> QED
  BY <1>1, <1>2, <1>8

\* A row that stays hangs where it did.
LEMMA WaysStay ==
    ASSUME ScannerInv, WidgetInv, HandleEvent, NEW h \in DOMAIN rows, h \in DOMAIN rows'
    PROVE  /\ rows'[h] = rows[h]
           /\ IdsUpTo(h)' = IdsUpTo(h) /\ ParentOf(h)' = ParentOf(h)
<1> USE DEF treeVars
<1>0. IsTree(rows) /\ WidgetTypeOK
  BY DEF WidgetInv, WidgetTypeOK, IsTree
<1>1. /\ \A g \in DOMAIN rows \cap DOMAIN rows' : rows'[g] = rows[g]
      /\ RowsUpTo(rows', h) = RowsUpTo(rows, h)
  <2>1. CASE UNCHANGED treeVars
    BY <2>1
  <2>2. ASSUME NEW id \in RecordID, NEW g, Appends(id, g)
        PROVE  /\ \A r \in DOMAIN rows \cap DOMAIN rows' : rows'[r] = rows[r]
               /\ RowsUpTo(rows', h) = RowsUpTo(rows, h)
    <3>1. rows'[g].above \in DOMAIN rows \cup {TopLevel}
      BY <1>0, <2>2 DEF Appends, WidgetTypeOK
    <3> QED
      BY <1>0, <2>2, <3>1, RowsUpToAfterAppend DEF Appends
  <2>3. ASSUME NEW id \in RecordID, Drops(id)
        PROVE  /\ \A r \in DOMAIN rows \cap DOMAIN rows' : rows'[r] = rows[r]
               /\ RowsUpTo(rows', h) = RowsUpTo(rows, h)
    BY <2>3, RowsUpToAfterRemoval DEF Drops
  <2> QED
    BY <2>1, <2>2, <2>3, HandledKinds DEF Shows, Overlooks, Removes, IgnoresDeletion, IgnoresUpdate
<1>2. RowsUpTo(rows', h) \subseteq DOMAIN rows /\ RowsUpTo(rows', h) \subseteq DOMAIN rows'
  BY <1>1, RowIsOnItsWay
<1>3. IdsUpTo(h)' = IdsUpTo(h)
  <2>1. IdsUpTo(h)' = {rows'[g].id : g \in RowsUpTo(rows', h)}
    BY DEF IdsUpTo, IdsOf
  <2>2. IdsUpTo(h) = {rows[g].id : g \in RowsUpTo(rows, h)}
    BY DEF IdsUpTo, IdsOf
  <2> QED
    BY <1>1, <1>2, <2>1, <2>2
<1>4. rows'[h].above # TopLevel => rows'[h].above \in DOMAIN rows \cap DOMAIN rows'
  BY <1>0, <1>1, TreeIsKept DEF WidgetTypeOK, MediaLibNext
<1> QED
  BY <1>1, <1>3, <1>4 DEF ParentOf

\* The row of a record that is deleted goes, and so do those below it.
LEMMA DeletedRowsGo ==
    ASSUME ScannerInv, WidgetInv, OneRowPerRecord, RowsAreMapped, HandleEvent,
           NEW h \in DOMAIN rows, h \in DOMAIN rows', NEW id \in IdsUpTo(h)
    PROVE  Head(events) # Event("DELETED", id)
<1> SUFFICES ASSUME Head(events) = Event("DELETED", id) PROVE FALSE
  OBVIOUS
<1>1. PICK r \in RowsUpTo(rows, h) : rows[r].id = id
  BY DEF IdsUpTo, IdsOf
<1>2. r \in DOMAIN rows /\ id \in RecordID
  BY <1>1, RowIsOnItsWay DEF WidgetInv, WidgetTypeOK
<1>3. id \in DOMAIN file2row_
  BY <1>1, <1>2 DEF RowsAreMapped
<1>4. file2row_[id] = r
  BY <1>1, <1>2, <1>3 DEF OneRowPerRecord, WidgetInv, WidgetTypeOK, RecordID, ROOT_RECORD_ID
<1>5. Drops(id)
  <2>1. \A i, type : Event(type, i) = Event("DELETED", id) => type = "DELETED" /\ i = id
    BY DEF Event
  <2>2. Event("DELETED", id).type # "UPDATED"
    BY DEF Event
  <2> QED
    BY <1>3, <2>1, <2>2, HandledKinds DEF Shows, Overlooks, Removes, IgnoresDeletion, IgnoresUpdate
<1>6. r \notin RowsUpTo(rows, h)
  BY <1>2, <1>4, <1>5, RowsUpToAfterRemoval DEF Drops
<1> QED
  BY <1>1, <1>6

\* Handling an event dooms no row and saves none.
LEMMA DoomMovesUp ==
    ASSUME ScannerInv, WidgetInv, OneRowPerRecord, RowsAreMapped, HandleEvent,
           NEW h \in DOMAIN rows, h \in DOMAIN rows'
    PROVE  /\ Doomed(h)' <=> Doomed(h)
           /\ \A j \in DOMAIN events, id \in IdsUpTo(h) :
                 Queued(j, "DELETED", id) => j - 1 \in DOMAIN events' /\ Queued(j - 1, "DELETED", id)'
<1>1. TypeOK /\ events # <<>> /\ events' = Tail(events)
  BY HandledKinds DEF ScannerInv, TransactionInv, RootedInv
<1>2. \A j \in DOMAIN events, id \in IdsUpTo(h) :
         Queued(j, "DELETED", id) => j - 1 \in DOMAIN events' /\ events'[j - 1] = Event("DELETED", id)
  <2> SUFFICES ASSUME NEW j \in DOMAIN events, NEW id \in IdsUpTo(h), events[j] = Event("DELETED", id)
               PROVE  j - 1 \in DOMAIN events' /\ events'[j - 1] = Event("DELETED", id)
    BY DEF Queued
  <2>1. j # 1
    BY <1>1, EventsMoveUp, DeletedRowsGo
  <2> QED
    BY <1>1, <2>1, EventsMoveUp
<1>3. IdsUpTo(h)' = IdsUpTo(h)
  BY WaysStay
<1>4. ASSUME Doomed(h) PROVE Doomed(h)'
  BY <1>2, <1>3, <1>4 DEF Doomed, Queued
<1>5. ASSUME Doomed(h)' PROVE Doomed(h)
  <2>1. PICK k \in DOMAIN events', id \in IdsUpTo(h) : events'[k] = Event("DELETED", id)
    BY <1>3, <1>5 DEF Doomed, Queued
  <2>2. k + 1 \in DOMAIN events /\ events[k + 1] = Event("DELETED", id)
    BY <1>1, <2>1, EventsMoveUp
  <2> QED
    BY <2>2 DEF Doomed, Queued
<1>6. \A j \in DOMAIN events, id \in IdsUpTo(h) :
         Queued(j, "DELETED", id) => j - 1 \in DOMAIN events' /\ Queued(j - 1, "DELETED", id)'
  BY <1>2 DEF Queued
<1> QED
  BY <1>4, <1>5, <1>6

\* A row is appended for a record that has none, below that of the record's parent.
LEMMA ShownOnce ==
    ASSUME ScannerInv, WidgetInv, RowsGoFirst, AddedOnce, HandleEvent,
           NEW id \in RecordID, NEW h, Shows(id, h)
    PROVE  /\ \A g \in DOMAIN rows : rows[g].id # id
           /\ id \notin DOMAIN file2row_ /\ file2row_'[id] = h
           /\ h \in DOMAIN rows' /\ rows'[h].id = id
           /\ \A k \in DOMAIN events' : ~Queued(k, "ADDED", id)'
           /\ \A db \in {files, committed} : id \in DOMAIN db /\ db[id].parentID = ParentOf(h)'
<1>1. TypeOK /\ events # <<>> /\ events' = Tail(events)
  BY HandledKinds DEF ScannerInv, TransactionInv, RootedInv
<1>2. 1 \in DOMAIN events /\ events[1] = Event("ADDED", id) /\ events[1].type = "ADDED"
  <2>1. 1 \in DOMAIN events /\ events[1] = Head(events)
    BY <1>1, EventsMoveUp
  <2>2. Head(events) = Event("ADDED", id)
    BY DEF Shows
  <2> QED
    BY <2>1, <2>2 DEF Event
<1>3. \A g \in DOMAIN rows : rows[g].id # id
  BY <1>1, <1>2, EventsMoveUp DEF RowsGoFirst, Queued
<1>4. id \notin DOMAIN file2row_
  BY <1>3 DEF WidgetInv, WidgetTypeOK, RecordID, ROOT_RECORD_ID
<1>5. file2row_'[id] = h /\ h \in DOMAIN rows' /\ rows'[h].id = id
  BY <1>4 DEF Shows, Appends
<1>6. \A k \in DOMAIN events' : ~Queued(k, "ADDED", id)'
  <2> SUFFICES ASSUME NEW k \in DOMAIN events', events'[k] = Event("ADDED", id) PROVE FALSE
    BY DEF Queued
  <2>1. k \in Nat /\ 1 <= k /\ k + 1 \in DOMAIN events /\ events[k + 1] = events[1]
    BY <1>1, <1>2, EventsMoveUp, FirstEvent
  <2>2. k + 1 = 1
    BY <1>2, <2>1 DEF AddedOnce
  <2> QED
    BY <2>1, <2>2
<1> DEFINE p == committed[id].parentID
<1>7. id \in DOMAIN committed /\ p \in DOMAIN file2row_ /\ files = committed
  BY DEF Shows, Appends, ScannerInv, Uncommitted
<1>8. ParentOf(h)' = p
  <2>0. rows'[h].above = file2row_[p]
    BY DEF Shows, Appends
  <2>1. CASE p = ROOT_RECORD_ID
    BY <2>0, <2>1 DEF ParentOf, WidgetInv, WidgetTypeOK
  <2>2. CASE p # ROOT_RECORD_ID
    <3>1. file2row_[p] \in DOMAIN rows /\ rows[file2row_[p]].id = p /\ file2row_[p] # TopLevel
      BY <1>7, <2>2 DEF WidgetInv, WidgetTypeOK, TopLevel, RecordID
    <3>2. rows'[file2row_[p]] = rows[file2row_[p]]
      BY <3>1 DEF Shows, Appends
    <3> HIDE DEF p
    <3> QED
      BY <2>0, <3>1, <3>2 DEF ParentOf
  <2> QED
    BY <2>1, <2>2
<1>9. \A db \in {files, committed} : id \in DOMAIN db /\ db[id].parentID = ParentOf(h)'
  BY <1>7, <1>8
<1> QED
  BY <1>3, <1>4, <1>5, <1>6, <1>9

LEMMA RowsInvHandled ==
    ASSUME ScannerInv, WidgetInv, RowsInv, ~overtaken, HandleEvent
    PROVE  RowsInv'
<1>0. /\ TypeOK /\ events # <<>> /\ events' = Tail(events)
      /\ UNCHANGED <<files, committed, inTx, overtaken>>
  BY HandledKinds DEF ScannerInv, TransactionInv, RootedInv
<1>1. OneRowPerRecord /\ RowsAreMapped /\ AddedOnce /\ RowsGoFirst /\ LiveRowsAreRecords
  BY DEF RowsInv
\* What becomes of the rows that were there.
<1>2. ASSUME NEW h \in DOMAIN rows, h \in DOMAIN rows'
      PROVE  /\ rows'[h] = rows[h]
             /\ ~Doomed(h)' => \A db \in {files, committed} :
                   rows[h].id \in DOMAIN db /\ db[rows[h].id].parentID = ParentOf(h)'
             /\ \A k \in DOMAIN events' : Queued(k, "ADDED", rows[h].id)' =>
                   \E j \in DOMAIN events', id \in IdsUpTo(h)' : j < k /\ Queued(j, "DELETED", id)'
  <2>1. rows'[h] = rows[h] /\ IdsUpTo(h)' = IdsUpTo(h) /\ ParentOf(h)' = ParentOf(h)
    BY <1>2, WaysStay
  <2>2. ~Doomed(h)' => ~Doomed(h)
    BY <1>1, <1>2, DoomMovesUp
  <2>3. ASSUME NEW k \in DOMAIN events', events'[k] = Event("ADDED", rows[h].id)
        PROVE  \E j \in DOMAIN events', id \in IdsUpTo(h) : j < k /\ Queued(j, "DELETED", id)'
    <3>1. k \in Nat /\ k + 1 \in DOMAIN events /\ events[k + 1] = Event("ADDED", rows[h].id)
      BY <1>0, <2>3, EventsMoveUp
    <3>2. PICK j \in DOMAIN events, id \in IdsUpTo(h) : j < k + 1 /\ Queued(j, "DELETED", id)
      BY <1>1, <3>1 DEF RowsGoFirst, Queued
    <3>3. j - 1 \in DOMAIN events' /\ Queued(j - 1, "DELETED", id)' /\ j \in Nat
      BY <1>0, <1>1, <1>2, <3>2, DoomMovesUp, EventsMoveUp
    <3>4. j - 1 < k
      BY <3>1, <3>2, <3>3
    <3> QED
      BY <3>3, <3>4
  <2>4. \A k \in DOMAIN events' : Queued(k, "ADDED", rows[h].id)' =>
           \E j \in DOMAIN events', id \in IdsUpTo(h) : j < k /\ Queued(j, "DELETED", id)'
    BY <2>1, <2>3 DEF Queued
  <2>5. ~Doomed(h)' => \A db \in {files, committed} :
           rows[h].id \in DOMAIN db /\ db[rows[h].id].parentID = ParentOf(h)'
    BY <1>1, <2>1, <2>2 DEF LiveRowsAreRecords
  <2> QED
    BY <2>1, <2>4, <2>5
<1>3. AddedOnce'
  <2> SUFFICES ASSUME NEW j \in DOMAIN events', NEW k \in DOMAIN events',
                      events'[j] = events'[k], events'[k].type = "ADDED"
               PROVE  j = k
    BY DEF AddedOnce
  <2>1. /\ j \in Nat /\ j + 1 \in DOMAIN events /\ events'[j] = events[j + 1]
        /\ k \in Nat /\ k + 1 \in DOMAIN events /\ events'[k] = events[k + 1]
    BY <1>0, EventsMoveUp
  <2>2. j + 1 = k + 1
    BY <1>1, <2>1 DEF AddedOnce
  <2> QED
    BY <2>1, <2>2
\* The three kinds of step.
<1>4. ASSUME NEW id \in RecordID, NEW new, Shows(id, new)
      PROVE  OneRowPerRecord' /\ RowsAreMapped' /\ RowsGoFirst' /\ LiveRowsAreRecords'
  <2>1. /\ \A g \in DOMAIN rows : rows[g].id # id
        /\ id \notin DOMAIN file2row_ /\ file2row_'[id] = new
        /\ new \in DOMAIN rows' /\ rows'[new].id = id
        /\ \A k \in DOMAIN events' : ~Queued(k, "ADDED", id)'
        /\ \A db \in {files, committed} : id \in DOMAIN db /\ db[id].parentID = ParentOf(new)'
    BY <1>1, <1>4, ShownOnce
  <2>2. /\ DOMAIN rows' = DOMAIN rows \cup {new}
        /\ DOMAIN file2row_' = DOMAIN file2row_ \cup {id}
    BY <1>4 DEF Shows, Appends
  <2>3. OneRowPerRecord'
    BY <1>1, <1>2, <2>1, <2>2 DEF OneRowPerRecord
  <2>4. RowsAreMapped'
    BY <1>1, <1>2, <2>1, <2>2 DEF RowsAreMapped
  <2>5. RowsGoFirst'
    BY <1>2, <2>1, <2>2 DEF RowsGoFirst
  <2>6. LiveRowsAreRecords'
    BY <1>0, <1>2, <2>1, <2>2 DEF LiveRowsAreRecords
  <2> QED
    BY <2>3, <2>4, <2>5, <2>6
<1>5. ASSUME NEW id \in RecordID, Removes(id)
      PROVE  OneRowPerRecord' /\ RowsAreMapped' /\ RowsGoFirst' /\ LiveRowsAreRecords'
  <2> DEFINE gone == RowsFrom(rows, file2row_[id])
  <2>1. /\ DOMAIN rows' = DOMAIN rows \ gone
        /\ DOMAIN file2row_' = DOMAIN file2row_ \ IdsOf(gone)
        /\ gone \subseteq DOMAIN rows
    BY <1>5, RowsFromHoldsBelow DEF Removes, Drops
  <2> HIDE DEF gone
  <2>2. OneRowPerRecord'
    BY <1>1, <1>2, <2>1 DEF OneRowPerRecord
  <2>3. RowsAreMapped'
    BY <1>1, <1>2, <2>1 DEF RowsAreMapped, OneRowPerRecord, IdsOf
  <2>4. RowsGoFirst'
    BY <1>2, <2>1 DEF RowsGoFirst
  <2>5. LiveRowsAreRecords'
    BY <1>0, <1>2, <2>1 DEF LiveRowsAreRecords
  <2> QED
    BY <2>2, <2>3, <2>4, <2>5
<1>6. ASSUME UNCHANGED treeVars
      PROVE  OneRowPerRecord' /\ RowsAreMapped' /\ RowsGoFirst' /\ LiveRowsAreRecords'
  <2>1. rows' = rows /\ file2row_' = file2row_
    BY <1>6 DEF treeVars
  <2>2. OneRowPerRecord' /\ RowsAreMapped'
    BY <1>1, <2>1 DEF OneRowPerRecord, RowsAreMapped
  <2>3. RowsGoFirst'
    BY <1>2, <2>1 DEF RowsGoFirst
  <2>4. LiveRowsAreRecords'
    BY <1>0, <1>2, <2>1 DEF LiveRowsAreRecords
  <2> QED
    BY <2>2, <2>3, <2>4
<1>7. OneRowPerRecord' /\ RowsAreMapped' /\ RowsGoFirst' /\ LiveRowsAreRecords'
  BY <1>4, <1>5, <1>6, HandledKinds DEF Overlooks, IgnoresDeletion, IgnoresUpdate
<1> QED
  BY <1>3, <1>7 DEF RowsInv

LEMMA RowsInvInit == MediaLibInit => RowsInv
<1> SUFFICES ASSUME MediaLibInit PROVE RowsInv
  OBVIOUS
<1>1. files = committed /\ events = <<>> /\ IsTable(files) /\ ParentsAreOlder(files)
  BY ScanThreadAssumption DEF MediaLibInit, Init
<1>2. /\ DOMAIN rows = DOMAIN committed
      /\ \A h \in DOMAIN rows : rows[h] = [id |-> h, above |-> committed[h].parentID]
      /\ DOMAIN file2row_ = DOMAIN committed \cup {ROOT_RECORD_ID}
  BY DEF MediaLibInit
<1>3. OneRowPerRecord /\ RowsAreMapped
  BY <1>2 DEF OneRowPerRecord, RowsAreMapped
<1>4. AddedOnce /\ RowsGoFirst
  BY <1>1 DEF AddedOnce, RowsGoFirst
<1>5. LiveRowsAreRecords
  BY <1>1, <1>2 DEF LiveRowsAreRecords, ParentOf, ParentsAreOlder, ParentExists, TopLevel, ROOT_RECORD_ID
<1> QED
  BY <1>3, <1>4, <1>5 DEF RowsInv

LEMMA RowsInvStep ==
    ASSUME ScannerInv, WidgetInv, RowsInv, [MediaLibNext]_allVars
    PROVE  RowsInv'
<1>1. CASE HandleEvent
  <2>1. overtaken' = overtaken
    BY <1>1, HandledKinds
  <2>2. CASE overtaken
    BY <2>1, <2>2 DEF RowsInv
  <2>3. CASE ~overtaken
    BY <1>1, <2>3, RowsInvHandled
  <2> QED
    BY <2>2, <2>3
<1>2. CASE ~HandleEvent
  <2>1. CASE overtaken'
    BY <2>1 DEF RowsInv
  <2>2. CASE ~overtaken'
    BY <1>2, <2>2, QueueEffect, RowsInvQueue
  <2> QED
    BY <2>1, <2>2
<1> QED
  BY <1>1, <1>2

\* However late the events are handled, and whatever has failed in the scanner, no
\* record is ever given a second row: the row a record had goes before the queue gets
\* to a new record of the same id.  (Unless two additions of one id are queued at
\* once, which `overtaken' records.)
THEOREM RecordsHaveOneRow == MediaLibSpec => []NoRowTwice
<1>1. ScannerInv /\ WidgetInv /\ RowsInv /\ [MediaLibNext]_allVars => (ScannerInv /\ WidgetInv /\ RowsInv)'
  BY ScannerInvStep, WidgetStep, RowsInvStep
<1>2. RowsInv => NoRowTwice
  BY DEF RowsInv, OneRowPerRecord, NoRowTwice
<1> QED
  BY <1>1, <1>2, WidgetInit, RowsInvInit, PTL DEF MediaLibSpec

-----------------------------------------------------------------------------
(* Every record is shown in the end, as long as nothing fails: the events  *)
(* of a transaction that is rolled back stay in the queue.                 *)

\* A row that will stay hangs below rows that will, and all their records are in
\* the table.
LEMMA WayOfLiveRow ==
    ASSUME WidgetInv, LiveRowsAreRecords, NEW h \in DOMAIN rows, ~Doomed(h)
    PROVE  IdsUpTo(h) \subseteq DOMAIN files
<1> SUFFICES ASSUME NEW g \in RowsUpTo(rows, h) PROVE rows[g].id \in DOMAIN files
  BY DEF IdsUpTo, IdsOf
<1>1. g \in DOMAIN rows /\ RowsUpTo(rows, g) \subseteq RowsUpTo(rows, h)
  BY RowIsOnItsWay, RowsUpToAreAbove
<1>2. IdsUpTo(g) \subseteq IdsUpTo(h)
  BY <1>1 DEF IdsUpTo, IdsOf
<1>3. ~Doomed(g)
  BY <1>2 DEF Doomed
<1> QED
  BY <1>1, <1>3 DEF LiveRowsAreRecords

\* The tree goes down the way the table's cascade does.
LEMMA TreeFollowsCascade ==
    ASSUME WidgetInv, LiveRowsAreRecords, NEW h \in DOMAIN rows, ~Doomed(h), NEW x \in IdsUpTo(h)
    PROVE  rows[h].id \in Cascade(files, x)
<1>1. PICK r \in RowsUpTo(rows, h) : rows[r].id = x
  BY DEF IdsUpTo, IdsOf
<1>2. r \in DOMAIN rows /\ h \in RowsFrom(rows, r)
  BY <1>1 DEF RowsUpTo
<1>3. ASSUME NEW S \in SUBSET DOMAIN files, x \in S, ClosedUnderChildren(files, S)
      PROVE  rows[h].id \in S
  <2> DEFINE R == {g \in DOMAIN rows : ~Doomed(g) => rows[g].id \in S}
  <2>1. HoldsRowsBelow(rows, R)
    <3> SUFFICES ASSUME NEW g \in DOMAIN rows, rows[g].above \in R, ~Doomed(g)
                 PROVE  rows[g].id \in S
      BY DEF HoldsRowsBelow
    <3>1. rows[g].above \in DOMAIN rows /\ rows[g].above # TopLevel
      BY DEF WidgetInv, WidgetTypeOK, RecordID, TopLevel
    <3>2. ~Doomed(rows[g].above)
      BY <3>1, IdsUpToAreNear
    <3>3. ParentOf(g) \in S
      BY <3>1, <3>2 DEF ParentOf
    <3>4. rows[g].id \in DOMAIN files /\ files[rows[g].id].parentID = ParentOf(g)
      BY DEF LiveRowsAreRecords
    <3> QED
      BY <1>3, <3>3, <3>4 DEF ClosedUnderChildren
  <2>2. r \in R
    BY <1>1, <1>2, <1>3
  <2>3. h \in R
    <3> HIDE DEF R
    <3>1. R \in SUBSET DOMAIN rows
      BY DEF R
    <3> QED
      BY <1>2, <2>1, <2>2, <3>1 DEF RowsFrom
  <2> QED
    BY <2>3
<1>4. rows[h].id \in DOMAIN files
  BY DEF LiveRowsAreRecords
<1> QED
  BY <1>3, <1>4 DEF Cascade

\* Only a DELETED event can doom a row, and only one of its own way.
LEMMA DoomComesByDeletion ==
    ASSUME ScannerInv, UNCHANGED treeVars, NEW e, events' = Append(events, e),
           NEW h \in DOMAIN rows, Doomed(h)', ~Doomed(h)
    PROVE  \E id \in IdsUpTo(h) : e = Event("DELETED", id)
<1>1. TypeOK
  BY DEF ScannerInv, TransactionInv, RootedInv
<1>2. IdsUpTo(h)' = IdsUpTo(h)
  BY DEF IdsUpTo, IdsOf, treeVars
<1>3. PICK k \in DOMAIN events', id \in IdsUpTo(h) : events'[k] = Event("DELETED", id)
  BY <1>2 DEF Doomed, Queued
<1>4. k \notin DOMAIN events
  BY <1>1, <1>3, NextEventIsLast DEF Doomed, Queued
<1> QED
  BY <1>1, <1>3, <1>4, NextEventIsLast

LEMMA RecordsInvQuiet ==
    ASSUME ScannerInv, RecordsAreShown, ParentsComeFirst, NotDeletedLater,
           UNCHANGED <<treeVars, files, events>>
    PROVE  RecordsAreShown' /\ ParentsComeFirst' /\ NotDeletedLater'
<1> USE DEF treeVars
<1>1. \A i : HasLiveRow(i)' <=> HasLiveRow(i)
  BY DEF HasLiveRow, Doomed, Queued, IdsUpTo, IdsOf
<1>2. RecordsAreShown'
  BY <1>1 DEF RecordsAreShown, Queued
<1>3. ParentsComeFirst'
  BY <1>1 DEF ParentsComeFirst, Queued
<1>4. NotDeletedLater'
  BY DEF NotDeletedLater, Queued
<1> QED
  BY <1>2, <1>3, <1>4

\* An event is appended, and the table written with it.
LEMMA RecordsInvWritten ==
    ASSUME ScannerInv, ScannerInv', WidgetInv, LiveRowsAreRecords,
           RecordsAreShown, ParentsComeFirst, NotDeletedLater,
           UNCHANGED treeVars, Announces \/ Renews \/ Withdraws, Announces => ~Reissues
    PROVE  RecordsAreShown' /\ ParentsComeFirst' /\ NotDeletedLater'
<1> DEFINE n == Len(events) + 1
<1>0. TypeOK /\ IsTable(files) /\ ParentsAreOlder(files')
  BY DEF ScannerInv, TransactionInv, RootedInv, TypeOK, Rooted
<1>1. PICK e : events' = Append(events, e)
  BY DEF Announces, Renews, Withdraws
<1>2. /\ n \in DOMAIN events' /\ events'[n] = e
      /\ \A k \in DOMAIN events : k < n /\ k \in DOMAIN events' /\ events'[k] = events[k]
      /\ \A k \in DOMAIN events' : k \in DOMAIN events \/ k = n
  BY <1>0, <1>1, NextEventIsLast
<1> HIDE DEF n
<1>3. \A type, id : e = Event(type, id) => e.type = type /\ e.id = id
  BY DEF Event
\* Which records there are now, and what is queued about them.
<1>4. ASSUME NEW i \in DOMAIN files', i \notin DOMAIN files
      PROVE  /\ Announces /\ e = Event("ADDED", i)
             /\ \A k \in DOMAIN events : events[k] # Event("ADDED", i)
  <2>1. CASE Announces
    <3>1. e = Event("ADDED", NewRowId(files))
      BY <1>0, <1>1, <1>2, <2>1, NextEventIsLast DEF Announces, n
    <3>2. i = NewRowId(files)
      BY <1>4, <2>1 DEF Announces, InsertRow
    <3>3. Len(events') = n /\ n > Len(events)
      BY <1>0, <1>1, NextEventIsLast DEF n
    <3>4. \A k \in DOMAIN events : events[k] # events'[n]
      BY <1>2, <1>3, <2>1, <3>1, <3>3 DEF Reissues
    <3> QED
      BY <1>2, <2>1, <3>1, <3>2, <3>4
  <2>2. CASE Renews \/ Withdraws
    BY <1>0, <1>4, <2>2 DEF Renews, UpdateRow, IsTable, Withdraws, DeleteRow
  <2> QED
    BY <2>1, <2>2
<1>5. ASSUME NEW i \in DOMAIN files', i \in DOMAIN files
      PROVE  /\ files'[i].parentID = files[i].parentID
             /\ e # Event("ADDED", i) /\ e # Event("DELETED", i)
             /\ \A h \in DOMAIN rows : rows[h].id = i /\ ~Doomed(h) => ~Doomed(h)'
  <2>1. CASE Announces
    <3>1. e = Event("ADDED", NewRowId(files))
      BY <1>0, <1>1, <1>2, <2>1, NextEventIsLast DEF Announces, n
    <3>2. i # NewRowId(files)
      BY <1>0, <1>5, NewRowIdIsFresh DEF IsTable, RecordID
    <3>3. \A h \in DOMAIN rows : ~Doomed(h) => ~Doomed(h)'
      BY <1>1, <1>3, <3>1, DoomComesByDeletion
    <3>4. files'[i] = files[i]
      BY <1>5, <2>1, <3>2 DEF Announces, InsertRow
    <3> QED
      BY <1>3, <3>1, <3>2, <3>3, <3>4
  <2>2. CASE Renews
    <3>1. PICK rec \in Replacing(files) :
             files' = UpdateRow(files, rec[1], rec[2]) /\ events' = Append(events, Event("UPDATED", rec[1]))
      BY <2>2 DEF Renews
    <3>2. e = Event("UPDATED", rec[1])
      BY <1>0, <1>2, <3>1, NextEventIsLast DEF n
    <3>3. rec[1] \in DOMAIN files /\ rec[2].parentID = files[rec[1]].parentID
      BY DEF Replacing
    <3>4. files'[i].parentID = files[i].parentID
      BY <1>0, <1>5, <3>1, <3>3 DEF UpdateRow, IsTable
    <3>5. \A h \in DOMAIN rows : ~Doomed(h) => ~Doomed(h)'
      BY <1>1, <1>3, <3>2, DoomComesByDeletion
    <3> QED
      BY <1>3, <3>2, <3>4, <3>5
  <2>3. CASE Withdraws
    <3>1. PICK x \in RecordID :
             files' = DeleteRow(files, x) /\ events' = Append(events, Event("DELETED", x))
      BY <2>3 DEF Withdraws
    <3>2. e = Event("DELETED", x)
      BY <1>0, <1>2, <3>1, NextEventIsLast DEF n
    <3>3. files'[i] = files[i] /\ (x \in DOMAIN files => i \notin Cascade(files, x))
      BY <1>5, <3>1 DEF DeleteRow
    <3>4. i # x
      BY <1>5, <3>3 DEF Cascade
    <3>5. ASSUME NEW h \in DOMAIN rows, rows[h].id = i, ~Doomed(h) PROVE ~Doomed(h)'
      <4>1. x \notin IdsUpTo(h)
        BY <3>3, <3>5, WayOfLiveRow, TreeFollowsCascade
      <4> QED
        BY <1>1, <1>3, <3>2, <3>5, <4>1, DoomComesByDeletion
    <3> QED
      BY <1>3, <3>2, <3>3, <3>4, <3>5
  <2> QED
    BY <2>1, <2>2, <2>3
<1>6. \A i \in DOMAIN files \cap DOMAIN files' : HasLiveRow(i) => HasLiveRow(i)'
  BY <1>5 DEF HasLiveRow, treeVars
<1>7. \A type, id, k : Queued(k, type, id) => k < n /\ Queued(k, type, id)'
  BY <1>2 DEF Queued
<1>8. RecordsAreShown'
  <2> SUFFICES ASSUME NEW i \in DOMAIN files'
               PROVE  HasLiveRow(i)' \/ \E k \in DOMAIN events' : Queued(k, "ADDED", i)'
    BY DEF RecordsAreShown
  <2>1. CASE i \in DOMAIN files
    BY <1>2, <1>6, <1>7, <2>1 DEF RecordsAreShown
  <2>2. CASE i \notin DOMAIN files
    BY <1>2, <1>4, <2>2 DEF Queued
  <2> QED
    BY <2>1, <2>2
<1>9. ParentsComeFirst'
  <2> SUFFICES ASSUME NEW i \in DOMAIN files', NEW k \in DOMAIN events', NEW p,
                      events'[k] = Event("ADDED", i), p = files'[i].parentID, p # ROOT_RECORD_ID
               PROVE  \/ HasLiveRow(p)'
                      \/ \E j \in DOMAIN events' : j < k /\ Queued(j, "ADDED", p)'
    BY DEF ParentsComeFirst, Queued, HasLiveRow
  <2>1. p \in DOMAIN files'
    BY <1>0 DEF ParentsAreOlder, ParentExists
  <2>2. CASE i \in DOMAIN files
    <3>1. k \in DOMAIN events /\ events[k] = Event("ADDED", i) /\ p = files[i].parentID
      BY <1>2, <1>5, <2>2
    <3>2. HasLiveRow(p) \/ \E j \in DOMAIN events : j < k /\ Queued(j, "ADDED", p)
      BY <2>2, <3>1 DEF ParentsComeFirst, Queued
    <3>3. HasLiveRow(p) => p \in DOMAIN files
      BY DEF HasLiveRow, LiveRowsAreRecords
    <3> QED
      BY <1>2, <1>6, <1>7, <2>1, <3>2, <3>3
  <2>3. CASE i \notin DOMAIN files
    <3>1. k = n /\ Announces
      BY <1>2, <1>4, <2>3
    <3>2. p \in DOMAIN files
      <4>1. p < i /\ i = NewRowId(files)
        BY <1>0, <2>3, <3>1 DEF ParentsAreOlder, Announces, InsertRow
      <4>2. p # i
        BY <1>0, <4>1, NewRowIdIsFresh DEF RecordID
      <4> QED
        BY <2>1, <3>1, <4>1, <4>2 DEF Announces, InsertRow
    <3>3. HasLiveRow(p) \/ \E j \in DOMAIN events : Queued(j, "ADDED", p)
      BY <3>2 DEF RecordsAreShown
    <3> QED
      BY <1>2, <1>6, <1>7, <2>1, <3>1, <3>2, <3>3
  <2> QED
    BY <2>2, <2>3
<1>10. NotDeletedLater'
  <2> SUFFICES ASSUME NEW i \in DOMAIN files', NEW j \in DOMAIN events', NEW k \in DOMAIN events',
                      events'[k] = Event("ADDED", i), events'[j] = Event("DELETED", i)
               PROVE  j < k
    BY DEF NotDeletedLater, Queued
  <2>0. Event("ADDED", i) # Event("DELETED", i)
    BY DEF Event
  <2>1. CASE i \in DOMAIN files
    <3>1. /\ j \in DOMAIN events /\ events[j] = Event("DELETED", i)
          /\ k \in DOMAIN events /\ events[k] = Event("ADDED", i)
      BY <1>2, <1>5, <2>1
    <3> QED
      BY <2>1, <3>1 DEF NotDeletedLater, Queued
  <2>2. CASE i \notin DOMAIN files
    <3>1. k = n /\ j # n
      BY <1>2, <1>4, <2>0, <2>2
    <3> QED
      BY <1>2, <3>1
  <2> QED
    BY <2>1, <2>2
<1> QED
  BY <1>8, <1>9, <1>10

\* A row that will stay is not removed.
LEMMA LiveRowsAreKept ==
    ASSUME ScannerInv, WidgetInv, OneRowPerRecord, RowsAreMapped, HandleEvent,
           NEW h \in DOMAIN rows, ~Doomed(h)
    PROVE  h \in DOMAIN rows' /\ rows'[h] = rows[h] /\ ~Doomed(h)'
<1>0. TypeOK /\ events # <<>> /\ events' = Tail(events)
  BY HandledKinds DEF ScannerInv, TransactionInv, RootedInv
<1>1. h \in DOMAIN rows'
  <2>1. ASSUME NEW id \in RecordID, Removes(id) PROVE h \in DOMAIN rows'
    <3>1. /\ id \in DOMAIN file2row_ /\ file2row_[id] \in DOMAIN rows
          /\ DOMAIN rows' = DOMAIN rows \ RowsFrom(rows, file2row_[id])
      BY <2>1 DEF Removes, Drops
    <3>2. rows[file2row_[id]].id = id
      BY <3>1 DEF WidgetInv, WidgetTypeOK, RecordID, ROOT_RECORD_ID
    <3>3. 1 \in DOMAIN events /\ events[1] = Event("DELETED", id)
      BY <1>0, <2>1, EventsMoveUp DEF Removes
    <3>4. id \notin IdsUpTo(h)
      BY <3>3 DEF Doomed, Queued
    <3>5. file2row_[id] \notin RowsUpTo(rows, h)
      BY <3>2, <3>4 DEF IdsUpTo, IdsOf
    <3> QED
      BY <3>1, <3>5 DEF RowsUpTo
  <2>2. ASSUME NEW id \in RecordID, NEW g, Shows(id, g) PROVE h \in DOMAIN rows'
    BY <2>2 DEF Shows, Appends
  <2>3. UNCHANGED treeVars => h \in DOMAIN rows'
    BY DEF treeVars
  <2> QED
    BY <2>1, <2>2, <2>3, HandledKinds DEF Overlooks, IgnoresDeletion, IgnoresUpdate
<1> QED
  BY <1>1, WaysStay, DoomMovesUp

\* A record whose turn has come is given a row, and one that will stay.
LEMMA HeadIsShown ==
    ASSUME ScannerInv, WidgetInv, RowsInv, ~overtaken, ParentsComeFirst, NotDeletedLater, HandleEvent,
           NEW i \in DOMAIN files, Head(events) = Event("ADDED", i)
    PROVE  HasLiveRow(i)'
<1> DEFINE p == files[i].parentID
<1>0. /\ TypeOK /\ events # <<>> /\ events' = Tail(events)
      /\ OneRowPerRecord /\ RowsAreMapped /\ AddedOnce /\ RowsGoFirst
      /\ i \in RecordID
  BY HandledKinds DEF ScannerInv, TransactionInv, RootedInv, RowsInv, TypeOK, IsTable
<1>1. /\ 1 \in DOMAIN events /\ events[1] = Event("ADDED", i)
      /\ \A k \in DOMAIN events : ~(k < 1)
  <2>1. /\ 1 \in DOMAIN events /\ events[1] = Head(events)
        /\ \A k \in DOMAIN events : k \in Nat /\ 1 <= k
    BY <1>0, EventsMoveUp
  <2> QED
    BY <2>1
<1>2. p # ROOT_RECORD_ID => HasLiveRow(p)
  BY <1>1 DEF ParentsComeFirst, Queued
<1>3. p \in DOMAIN file2row_
  BY <1>0, <1>2 DEF HasLiveRow, RowsAreMapped, WidgetInv, WidgetTypeOK
<1>4. PICK new : Shows(i, new)
  <2>1. \A type, id : Head(events) = Event(type, id) => type = "ADDED" /\ id = i
    BY DEF Event
  <2>2. Head(events).type = "ADDED"
    BY DEF Event
  <2>3. ~Overlooks(i)
    BY <1>3 DEF Overlooks, ScannerInv, Uncommitted
  <2>4. \E id \in RecordID : (\E h : Shows(id, h)) \/ Overlooks(id)
    BY <2>1, <2>2, HandledKinds DEF Removes, IgnoresDeletion, IgnoresUpdate
  <2>5. \A id : (\E h : Shows(id, h)) \/ Overlooks(id) => id = i
    BY <2>1 DEF Shows, Overlooks
  <2> QED
    BY <2>3, <2>4, <2>5
<1>5. new \in DOMAIN rows' /\ rows'[new].id = i /\ new \in RecordID \ DOMAIN rows
  BY <1>0, <1>4, ShownOnce DEF Shows, Appends
<1>6. rows'[new].above = file2row_[p] /\ files = committed
  BY <1>4 DEF Shows, Appends, ScannerInv, Uncommitted
\* The row it hangs below will stay.
<1>7. ASSUME file2row_[p] # TopLevel
      PROVE  LET g == file2row_[p] IN g \in DOMAIN rows /\ ~Doomed(g)
  <2>1. p # ROOT_RECORD_ID
    BY <1>7 DEF WidgetInv, WidgetTypeOK
  <2>2. file2row_[p] \in DOMAIN rows /\ rows[file2row_[p]].id = p
    BY <1>3, <2>1 DEF WidgetInv, WidgetTypeOK
  <2> QED
    BY <1>0, <1>2, <2>1, <2>2 DEF HasLiveRow, OneRowPerRecord
<1>8. IsTree(rows) /\ rows'[new].above \in DOMAIN rows \cup {TopLevel}
  BY <1>6, <1>7 DEF IsTree, WidgetInv, WidgetTypeOK
<1>9. RowsUpTo(rows', new) \subseteq
         {new} \cup (IF file2row_[p] = TopLevel THEN {} ELSE RowsUpTo(rows, file2row_[p]))
  <2>1. DOMAIN rows' = DOMAIN rows \cup {new} /\ \A h \in DOMAIN rows : rows'[h] = rows[h]
    BY <1>4 DEF Shows, Appends
  <2> QED
    BY <1>5, <1>6, <1>8, <2>1, RowsUpToAfterAppend
<1>10. ~Doomed(new)'
  <2> SUFFICES ASSUME Doomed(new)' PROVE FALSE
    OBVIOUS
  <2>1. PICK k \in DOMAIN events', r \in RowsUpTo(rows', new) :
            events'[k] = Event("DELETED", rows'[r].id)
    BY DEF Doomed, Queued, IdsUpTo, IdsOf
  <2>2. CASE r = new
    <3>1. k \in Nat /\ k + 1 \in DOMAIN events /\ events[k + 1] = Event("DELETED", i)
      BY <1>0, <1>5, <2>1, <2>2, EventsMoveUp
    <3>2. k + 1 < 1
      BY <1>1, <3>1 DEF NotDeletedLater, Queued
    <3> QED
      BY <1>1, <3>1, <3>2
  <2>3. CASE r # new
    <3>0. PICK g : g = file2row_[p]
      OBVIOUS
    <3>1. g # TopLevel /\ r \in RowsUpTo(rows, g)
      BY <1>9, <2>3, <3>0
    <3>2. g \in DOMAIN rows /\ ~Doomed(g)
      BY <1>7, <3>0, <3>1
    <3>3. g \in DOMAIN rows' /\ ~Doomed(g)'
      BY <1>0, <3>2, LiveRowsAreKept
    <3>4. r \in DOMAIN rows /\ rows'[r] = rows[r]
      BY <1>4, <3>1, <3>2, RowIsOnItsWay DEF Shows, Appends
    <3>5. rows'[r].id \in IdsUpTo(g)'
      <4>1. rows[r].id \in IdsUpTo(g)
        BY <3>1 DEF IdsUpTo, IdsOf
      <4> QED
        BY <3>2, <3>3, <3>4, <4>1, WaysStay
    <3> QED
      BY <2>1, <3>3, <3>5 DEF Doomed, Queued
  <2> QED
    BY <2>2, <2>3
<1> QED
  BY <1>5, <1>10 DEF HasLiveRow

LEMMA RecordsInvHandled ==
    ASSUME ScannerInv, WidgetInv, RowsInv, ~overtaken,
           RecordsAreShown, ParentsComeFirst, NotDeletedLater, HandleEvent
    PROVE  RecordsAreShown' /\ ParentsComeFirst' /\ NotDeletedLater'
<1>0. /\ TypeOK /\ events # <<>> /\ events' = Tail(events)
      /\ OneRowPerRecord /\ RowsAreMapped /\ UNCHANGED files
      /\ ParentsAreOlder(files)
  BY HandledKinds DEF ScannerInv, TransactionInv, RootedInv, Rooted, RowsInv
<1>1. /\ events[1] = Head(events)
      /\ \A k \in DOMAIN events : k \in Nat /\ (k # 1 => k - 1 \in DOMAIN events' /\ events'[k - 1] = events[k])
      /\ \A k \in DOMAIN events' : k \in Nat /\ k + 1 \in DOMAIN events /\ events'[k] = events[k + 1]
  BY <1>0, EventsMoveUp
<1>2. \A i : HasLiveRow(i) => HasLiveRow(i)'
  BY <1>0, LiveRowsAreKept DEF HasLiveRow
<1>3. ASSUME NEW i \in DOMAIN files, NEW k \in DOMAIN events, events[k] = Event("ADDED", i)
      PROVE  \/ HasLiveRow(i)'
             \/ k # 1 /\ k - 1 \in DOMAIN events' /\ Queued(k - 1, "ADDED", i)'
  <2>1. CASE k = 1
    BY <1>1, <1>3, <2>1, HeadIsShown
  <2>2. CASE k # 1
    BY <1>1, <1>3, <2>2 DEF Queued
  <2> QED
    BY <2>1, <2>2
<1>4. RecordsAreShown'
  <2> SUFFICES ASSUME NEW i \in DOMAIN files
               PROVE  HasLiveRow(i)' \/ \E k \in DOMAIN events' : Queued(k, "ADDED", i)'
    BY <1>0 DEF RecordsAreShown
  <2>1. HasLiveRow(i) \/ \E k \in DOMAIN events : events[k] = Event("ADDED", i)
    BY DEF RecordsAreShown, Queued
  <2> QED
    BY <1>2, <1>3, <2>1
<1>5. ParentsComeFirst'
  <2> SUFFICES ASSUME NEW i \in DOMAIN files, NEW k \in DOMAIN events', NEW p,
                      events'[k] = Event("ADDED", i), p = files[i].parentID, p # ROOT_RECORD_ID
               PROVE  \/ HasLiveRow(p)'
                      \/ \E j \in DOMAIN events' : j < k /\ Queued(j, "ADDED", p)'
    BY <1>0 DEF ParentsComeFirst, Queued, HasLiveRow
  <2>1. p \in DOMAIN files
    BY <1>0 DEF ParentsAreOlder, ParentExists
  <2>2. k \in Nat /\ k + 1 \in DOMAIN events /\ events[k + 1] = Event("ADDED", i)
    BY <1>1
  <2>3. HasLiveRow(p) \/ \E j \in DOMAIN events : j < k + 1 /\ events[j] = Event("ADDED", p)
    BY <2>2 DEF ParentsComeFirst, Queued
  <2>4. ASSUME NEW j \in DOMAIN events, j < k + 1, events[j] = Event("ADDED", p)
        PROVE  HasLiveRow(p)' \/ \E l \in DOMAIN events' : l < k /\ Queued(l, "ADDED", p)'
    <3>1. j - 1 < k
      BY <1>1, <2>2, <2>4
    <3> QED
      BY <1>3, <2>1, <2>4, <3>1
  <2> QED
    BY <1>2, <2>3, <2>4
<1>6. NotDeletedLater'
  <2> SUFFICES ASSUME NEW i \in DOMAIN files, NEW j \in DOMAIN events', NEW k \in DOMAIN events',
                      events'[k] = Event("ADDED", i), events'[j] = Event("DELETED", i)
               PROVE  j < k
    BY <1>0 DEF NotDeletedLater, Queued
  <2>1. j + 1 < k + 1
    BY <1>1 DEF NotDeletedLater, Queued
  <2> QED
    BY <1>1, <2>1
<1> QED
  BY <1>4, <1>5, <1>6

LEMMA RecordsInvStep ==
    ASSUME ScannerInv, WidgetInv, RowsInv, RecordsInv, [MediaLibNext]_allVars
    PROVE  RecordsInv'
<1> SUFFICES ASSUME faults' = 0, ~overtaken' PROVE RecordsAreShown' /\ ParentsComeFirst' /\ NotDeletedLater'
  BY DEF RecordsInv
<1>0. ScannerInv' /\ faults \in Nat
  BY ScannerInvStep DEF ScannerInv, TransactionInv, RootedInv, TypeOK
<1>1. CASE HandleEvent
  <2>1. UNCHANGED <<faults, overtaken>>
    BY <1>1, HandledKinds
  <2> QED
    BY <1>1, <2>1, RecordsInvHandled DEF RecordsInv
<1>2. CASE ~HandleEvent
  <2>1. /\ UNCHANGED treeVars /\ ~overtaken /\ (Announces => ~Reissues)
        /\ Announces \/ Renews \/ Withdraws \/ KeepsQuiet
    BY <1>2, QueueEffect
  <2>2. faults = 0
    BY <1>0, <2>1 DEF Announces, Renews, Withdraws, KeepsQuiet
  <2>3. RecordsAreShown /\ ParentsComeFirst /\ NotDeletedLater /\ LiveRowsAreRecords
    BY <2>1, <2>2 DEF RecordsInv, RowsInv
  <2>4. CASE KeepsQuiet
    BY <2>1, <2>3, <2>4, RecordsInvQuiet DEF KeepsQuiet
  <2>5. CASE Announces \/ Renews \/ Withdraws
    BY <1>0, <2>1, <2>3, <2>5, RecordsInvWritten
  <2> QED
    BY <2>1, <2>4, <2>5
<1> QED
  BY <1>1, <1>2

LEMMA RecordsInvInit == MediaLibInit => RecordsInv
<1> SUFFICES ASSUME MediaLibInit PROVE RecordsInv
  OBVIOUS
<1>1. files = committed /\ events = <<>>
  BY DEF MediaLibInit, Init
<1>2. DOMAIN rows = DOMAIN committed /\ \A h \in DOMAIN rows : rows[h].id = h
  BY DEF MediaLibInit
<1>3. RecordsAreShown
  BY <1>1, <1>2 DEF RecordsAreShown, HasLiveRow, Doomed
<1>4. ParentsComeFirst /\ NotDeletedLater
  BY <1>1 DEF ParentsComeFirst, NotDeletedLater
<1> QED
  BY <1>3, <1>4 DEF RecordsInv

\* Once the queue has been worked off, the rows are the records.
LEMMA QuietTreeIsTable ==
    ASSUME ScannerInv, WidgetInv, RowsInv, RecordsInv, faults = 0
    PROVE  TreeIsTable
<1> SUFFICES ASSUME events = <<>>, ~inTx, ~overtaken PROVE TreeShows(committed)
  BY DEF TreeIsTable
<1>1. files = committed
  BY DEF ScannerInv, Uncommitted
<1>2. \A h : ~Doomed(h)
  BY DEF Doomed
<1>3. \A h \in DOMAIN rows :
         rows[h].id \in DOMAIN committed /\ committed[rows[h].id].parentID = ParentOf(h)
  BY <1>2 DEF RowsInv, LiveRowsAreRecords
<1>4. \A i \in DOMAIN committed : \E h \in DOMAIN rows : rows[h].id = i
  BY <1>1 DEF RecordsInv, RecordsAreShown, HasLiveRow
<1>5. \A g, h \in DOMAIN rows : rows[g].id = rows[h].id => g = h
  BY DEF RowsInv, OneRowPerRecord
<1>6. Cardinality(DOMAIN rows) = Cardinality(DOMAIN committed)
  <2> DEFINE f == [h \in DOMAIN rows |-> rows[h].id]
  <2>1. f \in [DOMAIN rows -> DOMAIN committed]
    BY <1>3
  <2>2. f \in Bijection(DOMAIN rows, DOMAIN committed)
    BY <1>4, <1>5, <2>1 DEF Bijection, Injection, Surjection, IsInjective
  <2>3. ExistsBijection(DOMAIN rows, DOMAIN committed)
    BY <2>2 DEF ExistsBijection
  <2> QED
    BY <2>3, FS_Bijection DEF WidgetInv
<1>7. {<<rows[h].id, ParentOf(h)>> : h \in DOMAIN rows} =
         {<<i, committed[i].parentID>> : i \in DOMAIN committed}
  BY <1>3, <1>4
<1> QED
  BY <1>6, <1>7 DEF TreeShows

\* Until the first call of the scanner's connection fails, the widget shows the table
\* whenever it has worked off the queue: the events, handled one by one when the
\* records they tell of may long have been renewed or deleted, add up to the same rows
\* below the same parents, unless an id was given out again too early.
THEOREM TreeBecomesTable == MediaLibSpec => [](faults = 0 => TreeIsTable)
<1> DEFINE Inv == ScannerInv /\ WidgetInv /\ RowsInv /\ RecordsInv
<1>1. MediaLibInit => Inv
  BY WidgetInit, RowsInvInit, RecordsInvInit
<1>2. Inv /\ [MediaLibNext]_allVars => Inv'
  BY ScannerInvStep, WidgetStep, RowsInvStep, RecordsInvStep
<1>3. Inv => (faults = 0 => TreeIsTable)
  BY QuietTreeIsTable
<1> QED
  BY <1>1, <1>2, <1>3, PTL DEF MediaLibSpec

-----------------------------------------------------------------------------
(* The library.  What is shown of the scanner alone holds of it together    *)
(* with the widget, which asks it to look after rows of a tree that lags    *)
(* behind the table.                                                       *)

\* The widget's steps leave what the scanner works with alone, but for the expanded
\* rows, of which they may notify it.
LEMMA WidgetFlags ==
    ASSUME TypeOK, WidgetInv, UserAtRow \/ Dispatch \/ HandleEvent
    PROVE  /\ continue_ => continue_'
           /\ continue_' => continue_ \/ onChanged
           /\ shouldBreak => shouldBreak'
<1>1. UNCHANGED <<stop_, restart_>>
  BY WidgetLeavesScanner
<1>2. continue_ \in BOOLEAN
  BY DEF TypeOK
<1>3. CASE UserAtRow
  <2>1. continue_' = (continue_ \/ (onChanged /\ ids' # ids))
    BY <1>3 DEF UserAtRow, RowsCollapsed, RowExpanded, NotifyContinue
  <2> QED
    BY <1>1, <1>2, <2>1 DEF shouldBreak
<1>4. CASE Dispatch \/ HandleEvent
  <2>1. continue_' = continue_
    BY <1>4 DEF Dispatch, HandleEvent, vars, flagVars
  <2> QED
    BY <1>1, <2>1 DEF shouldBreak
<1> QED
  BY <1>3, <1>4

LEMMA WidgetKeepsLibrary ==
    ASSUME WorkInv, WidgetInv, UserAtRow \/ Dispatch \/ HandleEvent
    PROVE  /\ WorkInv'
           /\ NamesInv => NamesInv'
           /\ AdditionsInOrder => AdditionsInOrder'
           /\ Unhooked /\ RootsInv => (Unhooked /\ RootsInv)'
           /\ DirectoriesInv => DirectoriesInv'
           /\ MissingInv => MissingInv'
           /\ LeftBehindInv => LeftBehindInv'
<1>a. TypeOK /\ ScannerInv
  BY DEF WorkInv, CourseInv, TransactionInv, RootedInv, ScannerInv
<1>b. UNCHANGED <<files, committed, inTx, clock, disk, down, stop_, restart_, onChanged,
                  pc, initial, roots, hasChanged, todo, dirId, part, changes, entries,
                  oldRecords, dropped, faults>>
  BY <1>a, WidgetLeavesScanner DEF dbVars, tableVars, fsVars, scanVars, histVars
<1>c. /\ Added(part)' = Added(part) /\ Changed(part)' = Changed(part)
      /\ Deleted(part)' = Deleted(part)
      /\ Added(changes)' = Added(changes) /\ Changed(changes)' = Changed(changes)
      /\ Deleted(changes)' = Deleted(changes)
      /\ \A id : RowsBelow(id)' = RowsBelow(id)
  BY <1>b DEF Added, Changed, Deleted, RowsBelow
<1>d. /\ InLoop' = InLoop /\ InRounds' = InRounds /\ InScan' = InScan /\ InWork' = InWork
      /\ InSave' = InSave /\ InScanDir' = InScanDir /\ Staying' = Staying
  BY <1>b, <1>c DEF InLoop, InRounds, InScan, InWork, InSave, InScanDir, Staying
<1>e. shouldBreak => shouldBreak'
  BY <1>a, WidgetFlags
<1>1. WorkInv'
  <2>1. TransactionInv' /\ Course' /\ Uncommitted'
    BY <1>a, WidgetLeavesScanner, ScannerInvKept DEF ScannerInv
  <2>2. NamesKept' /\ DeletionsKnown'
    BY <1>b, <1>c, <1>d DEF WorkInv, CourseInv, NamesKept, DeletionsKnown
  <2>3. Stages' /\ AddedFirst'
    BY <1>b, <1>c, <1>e DEF WorkInv, CourseInv, Stages, AddedFirst
  <2> QED
    BY <2>1, <2>2, <2>3 DEF WorkInv, CourseInv, TransactionInv
<1>n. AdditionsInOrder => AdditionsInOrder'
  BY <1>b, <1>c, <1>d DEF AdditionsInOrder
<1>2. NamesInv => NamesInv'
  <2> SUFFICES ASSUME NamesInv PROVE NamesInv'
    OBVIOUS
  <2>1. UniqueNames(files)' /\ UniqueNames(committed)'
    BY <1>b DEF NamesInv, UniqueNames, Key
  <2>2. NewNames(part.added, files)' /\ NewNames(changes.added, files)'
    BY <1>b DEF NamesInv, NewNames, Key
  <2>3. AdditionsInOrder' /\ OldRecordsWait'
    BY <1>b, <1>c, <1>d, <1>n DEF NamesInv, OldRecordsWait
  <2> QED
    BY <2>1, <2>2, <2>3 DEF NamesInv
<1>3. Unhooked /\ RootsInv => (Unhooked /\ RootsInv)'
  <2> SUFFICES ASSUME Unhooked, RootsInv PROVE Unhooked' /\ RootsInv'
    OBVIOUS
  <2>1. Unhooked'
    BY <1>a, <1>b, <1>d, WidgetFlags DEF Unhooked
  <2>2. /\ Unconfigured' = Unconfigured /\ Undisturbed' = Undisturbed
        /\ InInitialScan' = InInitialScan
    BY <1>b, <1>c DEF Unconfigured, Undisturbed, InInitialScan, Configured
  <2> QED
    BY <1>b, <1>c, <1>d, <2>1, <2>2 DEF RootsInv, Configured
<1>4. DirectoriesInv => DirectoriesInv'
  <2> SUFFICES ASSUME DirectoriesInv PROVE DirectoriesInv'
    OBVIOUS
  <2>1. Kinds' /\ Times'
    BY <1>b, <1>c DEF DirectoriesInv, Kinds, Times, is_directory
  <2>2. ScannedOnce'
    BY <1>b, <1>c, <1>d DEF DirectoriesInv, ScannedOnce, Current, is_directory
  <2> QED
    BY <2>1, <2>2 DEF DirectoriesInv
<1>5. MissingInv => MissingInv'
  <2> SUFFICES ASSUME MissingInv PROVE MissingInv'
    OBVIOUS
  <2>1. DeletionsInOrder' /\ FullScanOfDirectories'
    BY <1>b, <1>c, <1>d DEF MissingInv, DeletionsInOrder, FullScanOfDirectories, dirs
  <2>2. NothingMissing'
    BY <1>b DEF MissingInv, NothingMissing, UpToDate, Wanted, ChildNames, Listing, Exists,
                is_directory, childrenFiles
  <2>3. UpToDateHaveAll' = UpToDateHaveAll
    BY <1>b, <1>d DEF UpToDateHaveAll, Current, Wanted, Listing, Exists, is_directory, HasRow
  <2>4. ChangesHaveAll' = ChangesHaveAll
    BY <1>b, <1>c, <1>d DEF ChangesHaveAll, Current, Wanted, Listing, Exists, is_directory,
                            HasRow, IsAdded
  <2>5. PartHasAll' = PartHasAll
    BY <1>b, <1>c, <1>d DEF PartHasAll, Current, Wanted, Listing, Exists, is_directory, IsAdded
  <2> QED
    BY <1>b, <1>d, <1>e, <2>1, <2>2, <2>3, <2>4, <2>5 DEF MissingInv
<1>6. LeftBehindInv => LeftBehindInv'
  <2> SUFFICES ASSUME LeftBehindInv PROVE LeftBehindInv'
    OBVIOUS
  <2>1. InPlace(files)' /\ InPlace(committed)'
    BY <1>b DEF LeftBehindInv, Places, InPlace
  <2>2. Places'
    BY <1>b, <1>c, <1>d, <2>1 DEF LeftBehindInv, Places, Belongs, Current, is_directory
  <2>3. NothingLeftBehind'
    BY <1>b DEF LeftBehindInv, NothingLeftBehind, UpToDate, Exists, is_directory, childrenFiles
  <2>4. InSave' => \A i \in DOMAIN files' :
                       Current(files[i])' => RowsAccounted(i, dropped \cup Deleted(changes))'
    BY <1>b, <1>c, <1>d DEF LeftBehindInv, Current, is_directory, RowsAccounted, Exists
  <2>5. ChangesAccounted' = ChangesAccounted
    BY <1>b, <1>c DEF ChangesAccounted, Current, is_directory, RowsAccounted, AdditionsExist,
                      Exists
  <2>6. PartAccounted' = PartAccounted
    BY <1>b, <1>c DEF PartAccounted, Current, is_directory, AdditionsExist, Exists
  <2> QED
    BY <1>b, <1>d, <1>e, <2>2, <2>3, <2>4, <2>5, <2>6 DEF LeftBehindInv
<1> QED
  BY <1>1, <1>n, <1>2, <1>3, <1>4, <1>5, <1>6

LEMMA LibraryStep ==
    ASSUME WidgetInv, [MediaLibNext]_allVars
    PROVE  [Next]_vars \/ UserAtRow \/ Dispatch \/ HandleEvent
  BY MediaLibStepKinds DEF ScannerStep, Next

LEMMA LibraryInit == MediaLibInit => WorkInv /\ WidgetInv
<1>1. MediaLibInit => Init
  BY DEF MediaLibInit
<1> QED
  BY <1>1, CourseInit, WidgetInit

LEMMA WorkInvStep ==
    ASSUME WorkInv, WidgetInv, [MediaLibNext]_allVars
    PROVE  (WorkInv /\ WidgetInv)'
<1>1. ScannerInv
  BY DEF WorkInv, CourseInv, ScannerInv
<1>2. WidgetInv'
  BY <1>1, WidgetStep
<1>3. CASE [Next]_vars
  BY <1>2, <1>3, CourseInvStep
<1>4. CASE UserAtRow \/ Dispatch \/ HandleEvent
  BY <1>2, <1>4, WidgetKeepsLibrary
<1> QED
  BY <1>3, <1>4, LibraryStep

\* The rows of the table are connected to the root, save never asks for a row whose
\* parent is gone, and no transaction stays open while the thread waits, also when the
\* widget expands rows of a tree that lags behind the table.
THEOREM ComposedScannerIsSafe ==
    MediaLibSpec => [](TypeOK /\ Rooted /\ NoForeignKeyFailure /\ NoTransactionLeftOpen)
<1>1. WorkInv /\ WidgetInv /\ [MediaLibNext]_allVars => (WorkInv /\ WidgetInv)'
  BY WorkInvStep
<1>2. WorkInv => TypeOK /\ Rooted /\ NoForeignKeyFailure /\ NoTransactionLeftOpen
  BY RootedKeepsForeignKeys DEF WorkInv, TransactionInv, RootedInv
<1> QED
  BY <1>1, <1>2, LibraryInit, PTL DEF MediaLibSpec

\* With the widget, too, the settings name every root directory of the table after an
\* initial scan that nothing interrupts: the widget cannot, since it is not notified.
THEOREM ComposedRootsAreConfigured ==
    ASSUME SteadyRoots
    PROVE  MediaLibSpec => []OnlyConfiguredRoots
<1> DEFINE Inv == WorkInv /\ WidgetInv /\ Unhooked /\ RootsInv
<1>1. MediaLibInit => Inv
  BY LibraryInit, RootsInit DEF MediaLibInit
<1>2. Inv /\ [MediaLibNext]_allVars => Inv'
  <2> SUFFICES ASSUME Inv, [MediaLibNext]_allVars PROVE Inv'
    OBVIOUS
  <2>1. CASE [Next]_vars
    BY <2>1, WorkInvStep, RootsStep
  <2>2. CASE UserAtRow \/ Dispatch \/ HandleEvent
    BY <2>2, WorkInvStep, WidgetKeepsLibrary
  <2> QED
    BY <2>1, <2>2, LibraryStep
<1>3. Inv => OnlyConfiguredRoots
  BY RootsSuffice
<1> QED
  BY <1>1, <1>2, <1>3, PTL DEF MediaLibSpec

\* Nor does a directory come to have two records of one name because of the scans the
\* widget asks for, if everything can always be read.
THEOREM ComposedNamesAreUnique ==
    ASSUME Flaky = {}, \A db \in InitialTables : UniqueNames(db)
    PROVE  MediaLibSpec => []NoDuplicates
<1> DEFINE Inv == WorkInv /\ WidgetInv /\ NamesInv
<1>1. MediaLibInit => Inv
  BY LibraryInit, NamesInit DEF MediaLibInit
<1>2. Inv /\ [MediaLibNext]_allVars => Inv'
  <2> SUFFICES ASSUME Inv, [MediaLibNext]_allVars PROVE Inv'
    OBVIOUS
  <2>1. CASE [Next]_vars
    BY <2>1, WorkInvStep, NamesStep
  <2>2. CASE UserAtRow \/ Dispatch \/ HandleEvent
    BY <2>2, WorkInvStep, WidgetKeepsLibrary
  <2> QED
    BY <2>1, <2>2, LibraryStep
<1>3. Inv => NoDuplicates
  BY NamesSuffice
<1> QED
  BY <1>1, <1>2, <1>3, PTL DEF MediaLibSpec

\* With the widget as it is, expanding and forgetting rows of a tree that lags behind,
\* nothing is missing of a directory whose record is up to date, as long as no id of
\* a deleted expanded row has been given to a song.
THEOREM ComposedNothingIsMissing ==
    ASSUME WellNamed
    PROVE  Sensible /\ NothingMissing /\ MediaLibSpec /\ []ActiveIdsAreDirectories
           => []NothingMissing
<1> DEFINE Inv == WorkInv /\ WidgetInv /\ DirectoriesInv /\ MissingInv
<1>1. Sensible /\ NothingMissing /\ MediaLibInit => Inv
  BY LibraryInit, MissingInit DEF MediaLibInit
<1>2. Inv /\ ActiveIdsAreDirectories /\ [MediaLibNext]_allVars => Inv'
  <2> SUFFICES ASSUME Inv, ActiveIdsAreDirectories, [MediaLibNext]_allVars PROVE Inv'
    OBVIOUS
  <2>1. CASE [Next]_vars
    BY <2>1, WorkInvStep, MissingStep
  <2>2. CASE UserAtRow \/ Dispatch \/ HandleEvent
    BY <2>2, WorkInvStep, WidgetKeepsLibrary
  <2> QED
    BY <2>1, <2>2, LibraryStep
<1>3. Inv => NothingMissing
  BY DEF MissingInv
<1> QED
  BY <1>1, <1>2, <1>3, PTL DEF MediaLibSpec

\* And nothing is left behind, if everything can always be read, but for what an
\* interrupted save was to delete.
THEOREM ComposedNothingIsLeftBehind ==
    ASSUME WellNamed, Flaky = {}
    PROVE  Sensible /\ InPlace(files) /\ NothingLeftBehind /\ MediaLibSpec => []NothingLeftBehind
<1> DEFINE Inv == WorkInv /\ WidgetInv /\ DirectoriesInv /\ AdditionsInOrder /\ LeftBehindInv
<1>1. Sensible /\ InPlace(files) /\ NothingLeftBehind /\ MediaLibInit => Inv
  BY LibraryInit, LeftBehindInit DEF MediaLibInit
<1>2. Inv /\ [MediaLibNext]_allVars => Inv'
  <2> SUFFICES ASSUME Inv, [MediaLibNext]_allVars PROVE Inv'
    OBVIOUS
  <2>1. CASE [Next]_vars
    BY <2>1, WorkInvStep, LeftBehindStep
  <2>2. CASE UserAtRow \/ Dispatch \/ HandleEvent
    BY <2>2, WorkInvStep, WidgetKeepsLibrary
  <2> QED
    BY <2>1, <2>2, LibraryStep
<1>3. Inv => NothingLeftBehind
  BY DEF LeftBehindInv
<1> QED
  BY <1>1, <1>2, <1>3, PTL DEF MediaLibSpec

=============================================================================
