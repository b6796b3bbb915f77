------------------------------ MODULE MediaLib ------------------------------
(***************************************************************************)
(* The scanning thread together with the widget of main_widget.cpp: the    *)
(* tree, the map from records to rows, and the handling of the events the  *)
(* thread has queued.                                                      *)
(*                                                                         *)
(* The widget is the whole of the GUI thread: while onChanged works off    *)
(* the queue, nothing else of the GUI happens.                             *)
(***************************************************************************)
EXTENDS ScanThread

VARIABLES
    rows,       \* the rows of pTreeModel_: [id, above], `above' the row it hangs below
    file2row_,  \* record id -> row
    signal,     \* onChangesDisp_ has been emitted and not yet dispatched
    handling,   \* onChanged is working off the queue
    overtaken   \* history: an id was given out again while an ADDED event of its
                \* former record was still queued

treeVars == <<rows, file2row_>>
widgetVars == <<treeVars, signal, handling, overtaken>>

\* The row reference of the root is made on an empty tree and refers to no row:
\* GTK then takes it for the top level.
TopLevel == 0

\* A set of rows that holds the rows below every row in it.
HoldsRowsBelow(tree, R) == \A g \in DOMAIN tree : tree[g].above \in R => g \in R

\* A row and the rows below it.
RowsFrom(tree, h) ==
    {g \in DOMAIN tree :
        \A R \in SUBSET DOMAIN tree : h \in R /\ HoldsRowsBelow(tree, R) => g \in R}

\* A row and the rows above it.
RowsUpTo(tree, h) == {g \in DOMAIN tree : h \in RowsFrom(tree, g)}

IdsOf(R) == {rows[h].id : h \in R}

\* Rows are numbered by the ids they were made for, as long as there is one for each.
NewRow(id) == Min({h \in id .. id + Cardinality(DOMAIN rows) : h \notin DOMAIN rows})

-----------------------------------------------------------------------------
(* The constructor: fillData, for a tree that shows the table. *)

MediaLibInit ==
    /\ Init
    /\ rows = [i \in DOMAIN committed |-> [id |-> i, above |-> committed[i].parentID]]
    /\ file2row_ = [i \in DOMAIN committed \cup {ROOT_RECORD_ID} |-> i]
    /\ signal = FALSE /\ handling = FALSE /\ overtaken = FALSE

-----------------------------------------------------------------------------
(* onChanged *)

\* fillRow: the row, and an entry in file2row_ unless the record has one.
appendRow(id, above) ==
    LET h == NewRow(id)
    IN  /\ rows' = [g \in DOMAIN rows \cup {h} |->
                       IF g = h THEN [id |-> id, above |-> above] ELSE rows[g]]
        /\ file2row_' = [i \in DOMAIN file2row_ \cup {id} |->
                           IF i \in DOMAIN file2row_ THEN file2row_[i] ELSE h]

\* addRec: the record is read now.  While a transaction is open the shared cache
\* is locked and getFile waits for it.
addRec(id) ==
    /\ ~inTx
    /\ IF id \in DOMAIN committed /\ committed[id].parentID \in DOMAIN file2row_
       THEN appendRow(id, file2row_[committed[id].parentID])
       ELSE UNCHANGED treeVars
    /\ UNCHANGED ids

\* Mutant: the map keeps the rows below.
DelRecKeepingReferences(id) ==
    IF id \in DOMAIN file2row_
    THEN LET gone == RowsFrom(rows, file2row_[id])
         IN  /\ rows' = [h \in DOMAIN rows \ gone |-> rows[h]]
             /\ file2row_' = [i \in DOMAIN file2row_ \ {id} |-> file2row_[i]]
             /\ ids' = ids \ IdsOf(gone)
    ELSE UNCHANGED <<treeVars, ids>>

\* Mutant: the rows below stay expanded.
DelRecKeepingExpanded(id) ==
    IF id \in DOMAIN file2row_
    THEN LET gone == RowsFrom(rows, file2row_[id])
         IN  /\ rows' = [h \in DOMAIN rows \ gone |-> rows[h]]
             /\ file2row_' = [i \in DOMAIN file2row_ \ IdsOf(gone) |-> file2row_[i]]
             /\ ids' = ids \ {id}
    ELSE UNCHANGED <<treeVars, ids>>

\* delRec with onPreDeleteRow, for the row and those below it.
delRec(id) ==
    IF id \in DOMAIN file2row_
    THEN LET gone == RowsFrom(rows, file2row_[id])
         IN  /\ rows' = [h \in DOMAIN rows \ gone |-> rows[h]]
             /\ file2row_' = [i \in DOMAIN file2row_ \ IdsOf(gone) |-> file2row_[i]]
             /\ ids' = ids \ IdsOf(gone)
    ELSE UNCHANGED <<treeVars, ids>>

\* The main loop dispatches the signal.
Dispatch ==
    /\ signal /\ ~handling /\ GuiIsFree
    /\ signal' = FALSE
    /\ handling' = (events # <<>>)
    /\ UNCHANGED <<vars, treeVars, overtaken>>

\* One round of onChanged's loop.  The event stays at the head of the queue until
\* it is handled; that the code pulls it first only shows in superfluous signals.
HandleEvent ==
    /\ handling
    /\ LET e == Head(events)
       IN  CASE e.type = "ADDED"   -> addRec(e.id)
             [] e.type = "DELETED" -> delRec(e.id)
             [] e.type = "UPDATED" -> UNCHANGED <<treeVars, ids>>
    /\ events' = Tail(events)
    /\ handling' = (Tail(events) # <<>>)
    /\ UNCHANGED <<dbVars, fsVars, flagVars, settings, storing, onChanged, pc, scanVars,
                   histVars, boundVars, signal, overtaken>>

-----------------------------------------------------------------------------
(* The user and the scanning thread. *)

\* A row can be expanded if there are rows below it and it is shown itself.
HasRowsBelow(h) == \E g \in DOMAIN rows : rows[g].above = h

IsShown(h) == IdsOf(RowsUpTo(rows, h) \ {h}) \subseteq ids

UserOfTree ==
    /\ ~handling
    /\ \/ \E h \in DOMAIN rows :
             /\ HasRowsBelow(h) /\ IsShown(h)
             /\ IF rows[h].id \in ids
                THEN RowsCollapsed(IdsOf(RowsFrom(rows, h)))
                ELSE RowExpanded(rows[h].id)
       \/ UserStep
    /\ UNCHANGED widgetVars

\* The id just given out is that of an ADDED event still queued.
Reissues ==
    /\ Len(events') > Len(events)
    /\ LET e == events'[Len(events')]
       IN  e.type = "ADDED" /\ \E k \in DOMAIN events : events[k] = e

\* Mutant: the signal is sent once, after the save, and not on every wait.
SignalOnce ==
    /\ ScanStep
    /\ \/ UNCHANGED signal
       \/ pc = "pause" /\ hasChanged /\ events # <<>> /\ signal' = TRUE
    /\ overtaken' = (overtaken \/ Reissues)
    /\ UNCHANGED <<treeVars, handling>>

\* onChangedDisp_(), on every wait and at the end of every round while events
\* are queued; it does not always get dispatched.
ScannerStep ==
    /\ ScanStep
    /\ \/ UNCHANGED signal
       \/ pc = "pause" /\ events # <<>> /\ signal' = TRUE
    /\ overtaken' = (overtaken \/ Reissues)
    /\ UNCHANGED <<treeVars, handling>>

EmitSignal == ScannerStep /\ pc = "pause" /\ events # <<>> /\ signal'

MediaLibNext ==
    \/ ScannerStep
    \/ Dispatch
    \/ HandleEvent
    \/ UserOfTree
    \/ DiskStep /\ UNCHANGED widgetVars

allVars == <<vars, widgetVars>>

MediaLibSpec == MediaLibInit /\ [][MediaLibNext]_allVars

=============================================================================
