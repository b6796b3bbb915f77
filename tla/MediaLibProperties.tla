------------------------- MODULE MediaLibProperties -------------------------
(***************************************************************************)
(* What the widget is to show, whatever the scanning thread, the file      *)
(* system and the user do meanwhile.                                       *)
(***************************************************************************)
EXTENDS MediaLib

\* The tree is a forest whose rows hang below rows, and the map refers to rows
\* of the tree only: delRec's assert(itRecord->second.is_valid()).
WidgetTypeOK ==
    /\ DOMAIN rows \subseteq RecordID
    /\ \A h \in DOMAIN rows :
          /\ rows[h].id \in RecordID
          /\ rows[h].above \in DOMAIN rows \cup {TopLevel}
    /\ ROOT_RECORD_ID \in DOMAIN file2row_ /\ file2row_[ROOT_RECORD_ID] = TopLevel
    /\ \A i \in DOMAIN file2row_ \ {ROOT_RECORD_ID} :
          file2row_[i] \in DOMAIN rows /\ rows[file2row_[i]].id = i
    /\ signal \in BOOLEAN /\ handling \in BOOLEAN /\ overtaken \in BOOLEAN

\* The record a row hangs below.
ParentOf(h) == IF rows[h].above = TopLevel THEN ROOT_RECORD_ID ELSE rows[rows[h].above].id

TreeShows(db) ==
    /\ {<<rows[h].id, ParentOf(h)>> : h \in DOMAIN rows} =
          {<<i, db[i].parentID>> : i \in DOMAIN db}
    /\ Cardinality(DOMAIN rows) = Cardinality(DOMAIN db)

\* Once the queue is empty and no transaction is open, the tree is the table:
\* the events, applied one by one to records read long after they were written,
\* have added up to the same rows under the same parents.
TreeIsTable == events = <<>> /\ ~inTx /\ ~overtaken => TreeShows(committed)

\* No record has two rows, at any moment: the second could not be deleted.
NoRowTwice ==
    ~overtaken => \A g, h \in DOMAIN rows : rows[g].id = rows[h].id => g = h

\* The thread is never asked to look after a row the widget does not have, even
\* while deletions are only half applied.
ExpandedRowsAreShown == ids \subseteq IdsOf(DOMAIN rows)

-----------------------------------------------------------------------------
(* Progress: the thread and the GUI's main loop are scheduled, a record that  *)
(* can be read is read, and a signal sent again and again gets through.       *)

FairMediaLib ==
    /\ MediaLibSpec
    /\ WF_allVars(ScannerStep)
    /\ WF_allVars(restart /\ UNCHANGED widgetVars)
    /\ SF_allVars(EmitSignal)
    /\ WF_allVars(Dispatch)
    /\ WF_allVars(HandleEvent)

\* Whatever the scanner has done, the widget shows it in the end, although the
\* Dispatcher loses signals (scan_thread.cpp:353).
ViewCatchesUp ==
    <>[](TreeShows(committed) \/ overtaken \/ stop_)

-----------------------------------------------------------------------------
(* What an assertion of the source says; the code does not keep to it.       *)

\* main_widget.cpp:345, assert(false): a DELETED event is about a row of the tree.
DeletedRowsAreKnown ==
    handling /\ Head(events).type = "DELETED" => Head(events).id \in DOMAIN file2row_

=============================================================================
