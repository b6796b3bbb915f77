-------------------------- MODULE WidgetInvariants --------------------------
(***************************************************************************)
(* How the tree, the table and the events still queued belong together at  *)
(* any moment: the parts of the inductive invariants behind NoRowTwice and *)
(* TreeIsTable.                                                            *)
(***************************************************************************)
EXTENDS MediaLibProperties

Queued(k, type, id) == k \in DOMAIN events /\ events[k] = Event(type, id)

\* The records of the row and of those above it.
IdsUpTo(h) == IdsOf(RowsUpTo(rows, h))

\* The deletion of the row is queued, or that of a row above it.
Doomed(h) == \E k \in DOMAIN events, id \in IdsUpTo(h) : Queued(k, "DELETED", id)

\* The row that will stay for a record.
HasLiveRow(id) == \E h \in DOMAIN rows : rows[h].id = id /\ ~Doomed(h)

OneRowPerRecord == \A g, h \in DOMAIN rows : rows[g].id = rows[h].id => g = h

\* Every row is found by the id of its record.
RowsAreMapped == \A h \in DOMAIN rows : rows[h].id \in DOMAIN file2row_

\* A record is announced once: the former of its id has been shown before.
AddedOnce ==
    \A j, k \in DOMAIN events : events[j] = events[k] /\ events[k].type = "ADDED" => j = k

\* Before the queue gets to a new record of the same id, the row will be gone.
RowsGoFirst ==
    \A h \in DOMAIN rows, k \in DOMAIN events :
        Queued(k, "ADDED", rows[h].id) =>
            \E j \in DOMAIN events, id \in IdsUpTo(h) :
                j < k /\ Queued(j, "DELETED", id)

\* A row that will stay is that of a record, and hangs below the row of its parent.
LiveRowsAreRecords ==
    \A h \in DOMAIN rows : ~Doomed(h) =>
        \A db \in {files, committed} :
            rows[h].id \in DOMAIN db /\ db[rows[h].id].parentID = ParentOf(h)

RowsInv ==
    ~overtaken =>
        OneRowPerRecord /\ RowsAreMapped /\ AddedOnce /\ RowsGoFirst /\ LiveRowsAreRecords

\* Every record has a row that will stay, or will be given one.
RecordsAreShown ==
    \A i \in DOMAIN files : HasLiveRow(i) \/ \E k \in DOMAIN events : Queued(k, "ADDED", i)

\* The queue gets to a record's parent before it gets to the record.
ParentsComeFirst ==
    \A i \in DOMAIN files, k \in DOMAIN events :
        Queued(k, "ADDED", i) /\ files[i].parentID # ROOT_RECORD_ID =>
            \/ HasLiveRow(files[i].parentID)
            \/ \E j \in DOMAIN events : j < k /\ Queued(j, "ADDED", files[i].parentID)

\* What is deleted after it was announced is not in the table.
NotDeletedLater ==
    \A i \in DOMAIN files, j, k \in DOMAIN events :
        Queued(k, "ADDED", i) /\ Queued(j, "DELETED", i) => j < k

RecordsInv ==
    faults = 0 /\ ~overtaken => RecordsAreShown /\ ParentsComeFirst /\ NotDeletedLater

=============================================================================
