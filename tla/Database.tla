------------------------------ MODULE Database ------------------------------
(***************************************************************************)
(* The table `files' of database.cpp, the transactions of DbOwner and the  *)
(* prepared statements of StatementCache.                                  *)
(*                                                                         *)
(* A table value is a function from record ids to FileInfo.  `files' is    *)
(* the table as the owning connection sees it, uncommitted changes         *)
(* included; `committed' is the table as every other connection, or the    *)
(* next run of the program, sees it.                                       *)
(***************************************************************************)
EXTENDS Records, FiniteSetsExt

VARIABLES
    files, committed, inTx,
    failed     \* the cached statements whose last execution failed

tableVars == <<files, committed, inTx>>
dbVars == <<tableVars, failed>>

-----------------------------------------------------------------------------
(* StatementCache *)

\* The statements, by the function that owns them.
Statements ==
    {"addFile", "replaceFile", "delFile", "beginTransaction", "commit", "rollback",
     "getFile", "childrenFiles", "dirs"}

\* StatementCache::get resets a cached statement, and sqlite3_reset returns the
\* error of its last execution once more: get throws before it is run again.
Ready(stmt) == stmt \notin failed

\* Running the statement fails; SQLite remembers that until it is reset.
StepFails(stmt) == Ready(stmt) /\ failed' = failed \cup {stmt}

\* get throws the error of the last execution and forgets it.
GetThrows(stmt) == ~Ready(stmt) /\ failed' = failed \ {stmt}

-----------------------------------------------------------------------------
(* SQL statements, as functions of a table value. *)

\* Mutant: the largest id itself.
LastRowId(db) == Max({0} \cup DOMAIN db)

\* "id INTEGER PRIMARY KEY ASC" without AUTOINCREMENT: one more than the
\* largest id in the table, so the id of a deleted last row is handed out again.
NewRowId(db) == Max({0} \cup DOMAIN db) + 1

\* FOREIGN KEY(parent_id) REFERENCES files(id), NULL for the root.
ParentExists(db, rec) == rec.parentID \in DOMAIN db \cup {ROOT_RECORD_ID}

InsertRow(db, rec) ==
    [i \in DOMAIN db \cup {NewRowId(db)} |-> IF i = NewRowId(db) THEN rec ELSE db[i]]

UpdateRow(db, id, rec) == IF id \in DOMAIN db THEN [db EXCEPT ![id] = rec] ELSE db

\* A set of rows that holds the children of every row in it.
ClosedUnderChildren(db, S) == \A i \in DOMAIN db : db[i].parentID \in S => i \in S

\* Mutant: foreign keys not enforced.
NoCascade(db, id) == {id}

\* ON DELETE CASCADE: the row and all its descendants.
Cascade(db, id) ==
    {i \in DOMAIN db :
        \A S \in SUBSET DOMAIN db : id \in S /\ ClosedUnderChildren(db, S) => i \in S}

DeleteRow(db, id) ==
    IF id \in DOMAIN db
    THEN [i \in DOMAIN db \ Cascade(db, id) |-> db[i]]
    ELSE db

\* Mutant: without "OR (parent_id IS NULL AND :parent_id IS NULL)".
ChildrenByEquality(db, id) ==
    {<<i, db[i]>> : i \in {j \in DOMAIN db : db[j].parentID = id /\ id # ROOT_RECORD_ID}}

childrenFiles(db, id) == {<<i, db[i]>> : i \in {j \in DOMAIN db : db[j].parentID = id}}

dirs(db) == {i \in DOMAIN db : db[i].isDir}

-----------------------------------------------------------------------------
(* The operations of DbOwner that succeed. *)

beginTransaction ==
    /\ Ready("beginTransaction") /\ ~inTx
    /\ inTx' = TRUE
    /\ UNCHANGED <<files, committed, failed>>

addFile(rec) ==
    /\ Ready("addFile") /\ ParentExists(files, rec)
    /\ files' = InsertRow(files, rec)
    /\ UNCHANGED <<committed, inTx, failed>>

replaceFile(id, rec) ==
    /\ Ready("replaceFile") /\ (id \in DOMAIN files => ParentExists(files, rec))
    /\ files' = UpdateRow(files, id, rec)
    /\ UNCHANGED <<committed, inTx, failed>>

delFile(id) ==
    /\ Ready("delFile")
    /\ files' = DeleteRow(files, id)
    /\ UNCHANGED <<committed, inTx, failed>>

commit ==
    /\ Ready("commit")
    /\ inTx' = FALSE
    /\ committed' = files
    /\ UNCHANGED <<files, failed>>

\* The transaction is undone, by ROLLBACK or by SQLite itself.
Undo ==
    /\ inTx' = FALSE
    /\ files' = committed
    /\ UNCHANGED committed

\* rollback(), called with `f' in the place of `failed'.  If SQLite has undone the
\* transaction by itself, ROLLBACK is an error, which is only logged.
rollback(f, undone) ==
    /\ Undo
    /\ failed' = IF "rollback" \in f THEN f \ {"rollback"}
                 ELSE IF undone THEN f \cup {"rollback"} ELSE f

-----------------------------------------------------------------------------
(* What a table value always is.  HasMaximum stands for finiteness in the   *)
(* proofs: it is what "one more than the largest id" relies on.             *)

HasMaximum(D) == D = {} \/ \E m \in D : \A i \in D : i <= m

IsTable(db) ==
    /\ db = [i \in DOMAIN db |-> db[i]]
    /\ DOMAIN db \subseteq RecordID
    /\ HasMaximum(DOMAIN db)
    /\ \A i \in DOMAIN db : db[i] \in FileInfo

\* Every row's parent is the root or an older row of the table.
ParentsAreOlder(db) ==
    \A i \in DOMAIN db :
        /\ ParentExists(db, db[i])
        /\ db[i].parentID < i

=============================================================================
