----------------------------- MODULE SharedCache -----------------------------
(***************************************************************************)
(* The connections to the library database: the owner's, which writes, and  *)
(* the readers' of the widgets, in one process and on one page cache.       *)
(*                                                                          *)
(* With a shared cache SQLite keeps the connections apart by locks on the   *)
(* table `files' and answers SQLITE_LOCKED when one is taken; the wrappers  *)
(* of sqlite_locked.cpp wait for sqlite3_unlock_notify's callback and try   *)
(* again.  A connection belongs to one thread, and no two of its statements *)
(* are active at a time: every query is run to its end or reset before it   *)
(* returns.  `pc' says where a connection's call is.                        *)
(***************************************************************************)
EXTENDS Naturals, FiniteSets

CONSTANTS
    Owner,      \* the connection of DbOwner
    Readers,    \* those of createReader
    None,       \* no connection
    MaxCalls    \* bound: queries and changes made on each connection

ASSUME SharedCacheAssumption ==
    /\ IsFiniteSet(Readers)
    /\ Owner \notin Readers /\ None \notin Readers /\ Owner # None
    /\ MaxCalls \in Nat

Connections == Readers \cup {Owner}

VARIABLES
    cache, committed,    \* the version of the table in the page cache, and the one committed
    locks,               \* BtShared.pLock: the lock each connection has on the table
    inTrans,             \* Btree.inTrans
    pWriter, pending,    \* BtShared.pWriter and BTS_PENDING
    mutex,               \* BtShared.mutex, when it is held from one action to the next
    autoCommit,          \* sqlite3.autoCommit of the owner
    pBlocking, pUnlock,  \* sqlite3.pBlockingConnection and sqlite3.pUnlockConnection
    fired,               \* UnlockNotification::fired of the call that waits
    pc, stmt,
    seen,                \* the versions a query has read its rows from
    calls

tableVars == <<cache, committed>>
lockVars == <<locks, inTrans, pWriter, pending>>
notifyVars == <<pBlocking, pUnlock, fired>>
callVars == <<pc, stmt, seen, calls>>
vars == <<tableVars, lockVars, mutex, autoCommit, notifyVars, callVars>>

Init ==
    /\ cache = 0 /\ committed = 0
    /\ locks = [c \in Connections |-> "none"] /\ inTrans = [c \in Connections |-> "none"]
    /\ pWriter = None /\ pending = FALSE
    /\ mutex = None
    /\ autoCommit = TRUE
    /\ pBlocking = [c \in Connections |-> None] /\ pUnlock = [c \in Connections |-> None]
    /\ fired = [c \in Connections |-> FALSE]
    /\ pc = [c \in Connections |-> "idle"] /\ stmt = [c \in Connections |-> "none"]
    /\ seen = [c \in Connections |-> {}]
    /\ calls = [c \in Connections |-> 0]

Goto(c, place) == pc' = [pc EXCEPT ![c] = place]

-----------------------------------------------------------------------------
(* Table locks. *)

\* Mutant: a writer does not mind the readers.
WritersAsBlockers(c, lock) ==
    IF inTrans[c] = "none" /\ pending
    THEN {pWriter}
    ELSE {d \in Connections \ {c} : locks[d] = "write"}

\* Who is in the way of `c' when it asks for `lock': while the writer waits for
\* readers to finish no transaction begins, and a lock is compatible with equal
\* ones only.
Blockers(c, lock) ==
    IF inTrans[c] = "none" /\ pending
    THEN {pWriter}
    ELSE {d \in Connections \ {c} : locks[d] \notin {"none", lock}}

\* Mutant: whoever begins a transaction becomes the writer.
EveryTransactionWrites(c, lock) ==
    /\ locks' = [locks EXCEPT ![c] = lock]
    /\ inTrans' = [inTrans EXCEPT ![c] = lock]
    /\ pWriter' = c
    /\ UNCHANGED pending

\* sqlite3BtreeBeginTrans and sqlite3BtreeLockTable, when nobody is in the way.
TakeLock(c, lock) ==
    /\ locks' = [locks EXCEPT ![c] = lock]
    /\ inTrans' = [inTrans EXCEPT ![c] = lock]
    /\ pWriter' = IF lock = "write" THEN c ELSE pWriter
    /\ UNCHANGED pending

nTransaction == Cardinality({c \in Connections : inTrans[c] # "none"})

\* btreeEndTransaction and clearAllSharedCacheTableLocks
EndTransaction(c) ==
    /\ locks' = [locks EXCEPT ![c] = "none"]
    /\ inTrans' = [inTrans EXCEPT ![c] = "none"]
    /\ pWriter' = IF pWriter = c THEN None ELSE pWriter
    /\ pending' = (pending /\ pWriter # c /\ ~(inTrans[c] # "none" /\ nTransaction = 2))

-----------------------------------------------------------------------------
(* Unlock notification. *)

ConnectionBlocked(c, blocker) ==
    /\ pBlocking' = [pBlocking EXCEPT ![c] = blocker]
    /\ UNCHANGED <<pUnlock, fired>>

\* Following who waits for whom from the connection in the way leads back to `c'.
Deadlocked(c) ==
    \A S \in SUBSET Connections :
        pBlocking[c] \in S /\ (\A d \in S : pUnlock[d] \in S \cup {None}) => c \in S

\* Mutant: registers even if the transaction in the way is over.
NotifyWhenOver(c) ==
    /\ pc[c] = "notify"
    /\ pUnlock' = [pUnlock EXCEPT ![c] = pBlocking[c]]
    /\ fired' = [fired EXCEPT ![c] = FALSE]
    /\ Goto(c, IF pBlocking[c] # None /\ Deadlocked(c) THEN "refused" ELSE "wait")
    /\ UNCHANGED <<tableVars, lockVars, mutex, autoCommit, pBlocking, stmt, seen, calls>>

\* sqlite3_unlock_notify, called by wait_for_unlock_notify with `fired' unset.
\* If it finds a deadlock the call fails, which is not followed any further.
Notify(c) ==
    /\ pc[c] = "notify"
    /\ IF pBlocking[c] # None /\ Deadlocked(c)
       THEN Goto(c, "refused") /\ UNCHANGED <<pUnlock, fired>>
       ELSE /\ pUnlock' = [pUnlock EXCEPT ![c] = pBlocking[c]]
            /\ fired' = [fired EXCEPT ![c] = pBlocking[c] = None]
            /\ Goto(c, "wait")
    /\ UNCHANGED <<tableVars, lockVars, mutex, autoCommit, pBlocking, stmt, seen, calls>>

\* The rest of wait_for_unlock_notify; the statement, which has been halted, is
\* reset and stepped again.
Wait(c) ==
    /\ pc[c] = "wait" /\ fired[c]
    /\ Goto(c, "step")
    /\ UNCHANGED <<tableVars, lockVars, mutex, autoCommit, notifyVars, stmt, seen, calls>>

\* Mutant: a registration is not removed when it is answered.
UnlockedStillRegistered(c) ==
    /\ pBlocking' = [d \in Connections |-> IF pBlocking[d] = c THEN None ELSE pBlocking[d]]
    /\ fired' = [d \in Connections |-> fired[d] \/ pUnlock[d] = c]
    /\ UNCHANGED pUnlock

\* sqlite3ConnectionUnlocked
ConnectionUnlocked(c) ==
    LET rest(f) == [d \in Connections |-> IF f[d] = c THEN None ELSE f[d]]
    IN  /\ pBlocking' = rest(pBlocking)
        /\ pUnlock' = rest(pUnlock)
        /\ fired' = [d \in Connections |-> fired[d] \/ pUnlock[d] = c]

\* The end of sqlite3VdbeHalt in autocommit mode, after the locks are released:
\* with the mutex still held if the statement has halted by itself.
Halt(c) ==
    /\ pc[c] \in {"halted", "blocked"}
    /\ ConnectionUnlocked(c)
    /\ mutex' = IF mutex = c THEN None ELSE mutex
    /\ Goto(c, IF pc[c] = "blocked" THEN "notify" ELSE "idle")
    /\ UNCHANGED <<tableVars, lockVars, autoCommit, stmt, seen, calls>>

-----------------------------------------------------------------------------
(* Queries: getFile, childrenFiles and dirs. *)

Query(c) ==
    /\ pc[c] = "idle" /\ (c = Owner => autoCommit)
    /\ calls[c] < MaxCalls
    /\ calls' = [calls EXCEPT ![c] = @ + 1]
    /\ stmt' = [stmt EXCEPT ![c] = "select"]
    /\ seen' = [seen EXCEPT ![c] = {}]
    /\ Goto(c, "step")
    /\ UNCHANGED <<tableVars, lockVars, mutex, autoCommit, notifyVars>>

\* The first sqlite3_step of the query gets its lock, or is halted by SQLITE_LOCKED.
Select(c) ==
    /\ pc[c] = "step" /\ stmt[c] = "select" /\ mutex = None
    /\ IF Blockers(c, "read") = {}
       THEN /\ TakeLock(c, "read")
            /\ Goto(c, "rows")
            /\ UNCHANGED <<mutex, notifyVars>>
       ELSE /\ \E d \in Blockers(c, "read") : ConnectionBlocked(c, d)
            /\ mutex' = c
            /\ Goto(c, "blocked")
            /\ UNCHANGED lockVars
    /\ UNCHANGED <<tableVars, autoCommit, stmt, seen, calls>>

\* A row is read from the page cache.
Fetch(c) ==
    /\ pc[c] = "rows" /\ mutex = None
    /\ seen' = [seen EXCEPT ![c] = @ \cup {cache}]
    /\ UNCHANGED <<tableVars, lockVars, mutex, autoCommit, notifyVars, pc, stmt, calls>>

\* The query finds no more rows, and halts within sqlite3_step.
LastRow(c) ==
    /\ pc[c] = "rows" /\ mutex = None
    /\ seen' = [seen EXCEPT ![c] = @ \cup {cache}]
    /\ EndTransaction(c)
    /\ mutex' = c
    /\ Goto(c, "halted")
    /\ UNCHANGED <<tableVars, autoCommit, notifyVars, stmt, calls>>

\* Mutant: the statement is left as it is until it is used again.
NoReset(c) ==
    /\ pc[c] = "rows" /\ mutex = None /\ seen[c] # {}
    /\ Goto(c, "idle")
    /\ UNCHANGED <<tableVars, lockVars, mutex, autoCommit, notifyVars, stmt, seen, calls>>

\* getFile resets its statement after the first row.
Reset(c) ==
    /\ pc[c] = "rows" /\ mutex = None /\ seen[c] # {}
    /\ EndTransaction(c)
    /\ Goto(c, "halted")
    /\ UNCHANGED <<tableVars, mutex, autoCommit, notifyVars, stmt, seen, calls>>

-----------------------------------------------------------------------------
(* The owner's transactions. *)

\* BEGIN takes no lock.
Begin ==
    /\ pc[Owner] = "idle" /\ autoCommit
    /\ autoCommit' = FALSE
    /\ UNCHANGED <<tableVars, lockVars, mutex, notifyVars, callVars>>

\* addFile, replaceFile or delFile is called.
Change ==
    /\ pc[Owner] = "idle" /\ ~autoCommit
    /\ calls[Owner] < MaxCalls
    /\ calls' = [calls EXCEPT ![Owner] = @ + 1]
    /\ stmt' = [stmt EXCEPT ![Owner] = "write"]
    /\ Goto(Owner, "step")
    /\ UNCHANGED <<tableVars, lockVars, mutex, autoCommit, notifyVars, seen>>

\* The statement changes the table; it is numbered by the call.
Write ==
    /\ pc[Owner] = "step" /\ stmt[Owner] = "write" /\ mutex = None
    /\ Blockers(Owner, "write") = {}
    /\ TakeLock(Owner, "write")
    /\ cache' = calls[Owner]
    /\ Goto(Owner, "idle")
    /\ UNCHANGED <<committed, mutex, autoCommit, notifyVars, stmt, seen, calls>>

\* A reader has the table: the statement is halted, but the transaction stays
\* open, and so does what the owner holds.
WriteBlocked ==
    /\ pc[Owner] = "step" /\ stmt[Owner] = "write" /\ mutex = None
    /\ \E d \in Blockers(Owner, "write") : ConnectionBlocked(Owner, d)
    /\ inTrans' = [inTrans EXCEPT ![Owner] = "write"]
    /\ pWriter' = Owner /\ pending' = TRUE
    /\ Goto(Owner, "notify")
    /\ UNCHANGED <<tableVars, locks, mutex, autoCommit, stmt, seen, calls>>

\* An I/O error or a full disk: SQLite undoes the transaction by itself.
WriteUndone ==
    /\ pc[Owner] = "step" /\ stmt[Owner] = "write" /\ mutex = None
    /\ Blockers(Owner, "write") = {}
    /\ EndTransaction(Owner)
    /\ cache' = committed
    /\ autoCommit' = TRUE
    /\ mutex' = Owner
    /\ Goto(Owner, "halted")
    /\ UNCHANGED <<committed, notifyVars, stmt, seen, calls>>

\* Mutant: nobody is told that the locks are gone.
CommitSilently ==
    /\ pc[Owner] = "idle" /\ ~autoCommit /\ mutex = None
    /\ autoCommit' = TRUE
    /\ committed' = cache
    /\ EndTransaction(Owner)
    /\ UNCHANGED <<cache, mutex, notifyVars, callVars>>

\* COMMIT holds the mutex only while it ends the transaction.
Commit ==
    /\ pc[Owner] = "idle" /\ ~autoCommit /\ mutex = None
    /\ autoCommit' = TRUE
    /\ committed' = cache
    /\ EndTransaction(Owner)
    /\ stmt' = [stmt EXCEPT ![Owner] = "commit"]
    /\ Goto(Owner, "halted")
    /\ UNCHANGED <<cache, mutex, notifyVars, seen, calls>>

Rollback ==
    /\ pc[Owner] = "idle" /\ ~autoCommit /\ mutex = None
    /\ autoCommit' = TRUE
    /\ cache' = committed
    /\ EndTransaction(Owner)
    /\ stmt' = [stmt EXCEPT ![Owner] = "rollback"]
    /\ Goto(Owner, "halted")
    /\ UNCHANGED <<committed, mutex, notifyVars, seen, calls>>

-----------------------------------------------------------------------------
(* Readers come and go with their widgets. *)

\* DbReader::close; sqlite3ConnectionClosed notifies whoever waits.
Close(c) ==
    /\ pc[c] = "idle"
    /\ ConnectionUnlocked(c)
    /\ Goto(c, "closed")
    /\ UNCHANGED <<tableVars, lockVars, mutex, autoCommit, stmt, seen, calls>>

\* DbOwner::createReader
Open(c) ==
    /\ pc[c] = "closed"
    /\ Goto(c, "idle")
    /\ stmt' = [stmt EXCEPT ![c] = "none"]
    /\ UNCHANGED <<tableVars, lockVars, mutex, autoCommit, notifyVars, seen, calls>>

-----------------------------------------------------------------------------
\* What a thread does once it has made a call.
Work(c) ==
    \/ Select(c) \/ Fetch(c) \/ LastRow(c) \/ Reset(c)
    \/ Halt(c) \/ Notify(c) \/ Wait(c)
    \/ c = Owner /\ (Write \/ WriteBlocked \/ WriteUndone)

EndSave == Commit \/ Rollback

Next ==
    \/ \E c \in Connections : Query(c) \/ Work(c)
    \/ Begin \/ Change \/ EndSave
    \/ \E c \in Readers : Close(c) \/ Open(c)

Spec == Init /\ [][Next]_vars

\* The threads run, and save always gets to its commit or rollback.
FairSpec ==
    Spec /\ (\A c \in Connections : WF_vars(Work(c))) /\ WF_vars(EndSave)

=============================================================================
