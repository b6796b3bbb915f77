------------------------ MODULE SharedCacheProperties ------------------------
(***************************************************************************)
(* What the rest of the program relies on when it uses its connections.    *)
(***************************************************************************)
EXTENDS SharedCache

TypeOK ==
    /\ cache \in Nat /\ committed \in Nat
    /\ locks \in [Connections -> {"none", "read", "write"}]
    /\ inTrans \in [Connections -> {"none", "read", "write"}]
    /\ pWriter \in {Owner, None} /\ pending \in BOOLEAN
    /\ mutex \in Connections \cup {None}
    /\ autoCommit \in BOOLEAN
    /\ pBlocking \in [Connections -> Connections \cup {None}]
    /\ pUnlock \in [Connections -> Connections \cup {None}]
    /\ fired \in [Connections -> BOOLEAN]
    /\ pc \in [Connections -> {"idle", "step", "rows", "halted", "blocked", "notify", "wait",
                               "refused", "closed"}]
    /\ stmt \in [Connections -> {"none", "select", "write", "commit", "rollback"}]
    /\ seen \in [Connections -> SUBSET Nat]
    /\ calls \in [Connections -> Nat]

\* d is still to call sqlite3ConnectionUnlocked.
WillUnlock(d) ==
    \/ pc[d] \in {"rows", "halted", "blocked"}
    \/ d = Owner /\ ~autoCommit

\* A thread sleeps in wait_for_unlock_notify only while the connection it is
\* registered with is still to release its locks: the callback is never missed,
\* though the locks are refused, the callback is registered and the locks are
\* released in steps of different threads.
NoLostWakeup ==
    \A c \in Connections :
        pc[c] = "wait" /\ ~fired[c] =>
            pUnlock[c] \in Connections \ {c} /\ WillUnlock(pUnlock[c])

\* sqlite3_unlock_notify never finds a deadlock, so no call of the wrappers
\* returns SQLITE_LOCKED, which nothing in database.cpp handles by a rollback
\* and a retry.
NoCallIsRefused == \A c \in Connections : pc[c] # "refused"

\* A connection between two calls holds nothing, unless the owner is in a
\* transaction: the scanner never waits for a widget that is doing nothing.
IdleHoldsNothing ==
    \A c \in Connections :
        pc[c] \in {"idle", "closed"} /\ (c = Owner => autoCommit)
            => locks[c] = "none" /\ inTrans[c] = "none" /\ pWriter # c

\* Every call returns, the scanner's changes as well as the widget's queries.
CallsReturn == \A c \in Connections : pc[c] = "step" ~> pc[c] \in {"idle", "closed"}

-----------------------------------------------------------------------------
(* The inductive invariant behind them. *)

\* Locks are held only within a query or a transaction, and a write lock by
\* nobody but the owner and with no other lock.
LocksAreHeld ==
    /\ \A c \in Connections :
          /\ locks[c] \in {"none", inTrans[c]}
          /\ inTrans[c] = "read" => pc[c] = "rows"
          /\ inTrans[c] = "write" <=> pWriter = c
          /\ pc[c] = "rows" => locks[c] = "read"
          /\ locks[c] = "write" => \A d \in Connections \ {c} : locks[d] = "none"
    /\ pWriter = Owner => ~autoCommit
    /\ pending => pWriter = Owner

\* What is being called where.
CallsAreInPlace ==
    \A c \in Connections :
        /\ pc[c] \in {"step", "notify", "wait"} =>
              stmt[c] = IF c = Owner /\ ~autoCommit THEN "write" ELSE "select"
        /\ pc[c] \in {"rows", "blocked"} => stmt[c] = "select"
        /\ pc[c] \in {"rows", "blocked", "halted"} => (c = Owner => autoCommit)
        /\ pc[c] = "closed" => c # Owner

\* Who is in the way, and who has been registered with, will tell.
WaitsAreAnswered ==
    \A c \in Connections :
        /\ pBlocking[c] # None => pBlocking[c] # c /\ WillUnlock(pBlocking[c])
        /\ pUnlock[c] # None => pUnlock[c] # c /\ WillUnlock(pUnlock[c])
        /\ pUnlock[c] # None <=> pc[c] = "wait" /\ ~fired[c]

\* What a query has read so far is committed.
RowsAreCommitted ==
    /\ locks[Owner] # "write" => cache = committed
    /\ \A c \in Connections :
          /\ pc[c] = "rows" => seen[c] \subseteq {committed}
          /\ stmt[c] = "select" /\ pc[c] \in {"step", "blocked", "notify", "wait"} => seen[c] = {}
          /\ stmt[c] = "select" /\ pc[c] = "halted" => seen[c] # {}

-----------------------------------------------------------------------------
(* Queries are answered from snapshots. *)

QueryState(c) ==
    IF stmt[c] # "select" \/ pc[c] \in {"idle", "closed"} THEN "none"
    ELSE IF seen[c] = {} THEN "asked"
    ELSE "answered"

Snap == INSTANCE Snapshots
            WITH Versions <- Nat,
                 call <- [c \in Connections |-> QueryState(c)],
                 answer <- seen

\* The connections implement Snapshots: a query is answered from one committed
\* table, though the page cache it reads is the one the owner is changing.
QueriesAreSnapshots == Snap!FairSpec

=============================================================================
