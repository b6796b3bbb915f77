-------------------------- MODULE SharedCacheProofs --------------------------
(***************************************************************************)
(* Proofs about the connections, for any number of readers and of calls.   *)
(***************************************************************************)
EXTENDS SharedCacheProperties, TLAPS

IInv == TypeOK /\ LocksAreHeld /\ CallsAreInPlace /\ WaitsAreAnswered /\ RowsAreCommitted

LEMMA ConnectionFacts ==
    /\ Owner \in Connections /\ None \notin Connections
    /\ \A c \in Connections : c # Owner => c \in Readers
  BY SharedCacheAssumption DEF Connections

LEMMA InitIInv == Init => IInv
<1> SUFFICES ASSUME Init PROVE IInv
  OBVIOUS
<1> USE ConnectionFacts
<1>1. TypeOK
  BY DEF Init, TypeOK
<1>2. LocksAreHeld /\ CallsAreInPlace /\ RowsAreCommitted
  BY DEF Init, LocksAreHeld, CallsAreInPlace, RowsAreCommitted
<1>3. WaitsAreAnswered
  BY DEF Init, WaitsAreAnswered
<1> QED
  BY <1>1, <1>2, <1>3 DEF IInv

-----------------------------------------------------------------------------
(* Waiting: who is in the way will tell, so nobody waits for himself or in  *)
(* a circle.                                                                *)

\* A connection in the way of another one is in a query or a transaction.
LEMMA BlockersWillUnlock ==
    ASSUME IInv, NEW c \in Connections, pc[c] = "step",
           NEW lock \in {"read", "write"}, NEW d \in Blockers(c, lock),
           lock = IF stmt[c] = "select" THEN "read" ELSE "write"
    PROVE  d \in Connections /\ d # c /\ WillUnlock(d)
<1> USE ConnectionFacts DEF IInv, LocksAreHeld
<1>1. CASE inTrans[c] = "none" /\ pending
  <2>1. d = Owner /\ ~autoCommit
    BY <1>1, ConnectionFacts DEF Blockers
  <2>2. c # Owner
    <3> SUFFICES ASSUME c = Owner PROVE FALSE
      OBVIOUS
    <3>1. stmt[c] = "write" /\ inTrans[c] = "none" /\ pWriter = Owner
      BY <1>1, <2>1 DEF CallsAreInPlace
    <3> QED
      BY <3>1, <1>1
  <2> QED
    BY <2>1, <2>2 DEF WillUnlock
<1>2. CASE ~(inTrans[c] = "none" /\ pending)
  <2>1. d \in Connections /\ d # c /\ locks[d] # "none"
    BY <1>2 DEF Blockers
  <2>2. inTrans[d] = "read" => pc[d] = "rows"
    BY <2>1
  <2>3. inTrans[d] = "write" => d = Owner /\ ~autoCommit
    BY <2>1 DEF TypeOK
  <2>4. inTrans[d] \in {"read", "write"}
    BY <2>1 DEF TypeOK
  <2> QED
    BY <2>1, <2>2, <2>3, <2>4 DEF WillUnlock
<1> QED
  BY <1>1, <1>2

\* sqlite3_unlock_notify finds no circle: who is in the way waits for nobody, or
\* for one who waits for nobody.
LEMMA NoCircle ==
    ASSUME IInv, NEW c \in Connections, pc[c] = "notify", pBlocking[c] # None
    PROVE  ~Deadlocked(c)
<1> USE ConnectionFacts DEF IInv, TypeOK
<1> DEFINE d == pBlocking[c]
           e == pUnlock[d]
<1>1. d \in Connections /\ d # c /\ WillUnlock(d)
  BY DEF WaitsAreAnswered
<1>2. CASE e = None
  <2>1. {d} \in SUBSET Connections /\ c \notin {d} /\ d \in {d}
    BY <1>1
  <2>2. \A x \in {d} : pUnlock[x] \in {d} \cup {None}
    BY <1>2
  <2> HIDE DEF d
  <2> QED
    BY <2>1, <2>2 DEF Deadlocked, d
<1>3. CASE e # None
  <2>1. e \in Connections /\ WillUnlock(e) /\ pc[d] = "wait" /\ e # d
    BY <1>1, <1>3 DEF WaitsAreAnswered
  <2>2. d = Owner /\ ~autoCommit
    BY <1>1, <2>1 DEF WillUnlock
  <2>3. pc[e] \in {"rows", "halted", "blocked"}
    BY <2>1, <2>2 DEF WillUnlock
  <2>4. pUnlock[e] = None /\ e # c
    BY <2>1, <2>3 DEF WaitsAreAnswered
  <2>5. {d, e} \in SUBSET Connections /\ c \notin {d, e} /\ d \in {d, e}
    BY <1>1, <2>1, <2>4
  <2>6. \A x \in {d, e} : pUnlock[x] \in {d, e} \cup {None}
    BY <2>4
  <2> HIDE DEF d, e
  <2> QED
    BY <2>5, <2>6 DEF Deadlocked, d
<1> QED
  BY <1>2, <1>3

-----------------------------------------------------------------------------
(* The steps of the locks. *)

\* A transaction that ends leaves its locks, and those of the others alone.
LEMMA EndTransactionKeepsLocks ==
    ASSUME IInv, NEW c \in Connections, EndTransaction(c),
           UNCHANGED autoCommit \/ (c = Owner /\ autoCommit' = TRUE),
           \A d \in Connections \ {c} : pc'[d] = pc[d],
           pc'[c] = "halted"
    PROVE  /\ LocksAreHeld'
           /\ locks' \in [Connections -> {"none", "read", "write"}]
           /\ inTrans' \in [Connections -> {"none", "read", "write"}]
           /\ pWriter' \in {Owner, None} /\ pending' \in BOOLEAN
           /\ locks'[c] = "none"
           /\ \A d \in Connections \ {c} : locks'[d] = locks[d]
<1> USE ConnectionFacts DEF IInv, TypeOK
<1>1. /\ locks' = [locks EXCEPT ![c] = "none"]
      /\ inTrans' = [inTrans EXCEPT ![c] = "none"]
      /\ pWriter' = IF pWriter = c THEN None ELSE pWriter
      /\ pending' => pending /\ pWriter # c
      /\ pending' \in BOOLEAN
  BY DEF EndTransaction
<1>2. /\ locks' \in [Connections -> {"none", "read", "write"}]
      /\ inTrans' \in [Connections -> {"none", "read", "write"}]
      /\ pWriter' \in {Owner, None}
  BY <1>1
<1>3. /\ \A d \in Connections \ {c} : locks'[d] = locks[d] /\ inTrans'[d] = inTrans[d]
      /\ locks'[c] = "none" /\ inTrans'[c] = "none"
  BY <1>1
<1>4. LocksAreHeld'
  BY <1>1, <1>3 DEF LocksAreHeld
<1> QED
  BY <1>1, <1>2, <1>3, <1>4

\* A lock that nobody is in the way of goes with those that are held.
LEMMA TakeLockKeepsLocks ==
    ASSUME IInv, NEW c \in Connections, NEW lock \in {"read", "write"},
           pc[c] = "step", Blockers(c, lock) = {}, TakeLock(c, lock), UNCHANGED autoCommit,
           lock = IF c = Owner /\ ~autoCommit THEN "write" ELSE "read",
           pc' = [pc EXCEPT ![c] = IF lock = "read" THEN "rows" ELSE "idle"]
    PROVE  /\ LocksAreHeld'
           /\ locks' \in [Connections -> {"none", "read", "write"}]
           /\ inTrans' \in [Connections -> {"none", "read", "write"}]
           /\ pWriter' \in {Owner, None} /\ pending' \in BOOLEAN
           /\ locks'[c] = lock
           /\ \A d \in Connections \ {c} : locks'[d] = locks[d] /\ locks[d] \in {"none", lock}
<1> USE ConnectionFacts DEF IInv, TypeOK
<1>1. /\ locks' = [locks EXCEPT ![c] = lock]
      /\ inTrans' = [inTrans EXCEPT ![c] = lock]
      /\ pWriter' = IF lock = "write" THEN c ELSE pWriter
      /\ pending' = pending
  BY DEF TakeLock
<1>2. /\ locks' \in [Connections -> {"none", "read", "write"}]
      /\ inTrans' \in [Connections -> {"none", "read", "write"}]
      /\ pWriter' \in {Owner, None}
  BY <1>1
<1>3. /\ \A d \in Connections \ {c} : /\ locks'[d] = locks[d] /\ inTrans'[d] = inTrans[d]
                                     /\ pc'[d] = pc[d]
      /\ locks'[c] = lock /\ inTrans'[c] = lock /\ pc'[c] = IF lock = "read" THEN "rows" ELSE "idle"
  BY <1>1
<1>4. \A d \in Connections \ {c} : locks[d] \in {"none", lock}
  BY DEF Blockers
<1>5. inTrans[c] # "none" => lock = "write"
  BY DEF LocksAreHeld
<1>6. \A d \in Connections \ {c} : lock = "write" => locks[d] = "none" \/ locks[d] = "write"
  BY <1>4
<1>7. \A d \in Connections : locks[d] = "write" => d = Owner
  BY DEF LocksAreHeld
<1>8. ASSUME NEW d \in Connections
      PROVE  /\ locks'[d] \in {"none", inTrans'[d]}
             /\ inTrans'[d] = "read" => pc'[d] = "rows"
             /\ inTrans'[d] = "write" <=> pWriter' = d
             /\ pc'[d] = "rows" => locks'[d] = "read"
             /\ locks'[d] = "write" => \A e \in Connections \ {d} : locks'[e] = "none"
  <2>1. CASE lock = "read"
    <3>1. \A e \in Connections : locks[e] # "write"
      BY <1>4, <1>7, <2>1 DEF LocksAreHeld
    <3>2. pWriter' = pWriter /\ (c = Owner => pWriter # Owner)
      BY <1>1, <2>1 DEF LocksAreHeld
    <3> QED
      BY <1>3, <2>1, <3>1, <3>2 DEF LocksAreHeld
  <2>2. CASE lock = "write"
    <3>1. c = Owner /\ ~autoCommit /\ pWriter' = Owner
      BY <1>1, <2>2
    <3>2. \A e \in Connections \ {Owner} : locks[e] = "none"
      BY <1>6, <1>7, <2>2, <3>1
    <3> QED
      BY <1>3, <2>2, <3>1, <3>2 DEF LocksAreHeld
  <2> QED
    BY <2>1, <2>2
<1>9. LocksAreHeld'
  BY <1>1, <1>8 DEF LocksAreHeld
<1> QED
  BY <1>1, <1>2, <1>3, <1>4, <1>9

\* As long as nobody stops being about to tell, and nobody begins or ends
\* waiting, everybody who waits is told.
LEMMA WaitsStayAnswered ==
    ASSUME WaitsAreAnswered, UNCHANGED notifyVars,
           \A d \in Connections : WillUnlock(d) => WillUnlock(d)',
           \A d \in Connections : pc'[d] = "wait" <=> pc[d] = "wait",
           TypeOK
    PROVE  WaitsAreAnswered'
  BY ConnectionFacts DEF WaitsAreAnswered, notifyVars, TypeOK

-----------------------------------------------------------------------------
(* Every step keeps the invariant. *)

LEMMA QueryStep ==
    ASSUME IInv, NEW c \in Connections, Query(c)
    PROVE  IInv'
<1> USE ConnectionFacts DEF IInv, Query, Goto, TypeOK, tableVars, lockVars
<1>1. TypeOK'
  BY DEF notifyVars
<1>2. LocksAreHeld'
  BY DEF LocksAreHeld
<1>3. CallsAreInPlace'
  BY DEF CallsAreInPlace
<1>4. WaitsAreAnswered'
  BY WaitsStayAnswered DEF WillUnlock
<1>5. RowsAreCommitted'
  BY DEF RowsAreCommitted
<1> QED
  BY <1>1, <1>2, <1>3, <1>4, <1>5

LEMMA SelectStep ==
    ASSUME IInv, NEW c \in Connections, Select(c)
    PROVE  IInv'
<1> USE ConnectionFacts DEF IInv, Goto, TypeOK
<1>0. /\ pc[c] = "step" /\ stmt[c] = "select" /\ (c = Owner => autoCommit)
      /\ UNCHANGED <<cache, committed, autoCommit, stmt, seen, calls>>
  BY DEF Select, CallsAreInPlace, tableVars
<1>1. CASE Blockers(c, "read") = {}
  <2>1. /\ TakeLock(c, "read") /\ pc' = [pc EXCEPT ![c] = "rows"]
        /\ UNCHANGED <<mutex, notifyVars>>
    BY <1>1 DEF Select
  <2>2. /\ LocksAreHeld'
        /\ locks' \in [Connections -> {"none", "read", "write"}]
        /\ inTrans' \in [Connections -> {"none", "read", "write"}]
        /\ pWriter' \in {Owner, None} /\ pending' \in BOOLEAN
        /\ locks'[c] = "read"
        /\ \A d \in Connections \ {c} : locks'[d] = locks[d] /\ locks[d] \in {"none", "read"}
    BY <1>0, <1>1, <2>1, TakeLockKeepsLocks
  <2>3. TypeOK'
    BY <1>0, <2>1, <2>2 DEF notifyVars
  <2>4. CallsAreInPlace'
    BY <1>0, <2>1 DEF CallsAreInPlace
  <2>5. WaitsAreAnswered'
    BY <1>0, <2>1, WaitsStayAnswered DEF WillUnlock
  <2>6. cache = committed
    BY <1>0, <2>2 DEF RowsAreCommitted, LocksAreHeld
  <2>7. RowsAreCommitted'
    BY <1>0, <2>1, <2>6 DEF RowsAreCommitted
  <2> QED
    BY <2>2, <2>3, <2>4, <2>5, <2>7
<1>2. CASE Blockers(c, "read") # {}
  <2>1. PICK d \in Blockers(c, "read") : ConnectionBlocked(c, d)
    BY <1>2 DEF Select
  <2>2. /\ mutex' = c /\ pc' = [pc EXCEPT ![c] = "blocked"]
        /\ UNCHANGED <<locks, inTrans, pWriter, pending>>
        /\ pBlocking' = [pBlocking EXCEPT ![c] = d] /\ UNCHANGED <<pUnlock, fired>>
    BY <1>2, <2>1 DEF Select, lockVars, ConnectionBlocked
  <2>3. d \in Connections /\ d # c /\ WillUnlock(d)
    BY <1>0, BlockersWillUnlock
  <2>4. TypeOK'
    BY <1>0, <2>2, <2>3
  <2>5. LocksAreHeld'
    BY <1>0, <2>2 DEF LocksAreHeld
  <2>6. CallsAreInPlace'
    BY <1>0, <2>2 DEF CallsAreInPlace
  <2>7. WaitsAreAnswered'
    <3>1. \A e \in Connections : WillUnlock(e) => WillUnlock(e)'
      BY <1>0, <2>2 DEF WillUnlock
    <3> QED
      BY <1>0, <2>2, <2>3, <3>1 DEF WaitsAreAnswered
  <2>8. RowsAreCommitted'
    BY <1>0, <2>2 DEF RowsAreCommitted
  <2> QED
    BY <2>4, <2>5, <2>6, <2>7, <2>8
<1> QED
  BY <1>1, <1>2

LEMMA FetchStep ==
    ASSUME IInv, NEW c \in Connections, Fetch(c)
    PROVE  IInv'
<1> USE ConnectionFacts DEF IInv, Fetch, TypeOK, tableVars, lockVars
<1>1. TypeOK'
  BY DEF notifyVars
<1>2. LocksAreHeld' /\ CallsAreInPlace'
  BY DEF LocksAreHeld, CallsAreInPlace
<1>3. WaitsAreAnswered'
  BY WaitsStayAnswered DEF WillUnlock
<1>4. cache = committed
  BY DEF LocksAreHeld, RowsAreCommitted
<1>5. RowsAreCommitted'
  BY <1>4 DEF RowsAreCommitted
<1> QED
  BY <1>1, <1>2, <1>3, <1>5

LEMMA QueryEndStep ==
    ASSUME IInv, NEW c \in Connections, LastRow(c) \/ Reset(c)
    PROVE  IInv'
<1> USE ConnectionFacts DEF IInv, Goto, TypeOK
<1>0. /\ pc[c] = "rows" /\ stmt[c] = "select" /\ (c = Owner => autoCommit)
      /\ locks[c] = "read" /\ locks[Owner] # "write" /\ cache = committed
      /\ UNCHANGED <<cache, committed, autoCommit, stmt, calls, pBlocking, pUnlock, fired>>
      /\ mutex' \in {mutex, c} /\ pc' = [pc EXCEPT ![c] = "halted"]
      /\ EndTransaction(c)
    BY DEF LastRow, Reset, CallsAreInPlace, LocksAreHeld, RowsAreCommitted, tableVars, notifyVars
<1>1. /\ seen'[c] # {} /\ seen' \in [Connections -> SUBSET Nat]
      /\ \A d \in Connections \ {c} : seen'[d] = seen[d]
  <2>1. CASE LastRow(c)
    <3>1. seen' = [seen EXCEPT ![c] = @ \cup {cache}]
      BY <2>1 DEF LastRow
    <3>2. seen[c] \cup {cache} \in SUBSET Nat /\ seen[c] \cup {cache} # {}
      OBVIOUS
    <3> QED
      BY <3>1, <3>2
  <2>2. CASE Reset(c)
    BY <2>2 DEF Reset
  <2> QED
    BY <2>1, <2>2
<1>2. /\ LocksAreHeld'
      /\ locks' \in [Connections -> {"none", "read", "write"}]
      /\ inTrans' \in [Connections -> {"none", "read", "write"}]
      /\ pWriter' \in {Owner, None} /\ pending' \in BOOLEAN
      /\ locks'[c] = "none"
      /\ \A d \in Connections \ {c} : locks'[d] = locks[d]
  BY <1>0, EndTransactionKeepsLocks
<1>3. TypeOK'
  BY <1>0, <1>1, <1>2
<1>4. CallsAreInPlace'
  BY <1>0 DEF CallsAreInPlace
<1>5. WaitsAreAnswered'
  BY <1>0, WaitsStayAnswered DEF WillUnlock, notifyVars
<1>6. RowsAreCommitted'
  BY <1>0, <1>1 DEF RowsAreCommitted
<1> QED
  BY <1>2, <1>3, <1>4, <1>5, <1>6

LEMMA NotifyStep ==
    ASSUME IInv, NEW c \in Connections, Notify(c)
    PROVE  IInv'
<1> USE ConnectionFacts DEF IInv, Goto, TypeOK
<1>0. /\ pc[c] = "notify"
      /\ UNCHANGED <<cache, committed, locks, inTrans, pWriter, pending, mutex, autoCommit,
                     pBlocking, stmt, seen, calls>>
  BY DEF Notify, tableVars, lockVars
<1>1. pBlocking[c] = None \/ ~Deadlocked(c)
  BY <1>0, NoCircle
<1>2. /\ pUnlock' = [pUnlock EXCEPT ![c] = pBlocking[c]]
      /\ fired' = [fired EXCEPT ![c] = pBlocking[c] = None]
      /\ pc' = [pc EXCEPT ![c] = "wait"]
  BY <1>1 DEF Notify
<1>3. /\ \A d \in Connections \ {c} : /\ pUnlock'[d] = pUnlock[d] /\ fired'[d] = fired[d]
                                     /\ pc'[d] = pc[d]
      /\ pUnlock'[c] = pBlocking[c] /\ fired'[c] = (pBlocking[c] = None) /\ pc'[c] = "wait"
  BY <1>2
<1>4. TypeOK'
  BY <1>0, <1>2
<1>5. LocksAreHeld'
  BY <1>0, <1>2 DEF LocksAreHeld
<1>6. CallsAreInPlace'
  BY <1>0, <1>2 DEF CallsAreInPlace
<1>7. WaitsAreAnswered'
  <2>1. \A d \in Connections : WillUnlock(d) => WillUnlock(d)'
    BY <1>0, <1>2 DEF WillUnlock
  <2>2. ASSUME NEW d \in Connections
        PROVE  /\ pBlocking'[d] # None => pBlocking'[d] # d /\ WillUnlock(pBlocking[d])'
               /\ pUnlock'[d] # None => pUnlock'[d] # d /\ WillUnlock(pUnlock[d])'
               /\ pUnlock'[d] # None <=> pc'[d] = "wait" /\ ~fired'[d]
    <3>1. CASE d = c
      <4>1. pBlocking[c] # None => pBlocking[c] # c /\ WillUnlock(pBlocking[c])
        BY DEF WaitsAreAnswered
      <4>2. pBlocking[c] # None => pBlocking[c] \in Connections
        OBVIOUS
      <4>3. pBlocking[c] # None => WillUnlock(pBlocking[c])'
        BY <2>1, <4>1, <4>2, <1>0
      <4>4. pUnlock'[c] # None <=> pc'[c] = "wait" /\ ~fired'[c]
        BY <1>3
      <4>5. pUnlock[c]' = pBlocking[c]
        BY <1>3
      <4>6. pUnlock'[c] # None => pUnlock'[c] # c /\ WillUnlock(pUnlock[c])'
        BY <4>1, <4>3, <4>5, <1>0 DEF WillUnlock
      <4>7. pBlocking'[c] # None => pBlocking'[c] # c /\ WillUnlock(pBlocking[c])'
        BY <1>0, <4>1, <4>3
      <4> QED
        BY <3>1, <4>4, <4>6, <4>7
    <3>2. CASE d # c
      BY <1>0, <1>3, <2>1, <3>2 DEF WaitsAreAnswered
    <3> QED
      BY <3>1, <3>2
  <2> QED
    BY <2>2 DEF WaitsAreAnswered
<1>8. RowsAreCommitted'
  BY <1>0, <1>3 DEF RowsAreCommitted
<1> QED
  BY <1>4, <1>5, <1>6, <1>7, <1>8

LEMMA WaitStep ==
    ASSUME IInv, NEW c \in Connections, Wait(c)
    PROVE  IInv'
<1> USE ConnectionFacts DEF IInv, Goto, TypeOK
<1>0. /\ pc[c] = "wait" /\ fired[c] /\ pc' = [pc EXCEPT ![c] = "step"]
      /\ UNCHANGED <<cache, committed, locks, inTrans, pWriter, pending, mutex, autoCommit,
                     pBlocking, pUnlock, fired, stmt, seen, calls>>
  BY DEF Wait, tableVars, lockVars, notifyVars
<1>1. TypeOK'
  BY <1>0
<1>2. LocksAreHeld' /\ CallsAreInPlace'
  BY <1>0 DEF LocksAreHeld, CallsAreInPlace
<1>3. WaitsAreAnswered'
  <2>1. \A d \in Connections : WillUnlock(d) => WillUnlock(d)'
    BY <1>0 DEF WillUnlock
  <2>2. \A d \in Connections : pc'[d] = "wait" /\ ~fired[d] <=> pc[d] = "wait" /\ ~fired[d]
    BY <1>0
  <2> QED
    BY <1>0, <2>1, <2>2 DEF WaitsAreAnswered
<1>4. RowsAreCommitted'
  BY <1>0 DEF RowsAreCommitted
<1> QED
  BY <1>1, <1>2, <1>3, <1>4

\* Whoever waited for a connection is told: it is no longer waited for.
LEMMA UnlockedTellsAll ==
    ASSUME IInv, NEW c \in Connections, ConnectionUnlocked(c), pc[c] # "wait",
           pc'[c] # "wait", UNCHANGED autoCommit,
           \A d \in Connections \ {c} : pc'[d] = pc[d]
    PROVE  /\ WaitsAreAnswered'
           /\ pBlocking' \in [Connections -> Connections \cup {None}]
           /\ pUnlock' \in [Connections -> Connections \cup {None}]
           /\ fired' \in [Connections -> BOOLEAN]
<1> USE ConnectionFacts DEF IInv, TypeOK
<1>1. /\ pBlocking' = [d \in Connections |-> IF pBlocking[d] = c THEN None ELSE pBlocking[d]]
      /\ pUnlock' = [d \in Connections |-> IF pUnlock[d] = c THEN None ELSE pUnlock[d]]
      /\ fired' = [d \in Connections |-> fired[d] \/ pUnlock[d] = c]
  BY DEF ConnectionUnlocked
<1>2. \A d \in Connections \ {c} : WillUnlock(d) => WillUnlock(d)'
  BY DEF WillUnlock
<1>3. /\ pBlocking' \in [Connections -> Connections \cup {None}]
      /\ pUnlock' \in [Connections -> Connections \cup {None}]
      /\ fired' \in [Connections -> BOOLEAN]
  BY <1>1
<1>4. ASSUME NEW d \in Connections
      PROVE  /\ pBlocking'[d] # None => pBlocking'[d] # d /\ WillUnlock(pBlocking[d])'
             /\ pUnlock'[d] # None => pUnlock'[d] # d /\ WillUnlock(pUnlock[d])'
             /\ pUnlock'[d] # None <=> pc'[d] = "wait" /\ ~fired'[d]
  <2>1. /\ pBlocking'[d] # None => pBlocking'[d] = pBlocking[d] /\ pBlocking[d] # c
        /\ pUnlock'[d] # None => pUnlock'[d] = pUnlock[d] /\ pUnlock[d] # c
    BY <1>1
  <2>2. /\ pBlocking'[d] # None => pBlocking'[d] # d /\ WillUnlock(pBlocking[d])'
        /\ pUnlock'[d] # None => pUnlock'[d] # d /\ WillUnlock(pUnlock[d])'
    BY <1>2, <2>1 DEF WaitsAreAnswered
  <2>3. pUnlock'[d] # None <=> pc'[d] = "wait" /\ ~fired'[d]
    <3>1. pc'[d] = "wait" <=> pc[d] = "wait"
      OBVIOUS
    <3>2. pUnlock[d] # None <=> pc[d] = "wait" /\ ~fired[d]
      BY DEF WaitsAreAnswered
    <3>3. pUnlock'[d] = IF pUnlock[d] = c THEN None ELSE pUnlock[d]
      BY <1>1
    <3>4. fired'[d] = (fired[d] \/ pUnlock[d] = c)
      BY <1>1
    <3> QED
      BY <3>1, <3>2, <3>3, <3>4
  <2> QED
    BY <2>2, <2>3
<1> QED
  BY <1>3, <1>4 DEF WaitsAreAnswered

LEMMA HaltStep ==
    ASSUME IInv, NEW c \in Connections, Halt(c)
    PROVE  IInv'
<1> USE ConnectionFacts DEF IInv, Goto, TypeOK
<1>0. /\ pc[c] \in {"halted", "blocked"} /\ ConnectionUnlocked(c)
      /\ pc' = [pc EXCEPT ![c] = IF pc[c] = "blocked" THEN "notify" ELSE "idle"]
      /\ mutex' \in {mutex, None}
      /\ UNCHANGED <<cache, committed, locks, inTrans, pWriter, pending, autoCommit,
                     stmt, seen, calls>>
  BY DEF Halt, tableVars, lockVars
<1>1. /\ WaitsAreAnswered'
      /\ pBlocking' \in [Connections -> Connections \cup {None}]
      /\ pUnlock' \in [Connections -> Connections \cup {None}]
      /\ fired' \in [Connections -> BOOLEAN]
  BY <1>0, UnlockedTellsAll
<1>2. TypeOK'
  BY <1>0, <1>1
<1>3. LocksAreHeld'
  BY <1>0 DEF LocksAreHeld
<1>4. CallsAreInPlace'
  BY <1>0 DEF CallsAreInPlace
<1>5. RowsAreCommitted'
  BY <1>0 DEF RowsAreCommitted
<1> QED
  BY <1>1, <1>2, <1>3, <1>4, <1>5

LEMMA ReaderStep ==
    ASSUME IInv, NEW c \in Readers, Close(c) \/ Open(c)
    PROVE  IInv'
<1> USE ConnectionFacts DEF IInv, Goto, TypeOK
<1>0. c \in Connections /\ c # Owner
  BY SharedCacheAssumption DEF Connections
<1>1. CASE Close(c)
  <2>0. /\ pc[c] = "idle" /\ ConnectionUnlocked(c) /\ pc' = [pc EXCEPT ![c] = "closed"]
        /\ UNCHANGED <<cache, committed, locks, inTrans, pWriter, pending, mutex, autoCommit,
                       stmt, seen, calls>>
    BY <1>1 DEF Close, tableVars, lockVars
  <2>1. /\ WaitsAreAnswered'
        /\ pBlocking' \in [Connections -> Connections \cup {None}]
        /\ pUnlock' \in [Connections -> Connections \cup {None}]
        /\ fired' \in [Connections -> BOOLEAN]
    BY <1>0, <2>0, UnlockedTellsAll
  <2>2. TypeOK'
    BY <1>0, <2>0, <2>1
  <2>3. LocksAreHeld' /\ CallsAreInPlace' /\ RowsAreCommitted'
    BY <1>0, <2>0 DEF LocksAreHeld, CallsAreInPlace, RowsAreCommitted
  <2> QED
    BY <2>1, <2>2, <2>3
<1>2. CASE Open(c)
  <2>0. /\ pc[c] = "closed" /\ pc' = [pc EXCEPT ![c] = "idle"]
        /\ stmt' = [stmt EXCEPT ![c] = "none"]
        /\ UNCHANGED <<cache, committed, locks, inTrans, pWriter, pending, mutex, autoCommit,
                       pBlocking, pUnlock, fired, seen, calls>>
    BY <1>2 DEF Open, tableVars, lockVars, notifyVars
  <2>1. TypeOK'
    BY <1>0, <2>0
  <2>2. LocksAreHeld' /\ CallsAreInPlace' /\ RowsAreCommitted'
    BY <1>0, <2>0 DEF LocksAreHeld, CallsAreInPlace, RowsAreCommitted
  <2>3. WaitsAreAnswered'
    BY <1>0, <2>0, WaitsStayAnswered DEF WillUnlock, notifyVars
  <2> QED
    BY <2>1, <2>2, <2>3
<1> QED
  BY <1>1, <1>2

LEMMA BeginStep ==
    ASSUME IInv, Begin \/ Change
    PROVE  IInv'
<1> USE ConnectionFacts DEF IInv, Goto, TypeOK
<1>0. /\ pc[Owner] = "idle" /\ autoCommit' = FALSE
      /\ \/ UNCHANGED <<pc, stmt, calls>>
         \/ /\ pc' = [pc EXCEPT ![Owner] = "step"] /\ stmt' = [stmt EXCEPT ![Owner] = "write"]
            /\ calls' = [calls EXCEPT ![Owner] = @ + 1]
      /\ UNCHANGED <<cache, committed, locks, inTrans, pWriter, pending, mutex,
                     pBlocking, pUnlock, fired, seen>>
  BY DEF Begin, Change, tableVars, lockVars, notifyVars, callVars
<1>1. TypeOK'
  <2>1. /\ pc' \in [Connections -> {"idle", "step", "rows", "halted", "blocked", "notify", "wait",
                                  "refused", "closed"}]
        /\ stmt' \in [Connections -> {"none", "select", "write", "commit", "rollback"}]
        /\ calls' \in [Connections -> Nat]
    BY <1>0
  <2> QED
    BY <1>0, <2>1
<1>2. LocksAreHeld' /\ CallsAreInPlace'
  BY <1>0 DEF LocksAreHeld, CallsAreInPlace
<1>3. WaitsAreAnswered'
  BY <1>0, WaitsStayAnswered DEF WillUnlock, notifyVars
<1>4. RowsAreCommitted'
  BY <1>0 DEF RowsAreCommitted
<1> QED
  BY <1>1, <1>2, <1>3, <1>4

LEMMA WriteStep ==
    ASSUME IInv, Write
    PROVE  IInv'
<1> USE ConnectionFacts DEF IInv, Goto, TypeOK
<1>0. /\ pc[Owner] = "step" /\ stmt[Owner] = "write" /\ ~autoCommit
      /\ Blockers(Owner, "write") = {} /\ TakeLock(Owner, "write")
      /\ cache' = calls[Owner] /\ pc' = [pc EXCEPT ![Owner] = "idle"]
      /\ UNCHANGED <<committed, mutex, autoCommit, pBlocking, pUnlock, fired, stmt, seen, calls>>
  BY DEF Write, CallsAreInPlace, notifyVars
<1>1. /\ LocksAreHeld'
      /\ locks' \in [Connections -> {"none", "read", "write"}]
      /\ inTrans' \in [Connections -> {"none", "read", "write"}]
      /\ pWriter' \in {Owner, None} /\ pending' \in BOOLEAN
      /\ locks'[Owner] = "write"
  BY <1>0, TakeLockKeepsLocks
<1>2. TypeOK'
  BY <1>0, <1>1
<1>3. CallsAreInPlace'
  BY <1>0 DEF CallsAreInPlace
<1>4. WaitsAreAnswered'
  BY <1>0, WaitsStayAnswered DEF WillUnlock, notifyVars
<1>5. RowsAreCommitted'
  BY <1>0, <1>1 DEF RowsAreCommitted
<1> QED
  BY <1>1, <1>2, <1>3, <1>4, <1>5

LEMMA WriteBlockedStep ==
    ASSUME IInv, WriteBlocked
    PROVE  IInv'
<1> USE ConnectionFacts DEF IInv, Goto, TypeOK
<1>1. PICK d \in Blockers(Owner, "write") : ConnectionBlocked(Owner, d)
  BY DEF WriteBlocked
<1>2. /\ pc[Owner] = "step" /\ stmt[Owner] = "write" /\ ~autoCommit
      /\ pBlocking' = [pBlocking EXCEPT ![Owner] = d]
      /\ inTrans' = [inTrans EXCEPT ![Owner] = "write"]
      /\ pWriter' = Owner /\ pending' = TRUE
      /\ pc' = [pc EXCEPT ![Owner] = "notify"]
      /\ UNCHANGED <<cache, committed, locks, mutex, autoCommit, pUnlock, fired,
                     stmt, seen, calls>>
  BY <1>1 DEF WriteBlocked, ConnectionBlocked, CallsAreInPlace, tableVars
<1>3. d \in Connections /\ d # Owner /\ WillUnlock(d)
  BY <1>2, BlockersWillUnlock
<1>4. TypeOK'
  BY <1>2, <1>3
<1>5. LocksAreHeld'
  BY <1>2 DEF LocksAreHeld
<1>6. CallsAreInPlace'
  BY <1>2 DEF CallsAreInPlace
<1>7. WaitsAreAnswered'
  <2>1. \A e \in Connections : WillUnlock(e) => WillUnlock(e)'
    BY <1>2 DEF WillUnlock
  <2> QED
    BY <1>2, <1>3, <2>1 DEF WaitsAreAnswered
<1>8. RowsAreCommitted'
  BY <1>2 DEF RowsAreCommitted
<1> QED
  BY <1>4, <1>5, <1>6, <1>7, <1>8

\* The owner's transaction ends by a commit, a rollback or a failure: what the
\* readers have read is what is committed, before and after.
LEMMA TransactionEndStep ==
    ASSUME IInv, WriteUndone \/ Commit \/ Rollback
    PROVE  IInv'
<1> USE ConnectionFacts DEF IInv, Goto, TypeOK
<1>0. /\ pc[Owner] \in {"step", "idle"} /\ EndTransaction(Owner)
      /\ autoCommit' = TRUE /\ mutex' \in {mutex, Owner}
      /\ pc' = [pc EXCEPT ![Owner] = "halted"]
      /\ \A d \in Connections \ {Owner} : stmt'[d] = stmt[d]
      /\ stmt' \in [Connections -> {"none", "select", "write", "commit", "rollback"}]
      /\ stmt'[Owner] # "select"
      /\ UNCHANGED <<pBlocking, pUnlock, fired, seen, calls>>
  BY DEF WriteUndone, Commit, Rollback, tableVars, notifyVars
<1>1. \/ cache' = committed /\ committed' = committed
      \/ cache' = cache /\ committed' = cache
  BY DEF WriteUndone, Commit, Rollback
<1>2. /\ LocksAreHeld'
      /\ locks' \in [Connections -> {"none", "read", "write"}]
      /\ inTrans' \in [Connections -> {"none", "read", "write"}]
      /\ pWriter' \in {Owner, None} /\ pending' \in BOOLEAN
      /\ locks'[Owner] = "none"
      /\ \A d \in Connections \ {Owner} : locks'[d] = locks[d]
  BY <1>0, EndTransactionKeepsLocks
<1>3. TypeOK'
  <2>1. /\ cache' \in Nat /\ committed' \in Nat /\ autoCommit' \in BOOLEAN
        /\ mutex' \in Connections \cup {None}
    BY <1>0, <1>1
  <2>2. pc' \in [Connections -> {"idle", "step", "rows", "halted", "blocked", "notify", "wait",
                                "refused", "closed"}]
    BY <1>0
  <2> QED
    BY <1>0, <1>2, <2>1, <2>2
<1>4. CallsAreInPlace'
  BY <1>0 DEF CallsAreInPlace
<1>5. WaitsAreAnswered'
  BY <1>0, WaitsStayAnswered DEF WillUnlock, notifyVars
<1>6. ASSUME NEW d \in Connections, pc[d] = "rows"
      PROVE  committed' = committed
  <2>1. locks[Owner] # "write"
    BY <1>6 DEF LocksAreHeld
  <2> QED
    BY <1>1, <2>1 DEF RowsAreCommitted
<1>7. RowsAreCommitted'
  BY <1>0, <1>1, <1>6 DEF RowsAreCommitted
<1> QED
  BY <1>2, <1>3, <1>4, <1>5, <1>7

LEMMA StutteringStep ==
    ASSUME IInv, UNCHANGED vars
    PROVE  IInv'
<1> USE DEF vars, tableVars, lockVars, notifyVars, callVars, IInv
<1>1. TypeOK' /\ LocksAreHeld' /\ CallsAreInPlace' /\ RowsAreCommitted'
  BY DEF TypeOK, LocksAreHeld, CallsAreInPlace, RowsAreCommitted
<1>2. WaitsAreAnswered'
  BY DEF WaitsAreAnswered, WillUnlock
<1> QED
  BY <1>1, <1>2

LEMMA IInvStep == IInv /\ [Next]_vars => IInv'
<1> SUFFICES ASSUME IInv, [Next]_vars PROVE IInv'
  OBVIOUS
<1>1. ASSUME NEW c \in Connections, Query(c) PROVE IInv'
  BY <1>1, QueryStep
<1>2. ASSUME NEW c \in Connections, Select(c) PROVE IInv'
  BY <1>2, SelectStep
<1>3. ASSUME NEW c \in Connections, Fetch(c) PROVE IInv'
  BY <1>3, FetchStep
<1>4. ASSUME NEW c \in Connections, LastRow(c) \/ Reset(c) PROVE IInv'
  BY <1>4, QueryEndStep
<1>5. ASSUME NEW c \in Connections, Halt(c) PROVE IInv'
  BY <1>5, HaltStep
<1>6. ASSUME NEW c \in Connections, Notify(c) PROVE IInv'
  BY <1>6, NotifyStep
<1>7. ASSUME NEW c \in Connections, Wait(c) PROVE IInv'
  BY <1>7, WaitStep
<1>8. ASSUME Begin \/ Change PROVE IInv'
  BY <1>8, BeginStep
<1>9. ASSUME Write PROVE IInv'
  BY <1>9, WriteStep
<1>10. ASSUME WriteBlocked PROVE IInv'
  BY <1>10, WriteBlockedStep
<1>11. ASSUME WriteUndone \/ Commit \/ Rollback PROVE IInv'
  BY <1>11, TransactionEndStep
<1>12. ASSUME NEW c \in Readers, Close(c) \/ Open(c) PROVE IInv'
  BY <1>12, ReaderStep
<1>13. CASE UNCHANGED vars
  BY <1>13, StutteringStep
<1> QED
  BY <1>1, <1>2, <1>3, <1>4, <1>5, <1>6, <1>7, <1>8, <1>9, <1>10, <1>11, <1>12, <1>13
     DEF Next, Work, EndSave

\* Whatever the readers and the owner do, the locks, the calls, the waits and the
\* rows fit together.
THEOREM ConnectionsInvariant == Spec => []IInv
  BY InitIInv, IInvStep, PTL DEF Spec

-----------------------------------------------------------------------------
(* The properties. *)

\* Every variable keeps to its values.
THEOREM ConnectionsTypes == Spec => []TypeOK
<1>1. IInv => TypeOK
  BY DEF IInv
<1> QED
  BY <1>1, ConnectionsInvariant, PTL

\* No thread sleeps in wait_for_unlock_notify for a callback that has been missed.
THEOREM NobodySleepsForever == Spec => []NoLostWakeup
<1>1. IInv => NoLostWakeup
  BY ConnectionFacts DEF IInv, TypeOK, WaitsAreAnswered, NoLostWakeup
<1> QED
  BY <1>1, ConnectionsInvariant, PTL

\* A connection between two calls holds no lock.
THEOREM IdleConnections == Spec => []IdleHoldsNothing
<1>1. IInv => IdleHoldsNothing
  BY ConnectionFacts DEF IInv, TypeOK, LocksAreHeld, IdleHoldsNothing
<1> QED
  BY <1>1, ConnectionsInvariant, PTL

\* sqlite3_unlock_notify finds no deadlock, whatever the number of readers.
THEOREM NoDeadlockIsFound == Spec => []NoCallIsRefused
<1>1. Init => NoCallIsRefused
  BY DEF Init, NoCallIsRefused
<1>2. IInv /\ NoCallIsRefused /\ [Next]_vars => NoCallIsRefused'
  <2> SUFFICES ASSUME IInv, NoCallIsRefused, [Next]_vars
               PROVE  NoCallIsRefused'
    OBVIOUS
  <2> USE ConnectionFacts, SharedCacheAssumption DEF IInv, TypeOK, NoCallIsRefused, Goto
  <2>1. ASSUME NEW c \in Connections, Notify(c) PROVE NoCallIsRefused'
    <3>1. pBlocking[c] = None \/ ~Deadlocked(c)
      BY <2>1, NoCircle DEF Notify
    <3> QED
      BY <2>1, <3>1 DEF Notify
  <2>2. ASSUME NEW c \in Connections,
               \/ Query(c) \/ Select(c) \/ Fetch(c) \/ LastRow(c) \/ Reset(c)
               \/ Halt(c) \/ Wait(c)
        PROVE  NoCallIsRefused'
    BY <2>2 DEF Query, Select, Fetch, LastRow, Reset, Halt, Wait
  <2>3. ASSUME \/ Begin \/ Change \/ Write \/ WriteBlocked \/ WriteUndone
               \/ Commit \/ Rollback
        PROVE  NoCallIsRefused'
    BY <2>3 DEF Begin, Change, Write, WriteBlocked, WriteUndone, Commit, Rollback, callVars
  <2>4. ASSUME NEW c \in Readers, Close(c) \/ Open(c) PROVE NoCallIsRefused'
    BY <2>4 DEF Close, Open
  <2>5. CASE UNCHANGED vars
    BY <2>5 DEF vars, callVars
  <2> QED
    BY <2>1, <2>2, <2>3, <2>4, <2>5 DEF Next, Work, EndSave
<1> QED
  BY <1>1, <1>2, ConnectionsInvariant, PTL DEF Spec

-----------------------------------------------------------------------------
(* The connections implement Snapshots. *)

\* A step that changes nobody's query, and commits nothing, is not seen.
LEMMA UnseenStep ==
    ASSUME \A d \in Connections : QueryState(d)' = QueryState(d), UNCHANGED <<committed, seen>>
    PROVE  UNCHANGED Snap!vars
  BY DEF Snap!vars

\* The first row a query reads answers it, and the other ones agree.
LEMMA RowStep ==
    ASSUME IInv, NEW c \in Connections, Fetch(c) \/ LastRow(c)
    PROVE  Snap!Answer(c) \/ UNCHANGED Snap!vars
<1> USE ConnectionFacts DEF IInv, TypeOK, Goto
<1>1. /\ pc[c] = "rows" /\ stmt[c] = "select" /\ cache = committed /\ seen[c] \subseteq {committed}
      /\ pc' \in {pc, [pc EXCEPT ![c] = "halted"]}
      /\ seen' = [seen EXCEPT ![c] = @ \cup {cache}]
      /\ UNCHANGED <<committed, stmt>>
  BY DEF Fetch, LastRow, CallsAreInPlace, LocksAreHeld, RowsAreCommitted, tableVars
<1>2. /\ QueryState(c)' = "answered"
      /\ \A d \in Connections \ {c} : QueryState(d)' = QueryState(d)
  BY <1>1 DEF QueryState
<1>3. CASE seen[c] = {}
  <2>1. QueryState(c) = "asked" /\ seen' = [seen EXCEPT ![c] = {committed}]
    BY <1>1, <1>3 DEF QueryState
  <2>2. [d \in Connections |-> QueryState(d)]'
          = [[d \in Connections |-> QueryState(d)] EXCEPT ![c] = "answered"]
    BY <1>2
  <2> QED
    BY <1>1, <2>1, <2>2 DEF Snap!Answer
<1>4. CASE seen[c] # {}
  <2>1. QueryState(c) = "answered" /\ seen' = seen
    BY <1>1, <1>4 DEF QueryState
  <2> QED
    BY <1>1, <1>2, <2>1, UnseenStep
<1> QED
  BY <1>3, <1>4

LEMMA SnapshotStep ==
    ASSUME IInv, [Next]_vars
    PROVE  Snap!Next \/ UNCHANGED Snap!vars
<1> USE ConnectionFacts DEF IInv, TypeOK, Goto
<1>1. ASSUME NEW c \in Connections, Query(c) PROVE Snap!Ask(c)
  <2>1. /\ pc[c] = "idle" /\ pc' = [pc EXCEPT ![c] = "step"]
        /\ stmt' = [stmt EXCEPT ![c] = "select"] /\ seen' = [seen EXCEPT ![c] = {}]
        /\ UNCHANGED committed
    BY <1>1 DEF Query, tableVars
  <2>2. /\ QueryState(c) = "none" /\ QueryState(c)' = "asked"
        /\ \A d \in Connections \ {c} : QueryState(d)' = QueryState(d)
    BY <2>1 DEF QueryState
  <2> QED
    BY <2>1, <2>2 DEF Snap!Ask
<1>2. ASSUME NEW c \in Connections, Fetch(c) \/ LastRow(c)
      PROVE  Snap!Answer(c) \/ UNCHANGED Snap!vars
  BY <1>2, RowStep
<1>3. ASSUME NEW c \in Connections, Halt(c) PROVE Snap!Return(c) \/ UNCHANGED Snap!vars
  <2>1. /\ pc[c] \in {"halted", "blocked"}
        /\ pc' = [pc EXCEPT ![c] = IF pc[c] = "blocked" THEN "notify" ELSE "idle"]
        /\ UNCHANGED <<committed, stmt, seen>>
    BY <1>3 DEF Halt, tableVars
  <2>2. \A d \in Connections \ {c} : QueryState(d)' = QueryState(d)
    BY <2>1 DEF QueryState
  <2>3. CASE pc[c] = "halted" /\ stmt[c] = "select"
    <3>1. QueryState(c) = "answered" /\ QueryState(c)' = "none"
      BY <2>1, <2>3 DEF QueryState, RowsAreCommitted
    <3> QED
      BY <2>1, <2>2, <3>1 DEF Snap!Return
  <2>4. CASE ~(pc[c] = "halted" /\ stmt[c] = "select")
    <3>1. QueryState(c)' = QueryState(c)
      BY <2>1, <2>4 DEF QueryState
    <3> QED
      BY <2>1, <2>2, <3>1, UnseenStep
  <2> QED
    BY <2>3, <2>4
<1>4. ASSUME NEW c \in Connections, Select(c) \/ Reset(c) \/ Notify(c) \/ Wait(c)
      PROVE  UNCHANGED Snap!vars
  <2>1. /\ pc[c] \in {"step", "rows", "notify", "wait"} /\ pc'[c] \notin {"idle", "closed"}
        /\ \A d \in Connections \ {c} : pc'[d] = pc[d]
        /\ UNCHANGED <<committed, stmt, seen>>
    BY <1>4 DEF Select, Reset, Notify, Wait, tableVars
  <2> QED
    BY <2>1, UnseenStep DEF QueryState
<1>5. ASSUME Begin \/ Change \/ Write \/ WriteBlocked \/ WriteUndone \/ Rollback
      PROVE  UNCHANGED Snap!vars
  <2>1. /\ pc[Owner] = "idle" \/ stmt[Owner] = "write"
        /\ pc'[Owner] = "idle" \/ stmt'[Owner] \in {"write", "rollback"}
        /\ \A d \in Connections \ {Owner} : pc'[d] = pc[d] /\ stmt'[d] = stmt[d]
        /\ UNCHANGED <<committed, seen>>
    BY <1>5 DEF Begin, Change, Write, WriteBlocked, WriteUndone, Rollback, tableVars, callVars
  <2> QED
    BY <2>1, UnseenStep DEF QueryState
<1>6. ASSUME Commit PROVE Snap!Commit
  <2>1. /\ pc[Owner] = "idle" /\ stmt'[Owner] = "commit"
        /\ \A d \in Connections \ {Owner} : pc'[d] = pc[d] /\ stmt'[d] = stmt[d]
        /\ committed' \in Nat /\ UNCHANGED seen
    BY <1>6 DEF Commit
  <2>2. \A d \in Connections : QueryState(d)' = QueryState(d)
    BY <2>1 DEF QueryState
  <2> QED
    BY <2>1, <2>2 DEF Snap!Commit
<1>7. ASSUME NEW c \in Readers, Close(c) \/ Open(c) PROVE UNCHANGED Snap!vars
  <2>1. /\ pc[c] \in {"idle", "closed"} /\ pc'[c] \in {"idle", "closed"}
        /\ \A d \in Connections \ {c} : pc'[d] = pc[d] /\ stmt'[d] = stmt[d]
        /\ UNCHANGED <<committed, seen>>
    BY <1>7 DEF Close, Open, tableVars, Connections
  <2> QED
    BY <2>1, UnseenStep DEF QueryState
<1>8. CASE UNCHANGED vars
  BY <1>8, UnseenStep DEF vars, tableVars, callVars, QueryState
<1> QED
  BY <1>1, <1>2, <1>3, <1>4, <1>5, <1>6, <1>7, <1>8 DEF Next, Work, EndSave, Snap!Next

\* Every query is answered from the table as it was committed at one moment of
\* the call, for any number of readers, calls and rows: the safety part of
\* QueriesAreSnapshots.
THEOREM ConnectionsImplementSnapshots == Spec => Snap!Spec
<1>1. Init => Snap!Init
  BY DEF Init, Snap!Init, QueryState
<1>2. IInv /\ [Next]_vars => [Snap!Next]_(Snap!vars)
  BY SnapshotStep
<1> QED
  BY <1>1, <1>2, ConnectionsInvariant, PTL DEF Spec, Snap!Spec

=============================================================================
