--------------------------- MODULE DatabaseProofs ---------------------------
(***************************************************************************)
(* What the SQL statements of Database do to a table that is well formed   *)
(* (IsTable) and whose rows hang below the root (ParentsAreOlder).         *)
(***************************************************************************)
EXTENDS Database, WellFoundedInduction, TLAPS

\* Any non-empty set of natural numbers has a least element.
LEMMA LeastNumber ==
    ASSUME NEW T \in SUBSET Nat, T # {}
    PROVE  \E x \in T : \A y \in T : x <= y
<1> DEFINE R == OpToRel(<, Nat)
<1>1. IsWellFoundedOn(R, Nat)
  BY NatLessThanWellFounded
<1>2. \A x, y \in Nat : x < y => <<x, y>> \in R
  BY DEF OpToRel
<1> HIDE DEF R
<1>3. PICK x \in T : \A y \in T : <<y, x>> \notin R
  BY <1>1, WFMin
<1>4. \A y \in T : ~(y < x)
  BY <1>2, <1>3
<1>5. \A y \in T : x <= y
  BY <1>4
<1> QED
  BY <1>5

LEMMA MinIsMember ==
    ASSUME NEW T \in SUBSET Nat, T # {}
    PROVE  Min(T) \in T /\ \A x \in T : Min(T) <= x
  BY LeastNumber DEF Min

\* Ids that are bounded have a largest one among them.
LEMMA BoundedHasMaximum ==
    ASSUME NEW D \in SUBSET Nat, NEW n \in Nat, \A i \in D : i <= n
    PROVE  HasMaximum(D)
<1> SUFFICES ASSUME D # {} PROVE \E m \in D : \A i \in D : i <= m
  BY DEF HasMaximum
<1> DEFINE Bounds == {u \in Nat : \A i \in D : i <= u}
<1>1. PICK m \in Bounds : \A u \in Bounds : m <= u
  BY LeastNumber
<1>2. m \in D
  <2> SUFFICES ASSUME m \notin D PROVE FALSE
    OBVIOUS
  <2>1. \A i \in D : i < m
    BY <1>1
  <2>2. PICK d \in D : TRUE
    OBVIOUS
  <2>3. m \in Nat /\ m > 0
    BY <2>1, <2>2
  <2>4. m - 1 \in Nat /\ ~(m <= m - 1)
    BY <2>3
  <2>5. \A i \in D : i <= m - 1
    BY <2>1, <2>3
  <2> QED
    BY <2>4, <2>5, <1>1
<1> QED
  BY <1>1, <1>2

LEMMA SubsetHasMaximum ==
    ASSUME NEW D \in SUBSET Nat, HasMaximum(D), NEW E \in SUBSET D
    PROVE  HasMaximum(E)
<1>1. CASE D = {}
  BY <1>1 DEF HasMaximum
<1>2. CASE D # {}
  <2>1. PICK m \in D : \A i \in D : i <= m
    BY <1>2 DEF HasMaximum
  <2> QED
    BY <2>1, BoundedHasMaximum
<1> QED
  BY <1>1, <1>2

LEMMA MaxIsMember ==
    ASSUME NEW T \in SUBSET Nat, T # {}, HasMaximum(T)
    PROVE  Max(T) \in T /\ \A x \in T : x <= Max(T)
<1>1. PICK m \in T : \A x \in T : x <= m
  BY DEF HasMaximum
<1>2. \E y \in T : \A x \in T : y >= x
  BY <1>1
<1>3. Max(T) \in T /\ \A x \in T : Max(T) >= x
  BY <1>2 DEF Max
<1> QED
  BY <1>3

\* The id of a new row is larger than every id in the table.
LEMMA NewRowIdIsFresh ==
    ASSUME NEW db, IsTable(db)
    PROVE  /\ NewRowId(db) \in RecordID
           /\ \A i \in DOMAIN db : i < NewRowId(db)
<1> DEFINE S == {0} \cup DOMAIN db
<1>1. DOMAIN db \in SUBSET Nat
  BY DEF IsTable, RecordID
<1>2. \E m \in S : \A i \in S : i <= m
  BY <1>1 DEF IsTable, HasMaximum
<1>3. Max(S) \in S /\ \A i \in S : Max(S) >= i
  BY <1>1, <1>2 DEF Max
<1> QED
  BY <1>1, <1>3 DEF NewRowId, RecordID

\* INSERT keeps the table well formed.
LEMMA InsertRowKeepsTable ==
    ASSUME NEW db, IsTable(db), NEW rec \in FileInfo
    PROVE  IsTable(InsertRow(db, rec))
<1> DEFINE n == NewRowId(db)  new == InsertRow(db, rec)
<1>1. n \in RecordID /\ \A i \in DOMAIN db : i < n
  BY NewRowIdIsFresh
<1>2. DOMAIN new = DOMAIN db \cup {n} /\ new = [i \in DOMAIN new |-> new[i]]
  BY DEF InsertRow
<1>3. \A i \in DOMAIN new : new[i] \in FileInfo
  BY DEF InsertRow, IsTable
<1>4. HasMaximum(DOMAIN new)
  BY <1>1, <1>2 DEF HasMaximum, IsTable, RecordID
<1> QED
  BY <1>1, <1>2, <1>3, <1>4 DEF IsTable

\* INSERT below the root or below a row of the table keeps every row rooted.
LEMMA InsertRowKeepsParents ==
    ASSUME NEW db, IsTable(db), ParentsAreOlder(db), NEW rec \in FileInfo, ParentExists(db, rec)
    PROVE  ParentsAreOlder(InsertRow(db, rec))
<1> DEFINE n == NewRowId(db)  new == InsertRow(db, rec)
<1>1. n \in RecordID /\ \A i \in DOMAIN db : i < n
  BY NewRowIdIsFresh
<1>2. DOMAIN new = DOMAIN db \cup {n}
  BY DEF InsertRow
<1>3. new[n] = rec /\ \A i \in DOMAIN db : new[i] = db[i]
  BY <1>1 DEF InsertRow, IsTable, RecordID
<1>4. rec.parentID \in DOMAIN db \cup {ROOT_RECORD_ID} /\ rec.parentID < n
  BY <1>1 DEF ParentExists, RecordID, ROOT_RECORD_ID
<1> QED
  BY <1>2, <1>3, <1>4 DEF ParentsAreOlder, ParentExists

\* UPDATE keeps the table well formed and its ids.
LEMMA UpdateRowKeepsTable ==
    ASSUME NEW db, IsTable(db), NEW id, NEW rec \in FileInfo
    PROVE  IsTable(UpdateRow(db, id, rec)) /\ DOMAIN UpdateRow(db, id, rec) = DOMAIN db
<1> DEFINE new == UpdateRow(db, id, rec)
<1>1. CASE id \notin DOMAIN db
  BY <1>1 DEF UpdateRow
<1>2. CASE id \in DOMAIN db
  <2>1. new = [db EXCEPT ![id] = rec]
    BY <1>2 DEF UpdateRow
  <2> QED
    BY <1>2, <2>1 DEF IsTable
<1> QED
  BY <1>1, <1>2

\* UPDATE that leaves the parent of the row alone keeps every row rooted.
LEMMA UpdateRowKeepsParents ==
    ASSUME NEW db, IsTable(db), ParentsAreOlder(db), NEW id, NEW rec \in FileInfo,
           id \in DOMAIN db => rec.parentID = db[id].parentID
    PROVE  ParentsAreOlder(UpdateRow(db, id, rec))
<1> DEFINE new == UpdateRow(db, id, rec)
<1>1. \A i \in DOMAIN db : new[i].parentID = db[i].parentID
  BY DEF UpdateRow, IsTable
<1>2. DOMAIN new = DOMAIN db
  BY UpdateRowKeepsTable
<1> QED
  BY <1>1, <1>2 DEF ParentsAreOlder, ParentExists

\* DELETE keeps the table well formed: it only takes rows away.
LEMMA DeleteRowKeepsTable ==
    ASSUME NEW db, IsTable(db), NEW id
    PROVE  IsTable(DeleteRow(db, id))
<1> DEFINE new == DeleteRow(db, id)
<1>1. CASE id \notin DOMAIN db
  BY <1>1 DEF DeleteRow
<1>2. CASE id \in DOMAIN db
  <2>1. /\ DOMAIN new \in SUBSET DOMAIN db
        /\ new = [i \in DOMAIN new |-> new[i]]
        /\ \A i \in DOMAIN new : new[i] = db[i]
    BY <1>2 DEF DeleteRow
  <2>2. HasMaximum(DOMAIN new)
    BY <2>1, SubsetHasMaximum DEF IsTable, RecordID
  <2> QED
    BY <2>1, <2>2 DEF IsTable
<1> QED
  BY <1>1, <1>2

\* DELETE with its cascade keeps every row rooted: a row whose parent is taken
\* away is taken away too.
LEMMA DeleteRowKeepsParents ==
    ASSUME NEW db, IsTable(db), ParentsAreOlder(db), NEW id
    PROVE  ParentsAreOlder(DeleteRow(db, id))
<1> DEFINE new == DeleteRow(db, id)
<1>1. CASE id \notin DOMAIN db
  BY <1>1 DEF DeleteRow
<1>2. CASE id \in DOMAIN db
  <2>1. /\ DOMAIN new = DOMAIN db \ Cascade(db, id)
        /\ \A i \in DOMAIN new : new[i] = db[i]
    BY <1>2 DEF DeleteRow
  <2>2. \A i \in DOMAIN db : db[i].parentID \in Cascade(db, id) => i \in Cascade(db, id)
    BY DEF Cascade, ClosedUnderChildren
  <2> QED
    BY <2>1, <2>2 DEF ParentsAreOlder, ParentExists
<1> QED
  BY <1>1, <1>2

=============================================================================
