-------------------------- MODULE FileSystemProofs --------------------------
(***************************************************************************)
(* What a change of the file system leaves as it was: a directory whose    *)
(* write time is the one it had before is the same directory, with the     *)
(* same entries in it.                                                     *)
(***************************************************************************)
EXTENDS FileSystem, TLAPS

\* The equation that defines Branch has a solution: the least sets closed under Up.
LEMMA BranchEquation ==
    ASSUME NEW p \in Paths
    PROVE  Branch[p] = {p} \cup IF Up[p] = 0 THEN {} ELSE Branch[Up[p]]
<1> DEFINE
      Closed(S) == \A q \in S : Up[q] # 0 => Up[q] \in S
      Above == [q \in Paths |-> {r \in Paths : \A S \in SUBSET Paths : q \in S /\ Closed(S) => r \in S}]
      Step(f) == [q \in Paths |-> {q} \cup IF Up[q] = 0 THEN {} ELSE f[Up[q]]]
<1>1. \A q \in Paths : Up[q] \in Paths \cup {0}
  BY FileSystemAssumption
<1>2. ASSUME NEW q \in Paths
      PROVE  Above[q] = {q} \cup IF Up[q] = 0 THEN {} ELSE Above[Up[q]]
  <2> DEFINE A == {q} \cup IF Up[q] = 0 THEN {} ELSE Above[Up[q]]
  <2>1. A \in SUBSET Paths /\ q \in A /\ (Up[q] # 0 => Up[q] \in Above[Up[q]])
    BY <1>1
  <2>2. Closed(A)
    <3>1. ASSUME NEW r \in A, Up[r] # 0, r # q PROVE Up[r] \in A
      <4>1. Up[q] # 0 /\ r \in Above[Up[q]]
        BY <3>1
      <4>2. \A S \in SUBSET Paths : Up[q] \in S /\ Closed(S) => Up[r] \in S
        BY <3>1, <4>1, <1>1
      <4>3. Up[r] \in Paths
        BY <3>1, <1>1, <2>1
      <4> QED
        BY <4>1, <4>2, <4>3, <1>1
    <3> QED
      BY <3>1, <2>1
  <2>3. Above[q] \subseteq A
    BY <2>1, <2>2
  <2>4. A \subseteq Above[q]
    <3>1. ASSUME NEW S \in SUBSET Paths, q \in S, Closed(S) PROVE A \subseteq S
      BY <3>1, <1>1
    <3> QED
      BY <3>1, <2>1
  <2> QED
    BY <2>3, <2>4
<1>3. Above = Step(Above)
  <2> HIDE DEF Above
  <2>1. Above = [q \in Paths |-> Above[q]]
    BY DEF Above
  <2> QED
    BY <1>2, <2>1
<1> HIDE DEF Above
<1>4. Branch = Step(Branch)
  <2>1. Branch = CHOOSE f : f = Step(f)
    BY DEF Branch
  <2> QED
    BY <1>3, <2>1
<1>5. Branch[p] = Step(Branch)[p]
  BY <1>4
<1> QED
  BY <1>5

LEMMA OnItsBranch ==
    ASSUME NEW p \in Paths
    PROVE  /\ p \in Branch[p]
           /\ Up[p] \in Paths => Branch[Up[p]] \subseteq Branch[p]
  BY BranchEquation, FileSystemAssumption, PathsAssumption

\* No write time lies in the future.
WriteTimesPast == \A p \in Paths : disk[p].mtime <= clock

LEMMA WriteTimesStayPast ==
    ASSUME FsTypeOK, WriteTimesPast, FsNext
    PROVE  WriteTimesPast' /\ clock <= clock'
<1> USE DEF FsTypeOK, Node, WriteTimesPast
<1>1. PICK p \in Paths :
          \/ \E kind \in {"file", "dir"} : Create(p, kind)
          \/ Remove(p)
          \/ Write(p)
          \/ GoDown(p)
          \/ ComeBack(p)
  BY DEF FsNext
<1>2. ASSUME NEW kind \in {"file", "dir"}, Create(p, kind) PROVE WriteTimesPast' /\ clock <= clock'
  BY <1>2, FileSystemAssumption DEF Create, Tick
<1>3. CASE Remove(p)
  BY <1>3, FileSystemAssumption DEF Remove, Tick
<1>4. CASE Write(p)
  BY <1>4, FileSystemAssumption DEF Write, Tick
<1>5. CASE GoDown(p) \/ ComeBack(p)
  BY <1>5, FileSystemAssumption DEF GoDown, ComeBack, Tick
<1> QED
  BY <1>1, <1>2, <1>3, <1>4, <1>5

\* A directory appears only where one may be.
LEMMA DirectoriesWhereTheyMayBe ==
    ASSUME FsTypeOK, FsNext, NEW p \in Paths, is_directory(p)'
    PROVE  is_directory(p) \/ p \in MayBeDir
<1> USE DEF FsTypeOK, Node, is_directory
<1>1. PICK x \in Paths :
          \/ \E kind \in {"file", "dir"} : Create(x, kind)
          \/ Remove(x)
          \/ Write(x)
          \/ GoDown(x)
          \/ ComeBack(x)
  BY DEF FsNext
<1>2. ASSUME NEW kind \in {"file", "dir"}, Create(x, kind)
      PROVE  is_directory(p) \/ p \in MayBeDir
  BY <1>2 DEF Create
<1>3. CASE Remove(x)
  BY <1>3 DEF Remove
<1>4. CASE Write(x)
  BY <1>4 DEF Write
<1>5. CASE GoDown(x) \/ ComeBack(x)
  BY <1>5 DEF GoDown, ComeBack
<1> QED
  BY <1>1, <1>2, <1>3, <1>4, <1>5

\* A directory that has a write time of the past has had it before the step, and the
\* step has not changed what is in it.
LEMMA DirectoryKept ==
    ASSUME FsTypeOK, FsNext, NEW p \in Paths, is_directory(p)', disk'[p].mtime <= clock
    PROVE  /\ is_directory(p) /\ disk[p].mtime = disk'[p].mtime
           /\ \A q \in Paths : Up[q] = p => disk'[q].kind = disk[q].kind
<1> USE DEF FsTypeOK, Node, is_directory
<1> DEFINE Kept == /\ is_directory(p) /\ disk[p].mtime = disk'[p].mtime
                   /\ \A q \in Paths : Up[q] = p => disk'[q].kind = disk[q].kind
<1>1. PICK x \in Paths :
          \/ \E kind \in {"file", "dir"} : Create(x, kind)
          \/ Remove(x)
          \/ Write(x)
          \/ GoDown(x)
          \/ ComeBack(x)
  BY DEF FsNext
<1>2. ASSUME NEW kind \in {"file", "dir"}, Create(x, kind) PROVE Kept
  <2>1. clock' = clock + 1 /\ clock \in Nat
    BY <1>2, FileSystemAssumption DEF Create, Tick
  <2>2. x # p /\ Up[x] # p
    BY <1>2, <2>1 DEF Create
  <2> QED
    BY <1>2, <2>2 DEF Create
<1>3. CASE Remove(x)
  <2>1. clock' = clock + 1 /\ clock \in Nat
    BY <1>3, FileSystemAssumption DEF Remove, Tick
  <2>2. x \notin Branch[p]
    BY <1>3 DEF Remove
  <2>3. Up[x] # p
    BY <1>3, <2>1, <2>2 DEF Remove
  <2>4. ASSUME NEW q \in Paths, Up[q] = p PROVE x \notin Branch[q]
    BY <2>2, <2>3, <2>4, BranchEquation, PathsAssumption
  <2>5. disk'[p] = disk[p]
    BY <1>3, <2>2, <2>3 DEF Remove
  <2>6. ASSUME NEW q \in Paths, Up[q] = p PROVE disk'[q].kind = disk[q].kind
    BY <1>3, <2>4, <2>6 DEF Remove
  <2> QED
    BY <2>5, <2>6
<1>4. CASE Write(x)
  <2>1. x # p
    BY <1>4 DEF Write
  <2> QED
    BY <1>4, <2>1 DEF Write
<1>5. CASE GoDown(x) \/ ComeBack(x)
  BY <1>5 DEF GoDown, ComeBack
<1> QED
  BY <1>1, <1>2, <1>3, <1>4, <1>5

=============================================================================
