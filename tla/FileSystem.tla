----------------------------- MODULE FileSystem -----------------------------
(***************************************************************************)
(* The file system as scan_thread.cpp observes it through std::filesystem. *)
(* It belongs to no file of the repository: other programs change it at    *)
(* any moment.                                                             *)
(*                                                                         *)
(* Creating or removing an entry advances the write time of its directory; *)
(* every change takes a new time, so equal times mean "unchanged".         *)
(***************************************************************************)
EXTENDS Records

CONSTANTS
    Up,          \* the directory a path lies in, 0 for one that lies outside Paths
    MayBeDir,    \* the paths at which a directory may exist
    MayBeFile,   \* the paths at which a regular file may exist
    Flaky,       \* the paths whose status may become unreadable
    InitialDisks,\* the file systems the program may be started on
    MaxClock     \* bound: the number of changes

ASSUME FileSystemAssumption ==
    /\ Up \in [Paths -> Paths \cup {0}]
    /\ \A p \in Paths : Up[p] < p
    /\ MayBeDir \subseteq Paths /\ MayBeFile \subseteq Paths /\ Flaky \subseteq Paths
    /\ InitialDisks \subseteq [Paths -> [kind : {"none", "file", "dir"}, mtime : {1}]]
    /\ \A d \in InitialDisks, p \in Paths : d[p].kind = "dir" => p \in MayBeDir
    /\ MaxClock \in Nat \ {0}

VARIABLES disk, down, clock

fsVars == <<disk, down, clock>>

Node == [kind : {"none", "file", "dir"}, mtime : 1 .. MaxClock]

FsTypeOK ==
    /\ disk \in [Paths -> Node]
    /\ down \subseteq Flaky
    /\ clock \in 1 .. MaxClock

-----------------------------------------------------------------------------
Exists(p) == disk[p].kind # "none"

\* fs::is_directory
is_directory(p) == disk[p].kind = "dir"

\* What iterating over a directory yields.
Listing(d) == {p \in Paths : Up[p] = d /\ Exists(p)}

\* A path and the directories above it.
Branch[p \in Paths] == {p} \cup IF Up[p] = 0 THEN {} ELSE Branch[Up[p]]

\* A status query fails with an error other than ENOENT.
Unreadable(p) == Branch[p] \cap down # {}

-----------------------------------------------------------------------------
FsInit ==
    /\ disk \in InitialDisks
    /\ down = {}
    /\ clock = 1

Tick == clock < MaxClock /\ clock' = clock + 1

Create(p, kind) ==
    /\ ~Exists(p)
    /\ Up[p] # 0 => is_directory(Up[p])
    /\ kind = "dir" => p \in MayBeDir
    /\ kind = "file" => p \in MayBeFile
    /\ Tick
    /\ disk' = [q \in Paths |->
                   IF q = p THEN [kind |-> kind, mtime |-> clock']
                   ELSE IF q = Up[p] THEN [disk[q] EXCEPT !.mtime = clock']
                   ELSE disk[q]]
    /\ UNCHANGED down

Remove(p) ==
    /\ Exists(p)
    /\ Tick
    /\ disk' = [q \in Paths |->
                   IF p \in Branch[q] THEN [kind |-> "none", mtime |-> 1]
                   ELSE IF q = Up[p] THEN [disk[q] EXCEPT !.mtime = clock']
                   ELSE disk[q]]
    /\ UNCHANGED down

Write(p) ==
    /\ disk[p].kind = "file"
    /\ Tick
    /\ disk' = [disk EXCEPT ![p].mtime = clock']
    /\ UNCHANGED down

GoDown(p) == p \in Flaky \ down /\ Tick /\ down' = down \cup {p} /\ UNCHANGED disk

ComeBack(p) == p \in down /\ down' = down \ {p} /\ UNCHANGED <<disk, clock>>

FsNext ==
    \E p \in Paths :
        \/ \E kind \in {"file", "dir"} : Create(p, kind)
        \/ Remove(p)
        \/ Write(p)
        \/ GoDown(p)
        \/ ComeBack(p)

=============================================================================
