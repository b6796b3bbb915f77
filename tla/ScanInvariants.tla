--------------------------- MODULE ScanInvariants ---------------------------
(***************************************************************************)
(* What a scan relies on from one step to the next: the parts of the       *)
(* inductive invariants behind NoDuplicates, OnlyConfiguredRoots,          *)
(* NothingMissing and NothingLeftBehind.                                   *)
(***************************************************************************)
EXTENDS ScanThreadProperties

-----------------------------------------------------------------------------
(* What Changes note, as sets. *)

Deleted(c) == Range(c.deleted)
Changed(c) == Range(c.changed)
Added(c) == Range(c.added)

\* Where in its work the thread is.
InLoop == pc \in {"entry", "entryDone", "missing"}
InRounds == pc \in {"checkDir", "openDir", "entry", "entryDone", "missing"}
InScan == pc = "scanRoots" \/ InRounds
InWork == InScan \/ pc = "save" \/ InSave

\* The rows below record id.
RowsBelow(id) == {i \in DOMAIN files : files[i].parentID = id}

-----------------------------------------------------------------------------
(* The course of a scan. *)

\* The initial scan is of the root only and any other of directories of the table.
\* Nothing is noted before a scan begins, and no directory is scanned twice.
Course ==
    /\ initial => InWork \/ pc \in {"hook", "scanDirs", "stopped", "terminated"}
    /\ pc = "scanRoots" => initial
    /\ pc \in {"checkDir", "openDir"} => ~initial
    /\ pc = "openDir" => dirId # ROOT_RECORD_ID
    /\ InLoop => (initial <=> dirId = ROOT_RECORD_ID)
    /\ pc = "scanRoots" \/ (InLoop /\ initial) => changes = NoChanges
    /\ ~InWork /\ pc # "stopped" => changes = NoChanges
    /\ InScanDir => dirId \notin todo
    /\ InLoop /\ initial => entries \subseteq DOMAIN roots

\* A transaction is open while save writes, and whenever there is something to commit.
Uncommitted == (InSave => inTx) /\ (~inTx => files = committed)

\* A noted change leaves the name of its record alone.
NamesKept ==
    \A rec \in Changed(part) \cup Changed(changes) :
        rec[1] \in DOMAIN files => files[rec[1]].fileName = rec[2].fileName

\* The deletions noted are of rows, those noted for a directory of rows below it.
DeletionsKnown ==
    /\ Deleted(part) \subseteq RowsBelow(dirId)
    /\ InScan \/ pc \in {"save", "adding", "changing"} => Deleted(changes) \subseteq DOMAIN files

\* What is added is written before anything is changed.
AddedFirst == pc \in {"changing", "deleting", "committing"} => changes.added = <<>> \/ shouldBreak

\* checkDir has noted nothing but the directory itself, and the records nothing was
\* found for are looked at when every entry has been.
Stages ==
    /\ pc = "openDir" => Deleted(part) = {} /\ part.added = <<>>
    /\ pc = "missing" => entries = {}

CourseInv ==
    /\ RootedInv /\ Course /\ Stages /\ Uncommitted
    /\ NamesKept /\ DeletionsKnown /\ AddedFirst

-----------------------------------------------------------------------------
(* One record per name. *)

Key(info) == <<info.parentID, info.fileName>>

UniqueNames(db) == \A i, j \in DOMAIN db : Key(db[i]) = Key(db[j]) => i = j

\* The additions s name nothing twice, and nothing that is in db.
NewNames(s, db) ==
    /\ \A m, n \in DOMAIN s : Key(s[m]) = Key(s[n]) => m = n
    /\ \A m \in DOMAIN s, i \in DOMAIN db : Key(s[m]) # Key(db[i])

\* An addition of the directory being scanned is of an entry already visited; those
\* of the scan before are of directories that it does not come to again.
AdditionsInOrder ==
    /\ InScanDir => \A a \in Added(part) : a.parentID = dirId /\ a.fileName \notin entries
    /\ InRounds => \A a \in Added(changes) : a.parentID \notin todo
    /\ InScanDir => \A a \in Added(changes) : a.parentID # dirId

\* The record of an entry that is still to be visited is still among the old records.
OldRecordsWait ==
    InLoop => \A i \in RowsBelow(dirId) :
                  files[i].fileName \in entries => <<i, files[i]>> \in oldRecords

NamesInv ==
    /\ UniqueNames(files) /\ UniqueNames(committed)
    /\ NewNames(part.added, files) /\ NewNames(changes.added, files)
    /\ AdditionsInOrder
    /\ OldRecordsWait

-----------------------------------------------------------------------------
(* The root directories. *)

\* The initial scan cannot be interrupted by the widget: the thread has unhooked
\* itself before it forgets what the widget has asked for.
Unhooked ==
    /\ pc = "clearContinue" => ~onChanged
    /\ initial /\ InWork => ~onChanged /\ ~continue_
    /\ pc \in {"readSettings", "clearRestart"} => restart_

\* What hangs below the root without being configured.
Unconfigured == {i \in RowsBelow(ROOT_RECORD_ID) : ~Configured(files[i].fileName)}

\* Nothing asks the thread to leave the initial scan, and nothing has failed.
Undisturbed == faults = 0 /\ ~stop_ /\ ~restart_

\* The directories the settings name are readable whenever they are looked at.
SteadyRoots == \A s \in SettingsValues : \A p \in DOMAIN s : Steady(p)

\* The initial scan does not lose sight of a record that is to go.
RootsInv ==
    /\ \A a \in Added(part) \cup Added(changes) :
          a.parentID = ROOT_RECORD_ID => Configured(a.fileName)
    /\ initial /\ InLoop =>
          \A i \in Unconfigured : <<i, files[i]>> \in oldRecords \/ i \in Deleted(part)
    /\ initial /\ Undisturbed /\ (pc = "save" \/ InSave) => Unconfigured \subseteq Deleted(changes)
    /\ initial /\ Undisturbed /\ pc = "committing" => Unconfigured = {}
    /\ Undisturbed /\ ~InInitialScan => Unconfigured = {}

-----------------------------------------------------------------------------
(* What a directory's record says of it. *)

\* The record info is that of a directory and carries the write time it has now.
Current(info) ==
    info.isDir /\ is_directory(info.fileName) /\ info.lastWriteTime = disk[info.fileName].mtime

\* No directory is named like a song.  Otherwise the code takes one that it is not to
\* scan for a song, and a song that replaces one for the directory.
WellNamed == MayBeDir \cap Supported = {}

\* Directories are where they may be, and are recorded as such.
Kinds ==
    /\ \A p \in Paths : is_directory(p) => p \in MayBeDir
    /\ \A db \in {files, committed} : \A i \in DOMAIN db :
          db[i].isDir => db[i].fileName \notin Supported
    /\ \A a \in Added(part) \cup Added(changes) :
          a.isDir => a.fileName \notin Supported /\ a.lastWriteTime = 0
    /\ \A rec \in Changed(part) \cup Changed(changes) :
          rec[1] \in DOMAIN files => files[rec[1]].isDir = rec[2].isDir

\* No write time lies in the future, so none comes true later.
Times ==
    /\ \A p \in Paths : disk[p].mtime <= clock
    /\ \A db \in {files, committed} : \A i \in DOMAIN db : db[i].lastWriteTime <= clock
    /\ \A a \in Added(part) \cup Added(changes) : a.lastWriteTime <= clock
    /\ \A rec \in Changed(part) \cup Changed(changes) : rec[2].lastWriteTime <= clock

\* The record of a directory being scanned is out of date until it is replaced; a
\* replacement that has been noted is of a directory that is not scanned again.
ScannedOnce ==
    /\ InScanDir => \A rec \in Changed(part) : rec[2].isDir => rec[1] = dirId
    /\ InScanDir /\ dirId \in DOMAIN files => ~Current(files[dirId])
    /\ InRounds => \A rec \in Changed(changes) : rec[2].isDir => rec[1] \notin todo
    /\ InScanDir => \A rec \in Changed(changes) : rec[2].isDir => rec[1] # dirId

DirectoriesInv == Kinds /\ Times /\ ScannedOnce

\* What the rows of directories must be like when the program is started: of this file
\* system, and not named like songs.
Sensible ==
    \A i \in DOMAIN files :
        files[i].lastWriteTime <= clock /\ (files[i].isDir => files[i].fileName \notin Supported)

-----------------------------------------------------------------------------
(* Nothing is missing. *)

\* The rows that are not to be deleted.
Staying == DOMAIN files \ (Deleted(part) \cup Deleted(changes))

HasRow(id, p) == \E i \in Staying : files[i].parentID = id /\ files[i].fileName = p

IsAdded(additions, id, p) == \E a \in additions : a.parentID = id /\ a.fileName = p

\* A deletion noted is not of a row below a directory still to be scanned.
DeletionsInOrder ==
    /\ InRounds => \A i \in Deleted(changes) : files[i].parentID \notin todo
    /\ InScanDir => \A i \in Deleted(changes) : files[i].parentID # dirId
    /\ InLoop => \A r \in oldRecords : r[1] \notin Deleted(part)

\* The expanded rows are directories of the table, and so is all that an idle scan
\* is to look at.
ExpandedAreDirectories ==
    /\ ids \subseteq dirs(committed)
    /\ \A i \in DOMAIN files \cap DOMAIN committed : files[i].isDir = committed[i].isDir
    /\ pc \in {"adding", "changing"} => DOMAIN committed \subseteq DOMAIN files
    /\ InRounds /\ ~initial => todo \cap DOMAIN files \subseteq dirs(files)

\* A full scan looks at directories only.
FullScanOfDirectories ==
    InRounds /\ ~initial /\ hasChanged => todo \cap DOMAIN files \subseteq dirs(files)

\* The directory of a row that is up to date has all it wants among the rows that stay.
UpToDateHaveAll ==
    \A i \in DOMAIN files :
        Current(files[i]) => \A p \in Wanted(files[i].fileName) : HasRow(i, p)

\* So has that of a change that is noted, counting the additions noted.
ChangesHaveAll ==
    \A rec \in Changed(changes) :
        Current(rec[2]) =>
            \A p \in Wanted(rec[2].fileName) :
                HasRow(rec[1], p) \/ IsAdded(Added(changes), rec[1], p)

\* And so has the directory being scanned, counting the entries still to be visited.
PartHasAll ==
    \A rec \in Changed(part) :
        Current(rec[2]) =>
            \A p \in Wanted(rec[2].fileName) :
                \/ p \in entries
                \/ IsAdded(Added(part), dirId, p)
                \/ \E i \in Staying : /\ files[i].parentID = dirId /\ files[i].fileName = p
                                       /\ <<i, files[i]>> \notin oldRecords

MissingInv ==
    /\ DeletionsInOrder
    /\ FullScanOfDirectories
    /\ NothingMissing
    /\ InWork /\ ~shouldBreak => UpToDateHaveAll
    /\ InWork /\ ~shouldBreak /\ pc \notin {"deleting", "committing"} => ChangesHaveAll
    /\ InLoop /\ ~shouldBreak => PartHasAll

-----------------------------------------------------------------------------
(* Nothing is left behind. *)

\* What is in a directory is recorded below the directory's record.
InPlace(db) ==
    \A i \in DOMAIN db :
        db[i].parentID # ROOT_RECORD_ID => Up[db[i].fileName] = db[db[i].parentID].fileName

\* An addition is of an entry of its directory, whose record is out of date.
Belongs(a) ==
    a.parentID \in DOMAIN files =>
        Up[a.fileName] = files[a.parentID].fileName /\ ~Current(files[a.parentID])

Places ==
    /\ InPlace(files) /\ InPlace(committed)
    /\ \A a \in Added(part) : Belongs(a)
    /\ InScan \/ pc \in {"save", "adding"} => \A a \in Added(changes) : Belongs(a)
    /\ InLoop /\ dirId \in DOMAIN files => \A p \in entries : Up[p] = files[dirId].fileName

\* The rows below id for which there is an entry, or a deletion in `deletions'.
RowsAccounted(id, deletions) ==
    \A i \in RowsBelow(id) : Exists(files[i].fileName) \/ i \in deletions

AdditionsExist(additions, id) == \A a \in additions : a.parentID = id => Exists(a.fileName)

ChangesAccounted ==
    \A rec \in Changed(changes) :
        Current(rec[2]) =>
            RowsAccounted(rec[1], Deleted(changes)) /\ AdditionsExist(Added(changes), rec[1])

PartAccounted ==
    \A rec \in Changed(part) :
        Current(rec[2]) =>
            /\ AdditionsExist(Added(part), dirId)
            /\ \A i \in RowsBelow(dirId) :
                  \/ Exists(files[i].fileName) \/ i \in Deleted(part)
                  \/ <<i, files[i]>> \in oldRecords

LeftBehindInv ==
    /\ Places
    /\ NothingLeftBehind
    /\ InSave => \A i \in DOMAIN files :
                     Current(files[i]) => RowsAccounted(i, dropped \cup Deleted(changes))
    /\ InWork /\ ~shouldBreak /\ pc \notin {"deleting", "committing"} => ChangesAccounted
    /\ InLoop /\ ~shouldBreak => PartAccounted

=============================================================================
