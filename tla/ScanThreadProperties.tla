------------------------ MODULE ScanThreadProperties ------------------------
(***************************************************************************)
(* What the scanning thread is to guarantee, whatever the file system, the *)
(* user and the settings do while it works.                                *)
(***************************************************************************)
EXTENDS ScanThread

PcValues ==
    {"loop", "readSettings", "clearRestart", "unhook", "clearContinue", "scanRoots",
     "entry", "entryDone", "missing", "scanDirs", "checkDir", "openDir", "save",
     "adding", "changing", "deleting", "committing", "hook", "pause", "stopped", "terminated"}

\* The variables have the types of their declarations in scan_thread.hpp,
\* scan_event.hpp and database.hpp.
TypeOK ==
    /\ IsTable(files) /\ IsTable(committed) /\ inTx \in BOOLEAN /\ failed \subseteq Statements
    /\ FsTypeOK
    /\ stop_ \in BOOLEAN /\ restart_ \in BOOLEAN /\ continue_ \in BOOLEAN
    /\ settings \in SettingsValues /\ storing \in BOOLEAN
    /\ ids \subseteq RecordID /\ onChanged \in BOOLEAN
    /\ events \in Seq(ScanEvent)
    /\ pc \in PcValues
    /\ roots \in SettingsValues \cup {<<>>}
    /\ hasChanged \in BOOLEAN /\ initial \in BOOLEAN
    /\ todo \subseteq RecordID /\ dirId \in Nat
    /\ entries \subseteq Paths /\ oldRecords \subseteq FileRecord
    /\ part \in Changes /\ changes \in Changes
    /\ requests \in Nat /\ faults \in Nat
    /\ cutShort \in BOOLEAN /\ dropped \subseteq RecordID

-----------------------------------------------------------------------------
(* The table and the file system. *)

\* Nothing on the branch of p ever becomes unreadable.
Steady(p) == Branch[p] \cap Flaky = {}

\* The directory record id carries the write time its directory has now, so no
\* later scan looks into the directory until it changes again.
UpToDate(db, id) ==
    LET path == db[id].fileName
    IN  /\ db[id].isDir /\ is_directory(path)
        /\ db[id].lastWriteTime = disk[path].mtime

ChildNames(db, id) == {rec[2].fileName : rec \in childrenFiles(db, id)}

\* What a scan of the directory has to record.
Wanted(path) == {p \in Listing(path) : Steady(p) /\ (is_directory(p) \/ p \in Supported)}

\* A directory whose record is up to date has a record for every song and
\* every subdirectory in it: scan_thread.cpp:245 will not look again, so an
\* entry lost to an interrupted scan or save would stay lost.  It is what the
\* order of the loops of save is for.
NothingMissing ==
    \A db \in {files, committed} :
        \A id \in DOMAIN db :
            UpToDate(db, id) => Wanted(db[id].fileName) \subseteq ChildNames(db, id)

\* A directory whose record is up to date has no record of an entry that is
\* gone, except those that save was interrupted before deleting (the third
\* loop, scan_thread.cpp:473).
NothingLeftBehind ==
    \A id \in DOMAIN committed :
        UpToDate(committed, id) =>
            \A rec \in childrenFiles(committed, id) :
                Steady(rec[2].fileName) => Exists(rec[2].fileName) \/ rec[1] \in dropped

\* A directory has at most one record per name, however often the scan that
\* adds them is cut short and repeated.
NoDuplicates ==
    \A i, j \in DOMAIN files :
        files[i].parentID = files[j].parentID /\ files[i].fileName = files[j].fileName
            => i = j

-----------------------------------------------------------------------------
(* Transactions. *)

\* Every row hangs below the root, in the table being written and in the one
\* that other connections and the next run see.
Rooted == ParentsAreOlder(files) /\ ParentsAreOlder(committed)

\* save never asks for a row whose parent is gone: the parent of whatever a
\* scan has found is still in the table when it is written.
NoForeignKeyFailure == ~ForeignKeyFails

\* The scanner neither waits nor ends inside a transaction, and leaves nothing
\* uncommitted: the widget's connection is locked out only while save runs.
NoTransactionLeftOpen ==
    faults = 0 =>
        /\ inTx => pc \in {"adding", "changing", "deleting", "committing"}
        /\ ~inTx => files = committed

\* Once a scan has been cut short nothing it found is written: a partial list
\* of changes never reaches the table.
PartialScanWritesNothing == [][cutShort /\ cutShort' => files' \in {files, committed}]_vars

-----------------------------------------------------------------------------
(* Settings and events. *)

\* The thread has begun an initial scan and not yet finished it.
InInitialScan ==
    \/ pc \in {"unhook", "clearContinue"}
    \/ initial /\ pc \notin {"hook", "scanDirs"}

\* The settings ask for p: a directory that is to be scanned, or, which nobody means
\* but scanEntry makes of it, one that is not but has the extension of a song.
Configured(p) == p \in DOMAIN roots /\ (roots[p] \/ p \in Supported)

\* After an initial scan that no restart interrupts, no record of a root
\* directory is left that the settings it read do not name.
OnlyConfiguredRoots ==
    faults = 0 /\ ~stop_ /\ ~restart_ /\ ~InInitialScan =>
        \A rec \in childrenFiles(files, ROOT_RECORD_ID) :
            Steady(rec[2].fileName) => Configured(rec[2].fileName)

EventsOf(id) == {k \in DOMAIN events : events[k].id = id}

\* The last thing said about a record that is in the table is never that it
\* was deleted, although ids are used again.
NoFalseObituary ==
    faults = 0 =>
        \A id \in DOMAIN files :
            EventsOf(id) = {} \/ events[Max(EventsOf(id))].type # "DELETED"

-----------------------------------------------------------------------------
(* Progress. *)

\* ~ScanThread sets stop_ and joins the thread: the thread ends.
StopEndsThread == stop_ ~> pc = "stopped"

\* A restart is never forgotten: the root directories are scanned after it.
RestartIsServed == restart_ ~> (pc \in {"scanRoots", "stopped"})

\* An expanded row follows its directory: once the record is out of date the
\* thread brings it up to date, unless the row is collapsed or deleted.
IdBound == 2 * Cardinality(Paths)   \* bound: ids beyond it are not looked at

ExpandedRowsFollow ==
    \A id \in 1 .. IdBound :
        (id \in ids /\ id \in DOMAIN committed /\ ~UpToDate(committed, id))
            ~> (id \notin ids \/ id \notin DOMAIN committed \/ UpToDate(committed, id)
                \/ pc = "stopped")

\* The songs and directories that the settings last read cover.
Covered ==
    {p \in Paths :
        /\ Exists(p) /\ (is_directory(p) \/ p \in Supported)
        /\ \E r \in Branch[p] \cap DOMAIN roots : roots[r]}

\* If the file system stays as it is, the whole library is recorded in the end,
\* whatever interrupts the scans meanwhile.
LibraryIsIndexed ==
    [](clock = 1) =>
        <>[](pc = "stopped" \/ {committed[i].fileName : i \in DOMAIN committed} = Covered)

-----------------------------------------------------------------------------
(* The inductive invariant behind Rooted and NoForeignKeyFailure.          *)

\* What may be inserted into db, and what may replace a row of db.
Insertable(db) == {info \in FileInfo : ParentExists(db, info)}

Replacing(db) ==
    {rec \in FileRecord : rec[1] \in DOMAIN db /\ rec[2].parentID = db[rec[1]].parentID}

ChangesOver(recs, infos) == [deleted : Seq(RecordID), changed : Seq(recs), added : Seq(infos)]

Applicable(db) == ChangesOver(Replacing(db), Insertable(db))

\* Where scanDir's arguments and results are in use, and where save writes.
InScanDir == pc \in {"openDir", "entry", "entryDone", "missing"}
InSave == pc \in {"adding", "changing", "deleting", "committing"}

\* What a scan has noted applies to the table as it is, until save deletes rows.
ChangesApply ==
    /\ IF InScanDir THEN part \in Applicable(files) ELSE part = NoChanges
    /\ pc \in {"deleting", "committing"} \/ changes \in Applicable(files)
    /\ InScanDir => dirId \in DOMAIN files \cup {ROOT_RECORD_ID}
    /\ InScanDir /\ pc # "openDir" => oldRecords \subseteq childrenFiles(files, dirId)

RootedInv == TypeOK /\ Rooted /\ ChangesApply

\* A scan that was cut short has a flag set until the changes are thrown away.
CutShortBreaks ==
    cutShort /\ pc \in {"scanRoots", "entry", "entryDone", "missing", "checkDir", "openDir",
                        "save", "adding", "changing", "deleting", "committing"}
        => shouldBreak

-----------------------------------------------------------------------------
(* What comments and assertions of the source say.  The code does not keep *)
(* to these.                                                               *)

\* scan_thread.cpp:306, "initially scan directories specified in settings":
\* when the thread rests, no restart being asked for, the directories it has
\* scanned are those of the settings.
SettingsAreScanned == pc = "pause" /\ ~restart_ /\ ~storing /\ ~stop_ => roots = settings

\* scan_thread.cpp:155, assert(std::distance(oldRange.first, oldRange.second) <= 1)
AtMostOneRecord ==
    pc = "entry" /\ entries # {} /\ ~shouldBreak =>
        \A p \in NextEntries : ~Unreadable(p) => Cardinality(EqualRange(p)) <= 1

\* scan_thread.cpp:417, "directory not in db already (yet)": an expanded row is
\* either a directory in the table or not in the table.
ActiveIdsAreDirectories ==
    pc = "checkDir" /\ ~hasChanged => \A id \in todo \cap DOMAIN files : files[id].isDir

\* database.cpp:166, a rollback that fails is reported, as is anything that ends
\* the scan (scan_thread.cpp:380): no failure of the database ends the player.
PlayerSurvives == pc # "terminated"

=============================================================================
