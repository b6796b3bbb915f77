# Verification of ddb_medialib

ddb_medialib is a DeaDBeeF plugin that keeps a media library: a thread scans
the directories of the settings into an SQLite table, and a GTK widget shows
the table as a tree. These TLA+ modules model the program, TLC checks them on
small libraries, and TLAPS proves the theorems of the last sections.

Run `tlc -config MCScanDisk.cfg MCScanThread.tla` (the MCScan configurations,
MCLostSettings, MCUnreadable, MCStaleIds and MCAfterFailure belong to
`MCScanThread`, MCMediaLib to `MCMediaLib`, MCSharedCache to
`SharedCacheProperties`, MCPlugin to `MCPlugin`) and `tlapm ScanThreadProofs.tla`
(and `CourseProofs`, `LibraryProofs`, `MediaLibProofs`, `SharedCacheProofs`,
`PluginProofs`, `DatabaseProofs`, `FileSystemProofs`).

## 1. The system

| component | state | operations | interacts with |
|---|---|---|---|
| record store, `database.cpp` | table `files` (id, parent, write time, kind, name), open transaction, prepared statements | `addFile`, `replaceFile`, `delFile`, `childrenFiles`, `dirs`, `getFile`, `beginTransaction`, `commit`, `rollback` | scanner (owner connection), widget (reader connection), on one shared cache |
| scanning thread, `scan_thread.cpp` | `stop_`, `restart_`, `continue_`, the changes of the scan in progress | `operator()`, `scanDir`, `scanEntry`, `checkDir`, `scanDirs`, `save`, `restart`, `onActiveFilesChanged` | settings, file system, table, event queue, active records |
| event queue and active records, `scan_event.hpp` | queue of ADDED/DELETED/UPDATED; expanded ids and the `onChanged` hook under a mutex | push/pull; insert/erase/notify | scanner and widget |
| widget, `main_widget.cpp` | tree, `file2row_`, Dispatcher | `onRowExpanded`, `onRowCollapsed`, `onRefresh`, `onChanged` (`addRec`, `delRec`), `onSettings`, saving and restoring expanded rows | table, queue, active records, plugin |
| settings, `settings.cpp` | directories -> recursive, in memory under a mutex and in a JSON file | `getSettings`, `setSettings`, `load`, `save` | plugin, scanner |
| settings dialog, `settings_dlg.cpp` | a copy of the settings | add, remove | widget |
| plugin, `plugin.cpp` | the database, the thread, the widget, all static | `connect`, `createWidget`, `destroyWidget`, `disconnect`, `storeSettings` | everything |
| statement cache, `database.cpp` | prepared statements by line number | `get`, `clear` | record store |
| unlock-notify wrappers, `sqlite_locked.cpp` | one notification per wait | `sqlite3_blocking_step`, `sqlite3_blocking_prepare_v2` | record store |

SQLite (`sqlite3/sqlite3.c`) is vendored, 213000 lines of the repository's
216000. What decides how this program's threads meet, its shared-cache table locks
and its unlock notification, is modelled from its source; row ids, foreign keys
and transactions from their use. `medialib.cpp` fills a plugin description and
`queue_views.hpp` is a copy of a Boost header; they are not modelled.

Two threads act: the GUI thread and the scanner. The scanner is written to be
interrupted: every loop asks `shouldBreak()`, and what has been found or
written until then is partly kept and partly dropped. The hard part of this
program is that nothing may be lost by that, while the file system changes
under the scanner at every moment, row ids are used again, and SQLite calls
fail. Then, that the widget, which applies the scanner's events late and reads
the records even later, ends up with the same rows; that the two connections on
one page cache neither see each other's half-done work nor wait for each other
for good; and that settings and threads survive the player's ways of ending.
`PROJECT.json` lists these hazards at their lines.

What makes each component correct:

* record store: rows stay connected to the root; a new id is not in the table;
  a transaction is closed on every path.
* scanning thread: a directory marked as seen has all its songs recorded, once;
  what is gone is deleted; a request to restart or stop is served; a scan cut
  short writes nothing; an expanded row follows its directory.
* events: the widget that applies them arrives at the table.
* settings: what is stored is what is scanned, and survives a restart.
* life cycle: nobody calls a part that is destroyed or not yet built.
* unlock-notify: no wait without a wake-up, no two threads waiting for each other.

## 2. The modules

An arrow is an EXTENDS:

    Records -> Database, FileSystem -> ScanThread -> ScanThreadProperties -> MCScanThread (TLC)
                                       ScanThread -> MediaLib -> MediaLibProperties -> MCMediaLib (TLC)
    SharedCache -> SharedCacheProperties (TLC; instantiates Snapshots) -> SharedCacheProofs (TLAPS)
    Plugin -> PluginProperties -> MCPlugin (TLC), PluginProofs (TLAPS)

The proofs about the scanner and the widget build on one another:

    ScanThreadProperties, DatabaseProofs -> ScanThreadProofs
    ScanThreadProperties -> ScanInvariants; with ScanThreadProofs -> CourseProofs
    CourseProofs, FileSystemProofs -> LibraryProofs
    MediaLibProperties -> WidgetInvariants; with LibraryProofs -> MediaLibProofs

`DatabaseProofs` and `FileSystemProofs` have the lemmas about the table and the disk,
`ScanInvariants` and `WidgetInvariants` the parts of the inductive invariants. `MediaLib` composes the scanner
with the widget on the table, the file system and the event queue. `SharedCache` and
`Plugin` look at the same program from two other sides, and each abstracts what the
others model: in `ScanThread` a query sees the committed table in one step, which is
what `SharedCache` shows of it (`QueriesAreSnapshots`); in `SharedCache` the table is a
version number; in `Plugin` a scan is one step that takes as long as it likes.

**Records** is `db_record.hpp`. A path is a number, in the order of
`std::string::operator<`, which is the order of `CmpByPath` and of the settings' map.

**Database** is the table and the statements of `database.cpp`: a function from
ids to `FileInfo`. A new id is the largest one plus one, because the column is
an `INTEGER PRIMARY KEY` without `AUTOINCREMENT`; so the id of a deleted last
row is used again. `Cascade` is `ON DELETE CASCADE`, stated as the least set
closed under children so that nothing is recursive. `files` is what the owning
connection sees, `committed` what everybody else sees. `failed` is what
`StatementCache` keeps of the past: `get` resets a cached statement, `sqlite3_reset`
returns the error of its last execution again, and so `get` throws once more for a
statement that failed (`GetThrows`) before it is `Ready` to be run.

**FileSystem** is external: what `std::filesystem` shows the scanner. Each path
is nothing, a song or a directory, with a write time; creating and removing an
entry advances the write time of its directory; a path in `Flaky` may become
unreadable (a query throws something other than `ENOENT`) and come back.

**ScanThread** is `scan_thread.cpp`. `pc` names the statement the thread is at.

| pc | code |
|---|---|
| `loop`, `readSettings`, `clearRestart`, `unhook`, `clearContinue` | the head of the loop and lines 303-312, one step per shared variable |
| `scanRoots` | `scanDir(ROOT_RECORD_ID, dirs)`, line 316 |
| `entry`, `entryDone`, `missing` | the two loops of `scanDir`, with `scanEntry` |
| `scanDirs`, `checkDir`, `openDir` | `scanDirs`, `checkDir` up to and including the opening of the directory |
| `save`, `adding`, `changing`, `deleting`, `committing` | `save` |
| `hook`, `pause` | lines 325-326, and 331-375 |
| `stopped` | the end of `operator()`, by `stop_` or by an exception |
| `terminated` | `std::terminate`: `rollback()` has thrown from the scope exit of `save` |

`part` is the `result` of the `checkDir` or `scanDir` in progress, `changes` that
of the whole scan. The GUI thread's `onRowExpanded`, `onRowCollapsed`,
`onRefresh`, `storeSettings` (two steps: the new settings, then `restart`) and
`~ScanThread` are actions that may come between any two steps. A row can be
expanded if it is shown and has rows below it; the thread may start with any
rows expanded that the widget restored. The GUI is one thread: it does nothing
else within `storeSettings`, nor while `~ScanThread` joins.
`QueryFails`, `BeginFails`, `StatementFails`, `CommitFails`, `CommitThrows` and
`IterationFails` are the exceptions, each leading where its handler is; a failing
statement may find the transaction undone by SQLite, and then its ROLLBACK fails too.
`cutShort` (the scan in progress was left early) and `dropped` (the deletions an
interrupted save left undone) are history variables, written and never read by
the actions.

What is abstracted, and why that loses nothing the properties tell apart:

* A directory is listed when it is opened. An entry created while the iterator
  runs may or may not be seen by the code; the model does not see it, and the
  directory's write time, read before, then differs.
* `is_directory` and `last_write_time` of one path are read in one step. A change
  between the two gives an exception or a different time, which the model
  produces by the change coming before or after the step.
* `shouldBreak()` reads three flags in one step. The GUI thread only sets them,
  and the scanner clears them only where it does not ask.
* With `PromptWidget = TRUE` the widget forgets a deleted expanded row at the
  commit, with `FALSE` in a step of its own at any later time (`ForgetRow`).
  The rows that can be expanded are in both cases those of the committed table;
  `MediaLib` has the tree itself, which lags behind.
* The waits between scans, and the Dispatcher, are left out: `pause` may last. They
  are in `Plugin` and `MediaLib`.

**MediaLib** is `main_widget.cpp` with `ScanThread`. A row is a record id and the row it
hangs below; `file2row_` maps ids to rows. `fillData` is the initial state; `Dispatch`
starts `onChanged`, which handles one event a step (`HandleEvent`), so the scanner goes
on pushing meanwhile. `addRec` reads the record when it gets to the event; it waits while
a transaction is open, as the shared cache makes it. The rows below a row are the least
set closed under children, as in `Cascade`, so that nothing is recursive here either.
`delRec` erases the row and all below it, with their entries in `file2row_` and in the expanded ids. The user expands
and collapses rows of the tree, not of the table. `signal` is the Glib Dispatcher, which
the thread emits to on every wait while events are queued and which may lose that.
Names and their order in the view are not modelled, and an UPDATED event changes nothing
(as in the code). The GUI thread is the widget: while `onChanged` runs, no handler does.
`getFile` and the row it gives are one step, since only the GUI thread touches the tree.

**SharedCache** is `sqlite_locked.cpp` on the parts of `sqlite3.c` that decide when it
waits: `Blockers` and `TakeLock` are `querySharedCacheTableLock` and
`sqlite3BtreeBeginTrans`, `EndTransaction` is `btreeEndTransaction` with
`clearAllSharedCacheTableLocks`, and `ConnectionBlocked`, `Notify` and
`ConnectionUnlocked` are `notify.c`. The model keeps the order that matters: locks
are refused, the callback is registered and the locks are released in three steps
of two threads, with the mutex of the page cache held over just those the code
holds it over. `pc` is where a connection's call is:

| pc | code |
|---|---|
| `idle`, `closed` | no call; no connection |
| `step` | about to call `sqlite3_step` for the first time (line 93) |
| `rows` | a query that has its lock and fetches rows |
| `blocked`, `halted` | in `sqlite3VdbeHalt`, locks released, notifications still to come |
| `notify`, `wait` | in `wait_for_unlock_notify`, before and after the registration |
| `refused` | `sqlite3_unlock_notify` has found a deadlock |

The owner's queries inside a transaction take no other lock than it has and are left out,
as are its failing statements that leave the transaction open, which change no lock.
Preparing never waits: the schema is in memory once `DbOwner` is there.

**Snapshots** is the abstract specification that `SharedCache` implements: a query is
answered once, from the table as committed at one moment of the call. The mapping
takes `call` from the statement and whether it has read anything, and `answer` from
the versions read. A query that is refused its lock and tries again is still the one call.

**Plugin** is `plugin.cpp`, `settings.cpp`, `settings_dlg.cpp`, and the life and the
rests of the thread (`tpc`). Writing the settings file is two steps, since `write_json`
truncates it first, and `Exit` may come between any two steps: the player quits, is
killed, or ends by an exception nobody catches. `wanted` is a history variable: the
settings the user may expect to be in force (two values while a save is in progress).
The player's calls and the widget's handlers come one at a time; only the modal
dialog runs a main loop of its own, in which the player may disconnect the plugin.
`delay` is the time a request has waited for a resting thread. The initial scan's
reading of the settings and clearing of `restart_` are one step here; the race between
them is `ScanThread`'s (`lost_settings`).

## 3. The runs

The library of `MCScanThread` is a directory (1) with a directory (2) and a song
(4) in it, and a song (3) in directory 2: two levels, so that records have
parents found by an earlier scan, cascades delete more than one row, and a
directory has both kinds of entry. `NothingOrAllIndexed` starts each run from an
empty table and from a complete one, the latter with each set of rows that may
be expanded.

| run | bounds | shows |
|---|---|---|
| `scan_disk` | 2 changes of the disk, 1 call | `TypeOK`, `NothingMissing`, `NothingLeftBehind`, `NoDuplicates`, `NoFalseObituary` |
| `scan_requests` | 1 change, 2 calls, two settings, late widget | `OnlyConfiguredRoots`, `NoForeignKeyFailure`, `NoTransactionLeftOpen`, `PartialScanWritesNothing` |
| `scan_faults` | 1 change or failure of the volume, 1 failing call of SQLite or of the iterator, 1 call | `Rooted`, `NothingMissing`, `PartialScanWritesNothing` |
| `scan_progress` | 1 change, 3 calls, fair thread | `StopEndsThread`, `RestartIsServed`, `ExpandedRowsFollow` |
| `scan_indexing` | no change, 3 calls, two settings, fair thread | `LibraryIsIndexed` |
| `lost_settings` | 1 call | violates `SettingsAreScanned` |
| `unreadable` | two drives, one unreadable, 2 calls | violates `AtMostOneRecord` |
| `stale_ids` | one song, 2 changes, late widget | violates `ActiveIdsAreDirectories` |
| `after_failure` | 1 failure, 1 call | violates `PlayerSurvives` |
| `media_lib` | one song, 2 changes, 1 call, fair thread and main loop | `WidgetTypeOK`, `TreeIsTable`, `NoRowTwice`, `ExpandedRowsAreShown`, `ViewCatchesUp` |
| `connections` | owner and 2 readers, 2 calls each, fair threads | `TypeOK`, `NoLostWakeup`, `NoCallIsRefused`, `IdleHoldsNothing`, `CallsReturn`, `QueriesAreSnapshots` |
| `plugin` | 2 directories, rests up to 2500 ms | `PluginTypeOK`, `UsersSettings`, `NextStartReadsTheSame`, `ThreadHasItsObjects`, `RequestsAreNoticed`, `JoinsReturn` |

`MaxClock` (changes of the disk plus one), `MaxRequests` (calls), `MaxFaults` and, in
`SharedCache`, `MaxCalls` are the only bounds; the threads themselves are unbounded, and
`Plugin` has no bound at all. `CHECK_DEADLOCK` is off in the runs of `ScanThread` and
`MediaLib` because the thread really ends, and then nothing is left to happen once
the bounds are reached. One call is enough to cut a scan or a save short at any
point; the second lets it be cut again while it recovers, or cut a scan that new
settings caused. Two changes are enough for an entry to change and its directory
to change again before the first is recorded, and, in `media_lib`, for a record to be
deleted and its id given out again while the events are queued. Two readers are one
more than the plugin has (one widget, one reader): they make the count of transactions
matter that clears BTS_PENDING. Two calls each let a connection return and come
back while another is still waiting for it. 2500 ms is no power of two times 500, so that
the doubling meets its limit in the middle, as 300000 ms does.

Fairness. `FairSpec` of `ScanThread` is weak fairness of the scanner's steps, since the
operating system schedules the thread and each wait has a timeout of 500 ms,
and of the second half of `storeSettings`, which follows the first without
waiting. `FairMediaLib` adds weak fairness of the GUI's main loop (`Dispatch`,
`HandleEvent`), and strong fairness of `EmitSignal`: the Dispatcher may lose signals, but
of one sent again and again some arrive, which is the least the comment "doesn't always
gets dispatched, so need to push periodically" relies on. In `SharedCache`, each
connection's thread goes on with a call it has made (`Work`), and the scanner ends a
transaction it has begun (`EndSave`): `save` has no other exit. `CallsReturn` relies
beyond that on the bounded number of calls. BTS_PENDING keeps new readers out only
until the last reader has finished, and one that asks again before the owner's thread has
woken up takes the lock once more; that this cannot go on for ever is a matter of what
the user does, not of the code. In `Plugin` the thread runs and `Joined`, which is
`std::thread::join`, returns. The user, the file system and the player owe nothing.

The properties, and what in the code they are about, are commented in
the modules of properties. Some deserve a word:

* `NothingMissing` is what the library is worth: a directory whose recorded write
  time is current is not looked at again (`checkDir`, line 245), so whatever is
  not recorded by then is lost. `save` commits when it is interrupted, and it is
  the order of its loops (additions first) that makes this safe. It is stated for
  entries that never become unreadable: for others the code does lose entries,
  since the directory's new time is saved all the same.
* `NothingLeftBehind` is its converse. It fails as one would first write it: an
  interrupted `save` drops the deletions that remain, while the write time of
  their directory is already in the table. `dropped` holds exactly these; for
  every other record the property holds.

* `TreeIsTable` says that the events add up: each is applied to records read long after
  it was queued, ids are used again, and a cascade deletes rows without events of their
  own. It is stated but for one order, which the history variable `overtaken` records: a
  record is added and deleted and its id given to another while its ADDED event is
  still queued. Both events then find the second record, and it gets two rows.
* `NoCallIsRefused`: the comments of `sqlite_locked.cpp` ask the caller of a refused call
  to roll back and try again, and `database.cpp` does not. It need not: no connection that
  others wait for ever waits itself, since a query has one lock and the owner,
  which waits in its transaction, waits for queries.
* `UsersSettings` is worth a whole library: the initial scan deletes the records of all
  roots the settings do not name, so a torn file must not be taken for an empty one.
* `RequestsAreNoticed`: the lock of the condition variable locks nothing, so a
  notification may come between the test of the flags and the wait and be lost. What
  bounds the delay is that rests of minutes are made of slices of 500 ms.

### What the code does not keep

* **lost_settings.** `storeSettings` between lines 308 and 309: the new settings
  are not scanned until somebody restarts the scan again.
* **unreadable.** The handler at 206-215 erases the record after the unreadable
  entry's place if that entry has no record; the next entry is added twice.
* **stale_ids.** A song given the id of a deleted expanded directory is checked as
  that directory and its record is deleted. The song is then missing from a directory
  whose record is up to date: `NothingMissing` fails in this run too, and by
  `NothingIsMissing` below this is the only way a late widget can break it.
* **after_failure.** A statement that has failed fails once more when it is next used. If
  SQLite had undone the transaction of the first failure, so does the ROLLBACK that is
  to follow, in a destructor: the player ends.
* `DeletedRowsAreKnown` (`assert(false)` at `main_widget.cpp:345`) has no run of its own:
  added to `MCMediaLib.cfg` as an invariant it is violated. A directory goes with the
  records in it, by the cascade; their own DELETED events, from the same scan, then find no
  row. A release build ignores them.
* Not stated as properties, since the code makes no provision: the event queue is
  static and its events are applied to a widget created anew, whose tree has their rows
  already; the back-off is static and outlives its thread; `onChanged` is not
  unbound when `disconnect` destroys the thread, and `storeSettings` uses the thread after
  `disconnect` (reachable through the modal dialog); a settings file cut off by a crash
  keeps the plugin from starting until it is repaired by hand; a song that
  is replaced by a directory of its name keeps its record as a song; and a directory
  replaced by a song of its name loses the record, because the parent's scan notes a
  change of it, the check of the old directory its deletion, and deletions come last
  (with `MayBeFile` and `Supported` of `MCScanDisk.cfg` extended by path 2,
  `NothingMissing` is violated). The instances of the runs give each path one kind.

## 4. The proofs

`ScanThreadProofs` proves, for every library, file system, settings, initial
table and bound:

| theorem | property | argument |
|---|---|---|
| `TypeCorrect` | `TypeOK` | inductive by itself |
| `RowsAreRooted` | `Rooted` | `RootedInv` = `TypeOK`, `Rooted`, `ChangesApply` |
| `ForeignKeyNeverFails` | `NoForeignKeyFailure` | from `RootedInv` |
| `PartialScansAreDropped` | `PartialScanWritesNothing` | `TypeOK` and `CutShortBreaks` |
| `TransactionsAreClosed` | `NoTransactionLeftOpen` | `RootedInv`; the invariant in the proof |
| `NoRecordIsDeclaredDead` | `NoFalseObituary` | inductive with the invariant of `TransactionsAreClosed` |

The assumptions are those of the modules: paths are positive numbers ordered so
that a directory comes before what is in it, settings map paths to Booleans,
and the initial table is a table whose rows have older parents.

`Rooted` (every parent is in the table and is older) is not inductive: it needs to
know that what a scan has noted still fits the table when `save` writes it.
`ChangesApply` says so: every noted addition has its parent in the table, every
noted change is of a row in the table and keeps its parent. Deletions break that,
and they come last; from there on nothing noted is written. Inserting a row makes
its parent older because a new id exceeds all ids (`NewRowIdIsFresh`), and
the cascade leaves no child behind (`DeleteRowKeepsParents`).

`CutShortBreaks` says that a scan that was cut short has a flag set until its
changes are thrown away: only the scanner clears flags, and only at the ends of
the loop. Each loop of `save` then ends before its first statement.

`CourseProofs` and `LibraryProofs` prove what the library is worth:

| theorem | property | hypotheses |
|---|---|---|
| `RootsAreConfigured` | `OnlyConfiguredRoots` | `SteadyRoots` |
| `NamesAreUnique` | `NoDuplicates` | `Flaky = {}`; the initial tables have `UniqueNames` |
| `NothingIsMissing` | `NothingMissing` | `WellNamed`, `[]ActiveIdsAreDirectories`; the initial table is `Sensible` and misses nothing |
| `NothingIsMissingIfPrompt` | `NothingMissing` | as before, but `PromptWidget` instead of `[]ActiveIdsAreDirectories` |
| `NothingIsLeftBehind` | `NothingLeftBehind` | `WellNamed`, `Flaky = {}`; the initial table is `Sensible`, `InPlace` and leaves nothing behind |
| `ActiveIdsAreDirectoriesIfPrompt` | `ActiveIdsAreDirectories` | `WellNamed`, `PromptWidget`; the initial table is `Sensible` |

Each hypothesis excludes something the code really gets wrong:

* `Flaky = {}` (everything can always be read): otherwise two records of one name are what
  run `unreadable` finds, and the record after an unreadable entry's place is spared
  when it should go. `SteadyRoots` asks the same of the configured directories only.
  `NothingIsMissing` needs neither: the property is about steady entries.
* `WellNamed` (no directory is named like a song): otherwise a song may replace a
  directory of its name, which loses the record, as told above, or a directory that is
  not to be scanned is recorded as a song.
* `[]ActiveIdsAreDirectories`: what run `stale_ids` violates. `PromptWidget` implies it.
* The initial table is what an earlier run has left. `Sensible` (its write times are not
  in the future and its directories not named like songs), `InPlace` (a record hangs below
  that of its directory) and `UniqueNames` hold of the empty table, with which the first run
  starts; the properties themselves are asked of it because they are kept, not repaired.

All of them hold of the instance of `scan_disk`. The widget of `scan_requests` and `media_lib`
is late; only `scan_faults` and `unreadable` have a nonempty `Flaky`, and only `unreadable`
a root that is not steady.

The inductive invariant is a conjunction of parts, each checked by TLC on the instances of
the runs before it was proved. `CourseInv` follows the scan: what is noted when,
that the deletions noted are of rows, that a noted change keeps its row's name, that
additions are written first, that `files` and `committed` differ only within a
transaction. It holds for everything, failures included. On it stand

* `NamesInv`: additions noted have names that are neither in the table nor noted
  already. That needs the order of the work: the additions of a directory are of entries
  already visited, those of other directories of ones no longer in `todo`, and the
  record of an entry still to be visited is still among `oldRecords`.
* `RootsInv`: a root the settings do not name is among `oldRecords` until it is noted as
  deleted, and from then on noted until it is gone. It needs `Unhooked`: in an initial scan
  the widget cannot set `continue_`, since the thread unbinds itself before it clears it.
* `DirectoriesInv`: no write time lies in the future (`Times`), so that a record that is out of
  date can only become current by being replaced; and a directory is scanned once
  (`ScannedOnce`), so that this happens after everything else about it is noted.
* `MissingInv`: for each directory that is current, or will be once what is noted is
  written, what it lacks is noted as added or still to be visited (`PartHasAll`,
  `ChangesHaveAll`, `UpToDateHaveAll`). These are claimed only while no flag is
  set: once `shouldBreak` holds, `save` skips what remains of its loops, and `NothingMissing`
  alone must survive. It does because additions are written before changes
  (`AddedFirst`): when the first write time is written, either all additions have been, or
  a flag is set and no write time is written at all.
* `LeftBehindInv` is its mirror image (`PartAccounted`, `ChangesAccounted`), and what
  deletions remain is in `dropped`, because in the third loop write times are already written.

`MediaLibProofs` proves, for the scanner composed with the widget, every library, any
number of changes, calls and failures:

| theorem | property | argument |
|---|---|---|
| `RowReferencesAreValid` | `WidgetTypeOK` | inductive with what is known of the scanner |
| `DeletedRowsAreForgotten` | `ExpandedRowsAreShown` | inductive with `WidgetTypeOK` |
| `RecordsHaveOneRow` | `NoRowTwice` | `RowsInv` |
| `TreeBecomesTable` | `TreeIsTable`, while `faults = 0` | `RowsInv` and `RecordsInv` |
| `ComposedScannerIsSafe` | `TypeOK`, `Rooted`, `NoForeignKeyFailure`, `NoTransactionLeftOpen` | `WidgetKeepsLibrary` |
| `ComposedRootsAreConfigured`, `ComposedNamesAreUnique`, `ComposedNothingIsMissing`, `ComposedNothingIsLeftBehind` | as above, under the same hypotheses | `WidgetKeepsLibrary` |

Neither `NoRowTwice` nor `TreeIsTable` says anything of a tree in the midst of the queue.
The invariants do, by what is queued:

* A row is `Doomed` if the deletion of its record, or of one above it, is queued. Every
  other row is that of a record in both tables, below the row of the record's parent
  (`LiveRowsAreRecords`): the cascade in the table takes along exactly what `delRec` takes
  along in the tree (`CascadeFollowsTree`, `TreeFollowsCascade`), although it queues no
  events for it.
* An id is given out again only after its deletion, so before the queue gets to the
  new record's ADDED, the old row is gone (`RowsGoFirst`). This is what an
  `overtaken` id breaks, and why both properties except it.
* Every record has a row that will stay, or its ADDED event is queued (`RecordsAreShown`), its
  parent's before it (`ParentsComeFirst`), or `addRec` would find no row to put it below.
  A rollback breaks these and not `RowsInv`: the queue keeps the DELETED events of records
  that are in the table again. So `NoRowTwice` is proved after failures, too, while
  `TreeIsTable` holds up to the first failure only.

`WidgetKeepsLibrary` says that the widget's own steps keep every invariant of the
scanner: all they do to it is expand and forget rows and set `continue_`, and each part
claims nothing more when a flag is set. Here `[]ActiveIdsAreDirectories` cannot be replaced
by `PromptWidget`, since this widget is late.

`SharedCacheProofs` proves, for any set of readers and any number of calls:

| theorem | property | argument |
|---|---|---|
| `ConnectionsTypes` | `TypeOK` | part of `IInv` |
| `NobodySleepsForever` | `NoLostWakeup` | `WaitsAreAnswered` |
| `NoDeadlockIsFound` | `NoCallIsRefused` | `WaitsAreAnswered` and `CallsAreInPlace` |
| `IdleConnections` | `IdleHoldsNothing` | `LocksAreHeld` |
| `ConnectionsImplementSnapshots` | the safety part of `QueriesAreSnapshots` | `RowsAreCommitted`; a step simulation |

`ConnectionsInvariant` is the inductive invariant: `TypeOK`, that locks are held within
queries and transactions and a write lock alone (`LocksAreHeld`), what is called where
(`CallsAreInPlace`), that whoever is in the way or registered with is still to call
`sqlite3ConnectionUnlocked` (`WaitsAreAnswered`), that what a query has read is
committed (`RowsAreCommitted`), and `NoCallIsRefused` itself. The last needs
`WaitsAreAnswered`: who will still unlock is in the midst of a query, or is the
owner in its transaction; only the owner among these may wait, and it waits for a
query, so following the waits never leads back. Assumed is `SharedCacheAssumption`: finitely many
readers, none of them the owner.

`PluginProofs` proves, for every set of directories, settings file and length of rests:

| theorem | property | argument |
|---|---|---|
| `PluginTypes` | `PluginTypeOK` | part of the invariant |
| `SettingsAreTheUsers` | `UsersSettings` | `SettingsAgree` |
| `SettingsAreOnDisk` | `NextStartReadsTheSame` | `SettingsAgree` |
| `ThreadIsSafe` | `ThreadHasItsObjects` | inductive with the types |
| `RequestsAreSoonNoticed` | `RequestsAreNoticed` | `DelayIsOneSlice` |

`SettingsAgree` adds what is on disk while the player is not running, so that the next
start can be told from it; `DelayIsOneSlice` that `delay` is counted only from a slice to
the check right after it.

Every invariant of a passing run, and `PartialScanWritesNothing`, is thus proved, some under
the hypotheses named. Only model-checked are the liveness properties, which need fairness
and `ENABLED` and are out of the prover's reach: `StopEndsThread`, `RestartIsServed`,
`ExpandedRowsFollow`, `LibraryIsIndexed`, `ViewCatchesUp`, `CallsReturn`, `JoinsReturn` and the
fairness part of `QueriesAreSnapshots`.

## 5. What is left

Done: the table, the file system, the scanner and the statement cache; the widget
composed with the scanner; the connections, with the abstract specification they
implement; the plugin's life and its settings.

Worth adding:

1. A widget created anew on the old queue, and a `createWidget` that fails.
2. Theorems with weaker hypotheses: `NoDuplicates` when entries become unreadable only
   outside the directories that hold records, and what remains true of the tree after a
   rollback.

Not modelled for good: layout, the order of rows, drag and drop, playlists, the file of
expanded rows (its lines are positions; what is restored is some set of rows that may be
expanded, and every such set is an initial state), the plugin entry point, what
SQLite does below its table locks, the build.
