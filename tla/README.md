# Ringtone library: models and proofs

TLA+ specifications of the parts of the ringtone library whose correctness depends on
the order in which things happen: threads, processes, transactions, statements of an
upgrade, crashes, and a user who goes on choosing tones meanwhile. Each module was written
from the C++ sources under `services/`; the line numbers in the comments and in
`PROJECT.json` refer to them.

## The system

The library keeps ringtones, vibrations and (on some devices) haptic tones in one
relational store, `ringtone_library.db`, and their files in preload directories and in
the users' storage. Two processes write the store: the **data-share extension**, which
serves callers, and the **backup extension**, which restores a clone of another device or
the settings of the other framework.

| part | state | operations | hard because |
| --- | --- | --- | --- |
| scan executor (`ringtone_scan_executor`) | queue, `activeThread_`, `*stopFlag_`, `isScanFinished`, detached threads | `Commit`, `HandleScanExecution`, `Start`, `Stop` | threads never joined; half the state is outside the mutex; the counter does not count threads |
| boot scan (`ringtone_scanner`, `ringtone_scanner_db`) | row flags, the walk, a buffer per table, the parameter `ringtone.scanner.first` | reset flags, walk, batch upsert, delete what is unflagged | a mark and sweep over a database, with crashes, ignored errors, a stop flag and a second scanning process |
| transaction guard (`ringtone_rdb_transaction`) | `isInTransaction_`, the store's transaction, `isStart`, `isFinish` | `Start`, `Finish`, destructor | a static flag, a mutex that the commit does not hold, waits with a limit |
| data manager (`ringtone_data_manager`) | rows, files, `refCnt_`, `mgrSharedMutex_` | `Init`, `Insert`, `Delete`, `Update`, `Query`, `OpenRingtoneFile`, `ClearRingtoneDataMgr` | requests hold the lock shared, so they interleave; a row and a file must agree without a common transaction |
| data-share extension | user list and scan parameter | `OnStart`, `OnStop`, the data-share calls | a long start of many steps whose failures are logged only; one parameter for all users |
| setting manager, default settings | cache of settings to flush | `CommitSetting`, `FlushSettings`, preset card bits | merging bit sets; presets and customised tones compete for cards |
| clone restore (`ringtone_restore*`) | the backup's rows, files, card bits | `Init`, `StartRestore`, `OnPrepare`, `InsertTones`, `OnFinished` | files move before rows are committed; the user's settings must survive |
| dual-framework restore | the same, from a configuration | the same, and the eSIM migration | the same tone found in three places |
| store callbacks, eSIM migration | schema versions, rows, preferences | `OnCreate`, `OnUpgrade`, `CheckSimCard` | failures ignored between steps; steps run again after a crash |
| language manager | display names | `SyncAssetLanguage` | stops at the first failure |
| file utilities | files, folders | create, move, copy, renew a folder | several system calls per operation |
| usage reports (`ringtone_dfx`) | last report time | `Init`, worker thread | a thread started before initialisation ends |

How they interact: `OnStart` of the extension opens (or moves) and upgrades the store,
renews the folder of the user's tones if need be, commits a boot scan to the executor and
waits for it up to 20 seconds, moves old files, translates titles, and then serves requests;
the scan commits and flushes the default settings; the first client that reports a change of
cards starts the eSIM migration. `OnStop` stops the executor and clears the manager. Scans
and requests meet in the store. The restore may start a boot scan of its own in the other
process, then inserts its rows through the transaction guard, on whichever thread of the
pool runs it, and flushes its settings through the setting manager.

What makes each part correct: no scan task is lost, doubled or stranded, and Stop comes
back; a scan ends with the rows of the files that exist and deletes no other, whatever
interrupts it; transactions exclude each other and an error leaves nothing behind; every
row has its file when no request runs, requests end, and the number of videos is bounded; a
restore brings every tone the other user chose and takes away none this user chose; an
upgrade ends with everything the current version has, from whatever version and however
often it was cut off; an eSIM inherits what it had as the second card. `PROJECT.json` lists
the hazards, each at its line, with the properties that cover it or the reason why none does.

## Modules

| module | what | runs it in |
| --- | --- | --- |
| `ScanExecutor` | `RingtoneScanExecutor` with the calls of `OnStart`, `OnStop`, `ScanFile`, `ScanDir` | itself, two cfgs |
| `ScanExecutor_proofs` | eight theorems | tlapm |
| `BootScan` | `BootScanProcess` of one or two processes | `MCBootScan`, three cfgs |
| `BootScan_proofs` | six theorems, five of them about a single scanner | tlapm |
| `RdbTransaction` | `RingtoneRdbTransaction` under `BatchInsert` | `MCRdbTransaction`, two cfgs |
| `SerialBatch` | what `BatchInsert` promises; `RdbTransaction` implements it | `MCRdbTransaction` |
| `RdbTransaction_proofs` | five theorems, the refinement among them | tlapm |
| `DataManager` | `Init`, `Clear`, `Insert`, `Delete` of the manager | `MCDataManager`, three cfgs |
| `DataManager_proofs` | six theorems | tlapm |
| `ToneSettings` | `RingtoneSettingManager`: operators on tables and caches, no state | used by the next two groups |
| `ToneSettings_proofs` | what these operators return, keep and bound | tlapm |
| `RestoreBase`, `CloneRestore`, `DualRestore` | the state and common steps of a restore, and each kind's own | extended by `Restore` |
| `Restore` | their composition with a user and crashes; the properties | `MCRestore`, one cfg |
| `Restore_proofs` | six theorems | tlapm |
| `Library` | what of the store, files and preferences outlives the process, and how steps fail or die | extended by the next three |
| `Upgrade` | `OnCreate`, `OnUpgrade` step by step | extended by `Startup` |
| `ESimMigration` | `CheckSimCard` of several clients, statement by statement | extended by `Startup` |
| `Startup` | `OnStart` from the opening of the store to serving, with the boot scan beside it | `MCStartup`, one cfg |
| `Startup_proofs` | the types, through start, upgrade, scan and migration | tlapm |
| `StartupTones_proofs` | three theorems: the user's tones, the titles, the completeness of upgrades | tlapm |

Operators named "A mutant of ..." or preceded by "Mutant:" are not part of a
specification. Each is a plausible slip in the operator that follows it, kept to show that
a property notices.

### ScanExecutor

Tasks are numbered as they are committed and thread `n` is the one that the commit of
task `n` spawned. A thread walks `created` (before `isScanFinished = false`), `loop`,
`scanning`, `leaving`, `notifying`, `exited`. What happens under `queueMtx_` is one step;
`isScanFinished`, `*stopFlag_` and the notification are accessed without it and are steps
of their own. Those two flags are plain `bool`s in the code, so their accesses race; the
model gives them the atomic accesses that the compiled code makes, which is the mildest
outcome, and the violations found need no worse one. `Stop` is the one operation that
keeps the mutex over two steps: its test of the flag, and the wait, which releases it.
`WaitFor` has no predicate and may return at any time. `OnStart` calls `Start` and commits the
boot scan only if `ringtone.scanner.first` is "false", so it may also leave the executor as it is;
`ScanFile` and `ScanDir` commit a task at any time, their Sync forms scan in the caller's thread
and have no part here. `SizeMod` is 2^w for the width of
`size_t`; what the counter does at zero is the same for 8 as for 2^64.

Bounds: 2 threads, 3 commits, 2 starts, with spurious wake-ups. Three commits are one more
than `MAX_THREAD`, so a commit is refused a thread and the counter wraps; with two starts a
Stop and the tasks it drops come before a second life. (4 commits give the same answers in
577 289 states and some four minutes.) In `ScanExecutor_hang` `MAX_THREAD` is the code's 4.

Fairness: weak, for each thread (the operating system schedules it, and a scan of finite
directories returns) and for the steps of a `Stop` that has begun. None for clients, for
`OnStart` and for spurious wake-ups.

### BootScan

A scanner is a process; a step is a database operation, a directory entry or a system
call. A row is its id, its file and `scanner_flag`; titles, types and the other columns
are left out (`Startup` has them). Directories have one level of subdirectory, whose loop is
a second one inside the first. Buffers and batches are as in the code: an entry that fills a
buffer flushes it at once, and the end of a directory commits all tables. `Crash` may come
between any two steps, `Reboot` changes the preload directories as an update does.
`Failures` lets every call fail; where the code ignores the result, any part of the batch
is written and the scan goes on. So it does, and ends well, where a directory has no real path
or is neither directory nor file (`PassOverDir`) and where `readdir` ends with an error
(`ReaddirFails`). `sawStop` and `skipped` record, for the properties, why
a file may have been left out: a property that excuses a file excuses exactly one that the
scan met an error on, or all of them after a stop.

Bounds: four preset files in two directories, one customised file, two tables, batches of
2, two scans. The first directory holds two files of one table, one in a subdirectory,
which fill a batch during the walk, and one of the other table, whose batch is written at
its end; two scans are an interrupted one and its repetition, or one, whether it ended or not, and another
after a reboot with other files. The initial rows are every subset of the files.
`BootScan_two` has two files in one table, which is what it takes.

### RdbTransaction and SerialBatch

The users are restores on threads of one process, with the same store. `BeginTransaction`
holds the mutex over its sleeps; the committer does not hold it while the store commits.
A transaction may outlast `RDB_TRANSACTION_WAIT_MS`, so the wait may end at any time;
`CommitLeaves` says what the store does to the transaction of a failing commit, which the
sources do not determine: `"open"` or `"closed"`. Testing `InTransaction` and the store's `Commit` (or
`RollBack`) are one step; no other thread's step in between changes what the store does.
Deadlock is not checked since all restores may be done.

`SerialBatch` is the promise to a caller of `BatchInsert`, without mutex, flag, tries and
timeouts: transactions one after the other, rows durable at once and by their own
transaction only, and no row, now or later, of a restore that is told of an error. The
refinement maps the store's transaction to `open` and the results to `told`; `durable` is
the same. Its `Commit` requires that the user has not been told of an error, which is what
says that a commit makes its own rows durable, and its `Refuse` that the user has no rows.

With `"closed"`, `ErrorMeansNoRows` and `Serial` fail, because the guard of the
failed commit rolls back or commits whatever is open by then. That depends on the store
and is stated as an assumption of the three theorems rather than as a finding.

Bounds: three restores (the one that commits, the one that begins too early, a third that
begins after it), 2 tries in place of 30: a try has no state but its number.

Fairness: weak for each restore that has started. The mutex is free again after a bounded
number of steps, so weak fairness is what a fair scheduler gives, and `BatchInsertReturns`
does not depend on the order in which waiters get it.

### DataManager

A request is a record per calling thread with the place it is at; each store call and each
system call is a step, as is taking the shared lock. `Init` and `Clear` take the lock
exclusively for what is one step. `WriterFirst` is the choice a `shared_mutex` has: with
TRUE (libc++, which the system uses) a reader that comes after a waiting writer waits.
Rows of both tables, files, and the two lookups of `Insert` are as in the code, the lookup
of a vibration's id in `ToneFiles` included. Paths of the wrong extension, which
`CreateFile` refuses after the row is written, take the same way back as a creation that
fails. A write to the SIM card settings returns before either lookup
(`ringtone_data_manager.cpp:207`) and is no request of the model; a failing `Init` is none
either, since it can only be that of the first `OnStart`, which then kills the application.
`CheckSimCard`, the part of `Update` that is more than a statement, is in
`ESimMigration`.

Bounds: two callers, two paths, three or four requests, one or two OnStop calls. The
interleavings that matter are of one `Insert` with one `Delete` or one other `Insert`, with
a row in place before; the last request leaves room for a repetition.

Fairness: weak for every request that has begun and for the two exclusive sections.

### ToneSettings, and the restores

A setting is a kind (ring, shot, notification, alarm) and, for ring and shot, a card; the
bit sets of the columns `*_tone_type` are sets of cards, so that the tests
`IN (combinations of the card)` of the queries become membership. A table is a function from
paths to rows, the cache a set of items `[path, kind, cards, by]`. Everything the setting
manager does to a table is an operator of `ToneSettings`; the restores and the scan call
them one card at a time, which is the unit in which `FlushSettings` queries and updates.
The order of the cache means nothing in the code (it is that of the paths), so any item may
come first.

`RestoreBase` has the state of a restore and what both kinds share: `StartRestore` with its
scan and the preference written after it, the slots without a tone remembered before
anything changes, the batch insertion, `OnFinished`, the flush, and the repair of vibrations
at the end. `CloneRestore` adds the clearing of the eSIM's bits on the other device
(`CleanESimData`), the rows that turn tones off, the settings of vibrations, the check of
the backup's files, the limit on videos and the moves with their renaming (`b`, `b(1)`, ...).
Tones that `MakeInsertValues` passes over, since `GetRestoreDir` has no directory for their type
or `OnPrepare` no name for their file, are the constant `Unplaced` (`PassOver`).
`DualRestore` adds the eSIM migration, the three places a tone of the other framework is
looked for, and the copies. Files are the same for the code when their sizes are equal, so
a file's content is its size. `phase` is the place in `StartRestore`, `work` the object's
memory, which a crash loses; the caller then starts the restore again on what is left of the
backup. `UserCustomises` is `Update` in the other process at any moment.

`given`, `intact` and `changes` are history variables: what was ever set for a card by
either device or the user, whether any call failed, and how often the user chose.

Bounds: 106 pairs of devices (`MCJobs`): the presets, customised and missing tones of this
device against those of the other, a tone of the same name that is absent, the same file or
another one, a preset whose path differs between the devices, a video with and without room
for it, a first scan that has not been made, and upgrades for each set of cards that has a
migration scenario. At most one choice of the user's (in some jobs
one of two) and, in the clones with another file of the same name and half of the upgrades,
one crash, each at any moment: second ones repeat what the first do to rows a step later reads.
One tone of the backups, `c`, is unplaced. Three cards are the fewest with two ordinary ones and an eSIM, and
two kinds the fewest with one that has cards and one that has none.

Fairness: weak for the steps of the restore, which runs in a thread of the uv pool to its
end; none for the user and for crashes, of which there are finitely many.

### Library, Upgrade, ESimMigration and Startup

`Library` holds what outlives the process: the databases of the two storage areas, the
preferences, the files of the user's tones with their places, the folder's permission, and
the parameters, which a reboot loses. A tone is its display name and stands for its id. A step
is a statement, a system call, or a loop of them whose rounds do not depend on each other:
`Ends` says that such a step is done, or that a part of it is done because something failed,
which is logged and passed over, or because the process died. `failures` and `crashes`
bound the faults, by job.

`Upgrade` is `UpgradeExtension` as a sequence of steps with the version that has each; the
version is stored after the last, so that a crash repeats them all. `ESimMigration` is a
list of statements per client, since clients hold the manager's mutex shared and their
statements, and the user's `Update`, interleave. `Startup` is `OnStart` around them: the move
of the database out of the encrypted area, the renewal of the folder, the scan (a thread of
its own, which `WaitFor` may not see end), the copies from the old folder, the titles. The
scan here is three writes of whole rows it read earlier, the default settings with their
flush (without force), the conf table, and the deletion; how it walks is `BootScan`'s.
`MkdirRecursive` returns `E_SUCCESS` whatever happened, so a folder that is not made goes unnoticed
(`CreatePreloadFolder`). Vibrations are translated if their type is the standard one, which
`StandardVibrations` names; the scan gives those of alarms, ringtones and notifications, and the
gentle ones, other types.

Bounds: 73 libraries (`MCJobs`) in five groups. *Migrations* start from version 12 with each
set of cards that has a scenario and some that have none, two clients and one choice of the
user's or one crash. *Upgrades* start from each version whose set of steps differs in more than its
length (1, 3, 4, 6, 8, 10, 12). *Scans* are the first start, starts in another language,
presets that come and go, and a scan that outlasts the wait, with three vibrations: one that has a
translation, one that has none, and a gentle one. *Files* put the tone in each
place with each state of the folder. *Moves* start from the encrypted area. In each group one crash
at any moment or one failure of any call: a second fault adds nothing that a property
promises, since all but `MigratedTonesPlay` and `TypeOK` are about runs without failures
and crashes are followed by a complete start. Two clients are the fewest that overlap.

There is no liveness property here: `OnStart` is a straight line whose only wait has a limit.

## What the runs show

Passing runs:

- `ScanExecutor_clients`: no task is lost, served twice or revived; `activeThread_` is,
  modulo 2^w, queued tasks plus dropped ones minus commits that were refused a thread; while
  no commit was refused a thread, nothing is stranded, and that is the case for the first
  `MAX_THREAD` commits of a process; Stop waits only if someone is there to wait for, and
  returns if a thread has yet to notify.
- `BootScan_single`: one scanner never doubles a row, never writes from a stale buffer, and
  deletes only rows whose file is gone or met an error; a scan that ends well is exact, and
  `scanner.first` is not set before the rows are.
- `RdbTransaction_three`: transactions exclude each other; an error leaves no row; concurrent
  `BatchInsert`s are serial ones (`SerialBatch`); and `BatchInsert` returns, even after a
  transaction that is left open.
- `DataManager_mixed`: between requests every row has its file and a path no more rows than
  there are inserting callers (`DoubledByCallers`: one per caller is what two of them get, as
  both find the file missing); a failed insertion of a tone leaves no row; requests end when
  the mutex lets readers pass.
- `DataManager_failures`: the manager is there as long as a request runs, whatever fails; and
  the videos exceed their limit by at most the number of concurrent inserters less one.
- `Restore_all`: no step of a restore takes a card from a tone this user chose, even if it is
  chosen while the restore runs (`OwnSettingsKept`); a card that has a tone is never left
  without one on the way, unless the cloned device has none (`NeverSilenced`); no tone is set
  for a card for which nobody set it (`NoForeignTone`); a clone without failures brings every
  tone the other user chose that has a place on this device, under whatever name its file got
  (`SettingsArrive`); no file of this device is overwritten, and none of the backup goes before it
  is on the device, unless a call failed or it is a video without room or an unplaced tone
  (`TonesNotLost`); and the loops over tones, settings and cards end (`RestoreEnds`; that over the
  rows of the backup's database is one step, see "Not modelled").
- `Startup_all`: from every version, wherever the process died on the way, the upgraded store
  has every table, row and default of the current version and every choice of the user's
  (`UpgradeCompletes`); a tone of the user's that could be played still can after all moves
  of files and folders, with any call failing (`MigratedTonesPlay`); the titles of preset tones and of
  standard vibrations are in the system's language after each start, unless an update failed or a
  scan came late (`TitlesInLanguage`); and an eSIM that was the second
  card has exactly its tones and vibrations, whatever clients and the user do meanwhile
  (`ESimInherits`).

Runs that end in a violation, each with its finding in `PROJECT.json`:

- `ScanExecutor_hang`: `OnStop` blocks for good after a lost notification.
- `BootScan_stop`: a stop seen in a subdirectory is forgotten and unvisited rows go.
- `BootScan_two`: two scanning processes delete rows of files that exist.
- `RdbTransaction_race`: a destructor leaves its transaction open.
- `DataManager_recursion`: a rollback, `OnStop` and the mutex deadlock.

`CHECK_DEADLOCK FALSE` is in the cfgs because their bounded behaviours end: the requests,
scans, commits or restores allowed are used up and every thread has exited. What must not
block for good is stated as liveness.

## What the properties leave out

The premises of the properties above are there because the code does not promise more. What
the models show beyond them, and a reader of the code may not expect:

Executor, store and manager:

- Stop returns while another thread still scans, since `isScanFinished` is one flag for all
  (`ringtone_scanner_manager.cpp:159` speaks of "all working threads"), and the next Start
  resets the stop flag under that scan. After `MAX_THREAD` dropped tasks no thread is
  spawned any more.
- A failing commit is not reported: `Finish` is void and `BatchInsert` returns the insertion's
  `E_OK`, while the example in `ringtone_rdb_transaction.h:38-39` tests its result.
- The limit on videos is exceeded by concurrent insertions; `VideoOverrun` is the bound that
  is left of it.
- The id of a row inserted into `VibrateFiles` is looked up in `ToneFiles`, so the rollback of
  a vibration deletes the ringtone with the same id and leaves the vibration, against what the
  log says in `ringtone_data_manager.cpp:214` and `:222` ("delete row %{public}d from db").
  `DataManager_failures` has both tables and such a rollback; `FailedInsertLeavesNoRow`,
  `RowsHaveFiles` and `DoubledByCallers` are checked for `ToneFiles` only.
- A deletion by id may pick the row that an insertion is about to roll back and take the file
  of the row it doubles: `RowsHaveFiles` is checked for deletions by path.

Restores:

- Whether the user has a tone of his own is asked when a setting is committed; the flush is
  forced. A choice made in between stays (`OwnSettingsKept`) but is no longer the only one:
  two customised tones may hold one card. So may the commit for a preset row that becomes a
  customised one with all its cards; the comment at `ringtone_setting_manager.cpp:186-191`
  assumes there is one.
- A process that dies between `OnFinished` and the flush has removed the backup and loses the
  settings; one that dies in an upgrade from the other framework inserts a second row for a
  tone on the retry, and carries what it restored before to the eSIM once more.
- Tones of a contact, of the camera or of no type have no directory to be restored to
  (`restore_base.cpp:790-803`), and `OnPrepare` refuses files of other formats: they are passed
  over without a word, and `OnFinished` removes them with the backup (`ringtone_restore.cpp:318`)
  before the extension moves what is left there (`RingtoneBackupExtAbility.ts:154`). They are lost
  with no call failing; `TonesNotLost` and `SettingsArrive` are about the others. An upgrade
  restores the three kinds that have a directory only (`ringtone_dualfwk_restore.cpp:211-227`).
- A query that fails and is read as 0 or as empty (`QueryInt`, `IsDetermineNoRingtone`) is not
  modelled: `NeverSilenced` is about failing statements, moves and insertions.
- A tone that could not be moved is removed with the backup, and two files of one size and
  name are taken for one. In an upgrade a tone whose name is taken is copied as `b(1)` but
  gets no row.
- `HandleUpgradeWithESim` runs before the configuration's settings are flushed, so an eSIM
  inherits what this device had for the second card and not what is restored to it.
- `CleanESimData` for a peer with one slot leaves the second card without a tone in the
  backup, which the restore reads as the choice of none.

Upgrade, migration and start:

- From a version before 4, `INIT_PRELOAD_CONF_TABLE` creates the eSIM's types at once, and
  `UpdatePreloadConfTable`, which takes a full table for its own work, skips the eSIM's
  defaults; a crash between the two has the same effect. `UpgradeCompletes` claims the defaults
  for versions 4 to 12 without a crash.
- A migration that runs twice, because two clients overlap or the process died before the time
  was reset, moves card 1's tones to the eSIM if the cards were swapped; `ESimInherits` is
  claimed for one run in that case, and for any number in the others. If the cards cannot be
  detected once, or nobody calls within a minute of the upgrade, nothing is inherited at all.
- A user who chooses the eSIM's default tone for another card makes its row customised, and
  `RemovePresetToneTypeBit` does not take it from the eSIM (`history.ever` exempts what an
  eSIM was given by a choice). `SetEsimToneBit` turns a user's choice for another card into a
  preset one when it is the eSIM's default.
- `VibrateModeIsNull` takes every mode but 1 for none, and the upgrade overwrites it.
- A scan that outlasts the 20 seconds of `OnStart` writes back rows as it read them: a choice
  the user made meanwhile is undone and old titles come back over translated ones
  (`history.late` in the premises). Scans always reset the language mark of vibrations.
- Titles of gentle vibrations and of those of alarms, ringtones and notifications are never
  translated: `CheckLanguageTypeByVibration` looks for `vibrate_type` 1
  (`ringtone_language_manager.cpp:440`), which the scan gives to none of them.
- `UpdateDefaultTone` runs before `DeleteNotExist`, so the conf table may keep the id of a
  row that is deleted a moment later.
- A crash or a failing rename between the renaming of the tones' folder and the moves back
  leaves tones in the temporary folder, where no later start looks; the update of a path that
  fails after the copy leaves the row at a file that is removed (`history.unsaved`).
- A database that was moved from the encrypted area earlier, and is then upgraded from a
  version before 5, has its preference reset: the next start copies the old database over the
  new one. Likewise if the preference cannot be written after the move and the process is
  started again: it moves once more. What the user did in between is lost.

## What is proved

For every value of the constants, from the named assumptions on them, which TLC evaluates
in the runs: `ExecutorAssumption`, `TransactionAssumption`, `DataManagerAssumption`,
`BootScanAssumption` (the files are finitely many, a batch is not empty),
`ToneSettingsAssumption` (the kinds and cards are some of the code's), `RestoreAssumption`
(no path is empty), `UnplacedAssumption` (unplaced tones are paths), `LibraryAssumption` (two cards at least; a language is none of the marks
for no language), the two `JobsAssumption`s (a job is a state the devices can be in: tables are tables, a file the
scan reads is a preset wherever it has a row) and `OneToneAssumption` (the other framework's
configuration and a backup name one tone for a kind and card).

**ToneSettings.** The lemmas say what each operator of the setting manager does to any table:
which rows, cards and sources a commit, a flush, a preset's and a customised tone's
update leave alone, what they add, and that none leaves a card without a tone it had. The
proofs about restores and starts cite them.

**ScanExecutor.** `TypeCorrect` is inductive as it stands but for the modulo arithmetic
(`ModSmall`). Four theorems rest on one inductive invariant, `IInv`. `QueueServed` alone is
not inductive: a `Pop` must not take the last look away, so the invariant says which tasks
have a thread and how the counter relates to queue and commits; `CounterCoversQueue` needs
that no wrap has happened yet, which needs the count of commits. `UnfinishedMeansRunning`
rests on a thread's own flag write preceding its last one. `Apart` says that a committed task
is in one place and there once, a queue without repetitions included: from it come
`TaskAccounting`, `NoTaskComesBack` and, with a count of the commits that were refused a
thread modulo the width of `size_t`, `CounterMeaning`.

**RdbTransaction.** `OneAtATime`, `CommitsItsOwn` and `Serial` are properties of steps. The
invariant says that whoever is at `begin` holds the mutex, with the store in no transaction
since the test, and that an open transaction is that of a restore at `insert` or `finish`, or one
whose commit failed. `ErrorLeavesNoRows`, `CommitsOwnRows` and `InsertsAreSerial` assume
`"closed" \notin CommitLeaves`. `InsertsAreSerial` is the refinement: initial states map to
initial states, and every step of the guard, the retries and the timeouts is a step of
`SerialBatch` or changes nothing it sees; a commit is its user's own by the same argument as
`CommitsOwnRows`, and a refusal finds no row since rows become durable after the insertion
has succeeded only.

**DataManager.** `NeverTornDownUnderARequest`: `ServedWhileInitialised` is not inductive,
since nothing in it says that `Clear` cannot follow a check. `IInv` adds that a
request holds the lock exactly while it is served (`HoldsWhileServed`), that `refCnt_` is 1
exactly while the extension is up or stopping, and that the lock is free otherwise
(`CountsTheExtension`). `TypeInv` adds what a request knows: ids are given out once per table
(`RowIds`), those to come are within bounds although several insertions are on their way
(`IdsLast`), and the id an `Insert` has looked up is that of a row with its path (`Known`).
`VideosOverrunByCallers` counts the videos there are and the insertions that have passed the
count (`Overrun`): the last to pass did so below the limit, and only the others can have
passed before it; hence the assumption that the callers that insert are finitely many, and
at least one. `QuietRowsHaveFiles` needs that a row without its file is that of a request that
will see to it, its own `Insert` or a `Delete` of its path (`Owned`, `Consistent`).
`PathsDoubledByCallers` counts the rows of a path that no rollback is bound to take
(`Standing`). They grow only where an `Insert` has found no file; but then, unless a deletion
of the path has taken it and will take the rows (`Sweeping`), every row that stands is one
whose file is still to be created, by its own caller, so that the rows are as few as the
callers that insert (`LookedInVain`, an injection).
`FailedInsertsAreSwept`, `QuietRowsHaveFiles` and `PathsDoubledByCallers` are stated for
`Tables \subseteq {"ToneFiles"}` and a store that does not fail, and the last two
for deletions by path: these are the constants of `DataManager_mixed`, and without them the
code does not keep what they say (see "What the properties leave out").

**BootScan.** The types for any number of scanners. The rest is about one
(`Scanners = {s}`; with two it is false, which is what `BootScan_two` shows), whatever fails, stops
or dies. `Inv` says of the scan what its properties only say of its end: the buffers hold each
file once, in the order of the walk (`Orderly`), with the row the batch will find
(`Current`); a row that is flagged is of a file that is there, table by table as the flags are
reset and the rest is deleted (`Flagged`); and every file that is there, but for those
that a failed call or a stop excuses, is done, buffered or still to be read (`Covered`). From it follow
`OneRowPerFile`, `BuffersCurrent`, `FinishedScanIsExact` and `OnlyMissingDeleted`, and, for
scanners that look at the parameter before they start (`Backup = {}`), `FirstMeansScanned`.

**Restore.** For any devices, backups and choices of the user, of both kinds of restore.
`Shape` gives the types the phases: what of the object's memory a phase uses. `OwnSettingsKept`
and `NeverSilenced` are properties of steps: each step changes the table by operators of
`ToneSettings`, or is the user's. For `NeverSilenced` that is not enough, since a customised tone
takes its cards from the presets: `OneTaker` says that at most one tone is to take a card, be it
in the cache or on its way there, which is where `OneToneAssumption` is needed.
`TonesNotLost` needs that until the backup is removed each of its tones, but for videos and
unplaced ones, is on the device or still to be restored (`Sorted`); `NoForeignTone` that nothing else is on its way to the table, in the
object's memory or in the cache (`Justified`).

`SettingsDoArrive` is `SettingsArrive` for the clones that are `Fitting`, with any tones unplaced. Its invariant,
`Arriving`, is about clones in which nothing has failed and the user has chosen nothing so far
(`Quiet`). It says of each setting the property asks for how far it has come (`Way`): the file is in
the backup, then its tone is among those to be restored or, with the card, in the cache
(`Sent`), then the card is set or there is a step left that will set it (`Leaving`). What keeps
a setting on its way is beside it: no tone of the user's has the card yet and no two tones do (`Free`),
which the steps before the flush leave so since they only take cards away (`Fewer`); one tone at most is to take it
(`OneTaker`); presets stay presets (`SameTones`); and every file of the device has a row or is about
to get one, so that the name a file was given is not that of a row without a file (`Enlarged`).
The condition of `Leaving` on presets is what `IsPresetTonePath` asks for: a tone that is
the remembered preset of a card is not set but kept, so it must hold the card until then. `Fitting` asks of
the device, its presets scanned, that one tone at most holds a card, and that each of its
files has a row; of the backup, that its files are those of customised tones; and of both, that
a preset tone of the device stands for presets of the other alone and is found by its path. None of
the four can be dropped. A row has one source for all cards of a kind: where two presets hold a
card, setting the one for another card makes it the user's for both, and the flush takes the card
from the other, which was to have it. A file without a row counts as restored and gets no
row to set. A preset that came with the backup, or has the name of a tone of the user's,
would make the property ask for a tone that nothing was restored for. Every clone of
`Restore_all` satisfies it.

**Startup.** `TypeCorrect` covers the start, the upgrade of any version, the scan beside it
and any number of clients of the eSIM migration; with the types it says which database
is open, that a scan beside the later steps is one that outlasted the wait, and that clients
are served in the end only (`Staged`). `UsersTonesPlay` is `MigratedTonesPlay` for
the libraries that are `Steady`. Its invariant follows a tone of the user's from one database to
the other (`InEl2`, `InEl1`), through the paths an upgrade corrects and the renewal of the folder,
and says while files are copied that the old folder is only removed if each of its tones was
copied and its row tells so (`Copying`). It needs that a scan writes no row over the
user's (`FactoryInv`). `Steady` says that the database is moved once at most; the other
libraries are those of the last item above, where a second move brings back rows from before
the tones were moved. `PresetsAreTitled` is `TitlesInLanguage` for libraries whose own marks
say the truth (`Titled`). It is about preset tones and the vibrations of `StandardVibrations`,
whichever they are. What is marked is titled (`Coherent`), but a scan writes back titles
it read earlier: its buffer agrees with the table as long as it is not late, because nobody
translates while `OnStart` waits for it (`ScanTitled`); what is marked so far in a start is
`Marked`.

`UpgradeIsComplete` is `UpgradeCompletes` for libraries that are `Grown`. The steps of
`OnUpgrade` are numbered (`StepFacts`), and `Whole(db, F, p)` says what the steps before step p
have made of a database; a lemma for each kind of step shows that it leaves `Whole` for the next
step, or for itself if the process dies at it (`Reaches`). A process that died starts again
with the step its stored version names (`FirstOf`), which is an earlier one, and what is whole for a later step is
whole for an earlier one (`WholeBefore`). The invariant `UpgradeInv` adds where a
database is (`Stage`), which of the two databases is the one that is upgraded (`StaysInEl1`,
`StillInEl2`), that the user's choices are those of the library that was found and no others
(`Chosen`), and the defaults set so far (`DefaultsAt`). None of this is inductive without what
goes on beside (`Aside`): the rows a scan has buffered hold no choice that is not the
user's, the flush is of preset tones only, and no tone whose path is still to be corrected is on its
way to another folder. `Grown` asks that what was found is as the upgrades to its
version leave it (the tables and types it knows, at version 13 the defaults, before it no choice for an
eSIM); that one tone at most is chosen for a kind and a card, since the flush takes the
cards of a chosen tone from every preset one, a chosen one too (`ClearPresetCardBitsByCustom`);
that a chosen tone is the user's own or one that the scan still reads, since the scan
deletes the other rows, chosen or not; and that a database that was moved is not moved a
second time.

All these conditions are of the initial library, and every job of `Startup_all` satisfies them.

Only model-checked:

- liveness (`TasksLeave`, `WaitingStopReturns`, `BatchInsertReturns`, `RequestsEnd`,
  `RestoreEnds`), which the proof system does not reach;
- `ESimInherits`, which needs what each statement of several clients at once has left to the next.

## Not modelled

- `Query` and `OpenRingtoneFile` change nothing; the single-file scans (`ScanFile`, `ScanDir`)
  are commits to the executor and otherwise the upsert of `BootScan` without its deletion, which
  their Sync forms do in the thread of the caller.
- The boot scan that `StartRestore` makes (`ringtone_restore_base.cpp:103`) begins and commits
  transactions on the restore's store without the guard (`ringtone_scanner.cpp:423`, `:432`, `:458`,
  `:467`). Its batches are `BootScan`'s; between them and a `BatchInsert` of another restore of the same
  process `RdbTransaction` has nothing to say.
- Failing statements within `CleanESimData`, which are logged and passed over
  (`ringtone_restore_db_utils.cpp:217-242`, `:269`), wildcards in a path that `LIKE` compares, and a
  batch of the scan inside `Startup` that is written in part (`BootScan` has those).
- A short `sendfile` that `DoCopyFile` takes for a whole copy (`ringtone_file_utils.cpp:500`): a file is
  copied or is not.
- Several users: `ringtone.scanner.first` is one parameter for all of them, so a scan of one
  answers for another. A second user would double `Startup` for this one parameter.
- The parser of the other framework's configuration, media metadata and the XML of the
  translations: conversions of data without state. Their results are inputs of the models.
- Permission checks, URIs, marshalling, adapters of system services, value objects: nothing
  that outlives a call. The promise of `JSStartRestore` that is never resolved when its uv
  loop cannot be had, and the loop of `QueryFileInfos` over a row that cannot be read, are
  failures of allocation and are left out.
- Usage reports: a worker thread that may read `isInitSuccess_` before it is set and record a
  report it did not make; no other part reads what it writes.

## Plan

What is left, in this order: `ESimInherits` for a single client, whose statements then follow
each other, with what the user may choose in between. A second user of `Startup`, for the parameter `ringtone.scanner.first`, would cover a hazard
that no property covers yet.
