# mysql-backup in TLA+

TLA+ specifications of mysql-backup, the program of this repository that dumps MySQL and
MariaDB servers to files, object stores and remote hosts on a schedule, prunes old backups and
restores them. The modules are translated from the Go source under `src/`. TLC checks them on
small instances, and TLAPS proves the central theorems of several of them for every instance.

`PROJECT.json` has the details in a form that can be processed: for every definition the lines
of the source it stands for (`map`), the runs, the hazards the properties are aimed at, the
disagreements found between the code and its documentation, and for every checked property a
change to the code's model that breaks it (`mutants`). The mutated definitions stand in the
modules next to the ones they replace, each under a comment that starts with `mutant:`; nothing
else refers to them.

1. [The program and its parts](#1-the-program-and-its-parts)
2. [Modules and what they correspond to](#2-modules-and-what-they-correspond-to)
3. [Runs](#3-runs)
4. [Bounds](#4-bounds)
5. [Fairness](#5-fairness)
6. [Proofs](#6-proofs)
7. [What the code does differently from what is said of it](#7-what-the-code-does-differently-from-what-is-said-of-it)
8. [What is not modelled, and what is assumed](#8-what-is-not-modelled-and-what-is-assumed)
9. [Plan](#9-plan)

## 1. The program and its parts

The program has three commands. `dump` and `prune` run on a schedule; `restore` runs once.

    cmd/dump ──▶ Executor.Timer ──▶ Executor.Dump ──▶ database.Dump ──▶ mysql.Data.Dump (per schema)
                 (core/timer.go)    (core/dump.go)    (database/dump.go)  └▶ baseTable (goroutine)
                       ▲                  ├──▶ archive.Tar ▶ encrypt ▶ compression ▶ file
    cmd/prune ─────────┘                  ├──▶ storage.Push, target after target
         │                                └──▶ (back in cmd/dump) Executor.Prune
         └──▶ Executor.Prune ──▶ storage.ReadDir, Remove
    cmd/restore ──▶ Executor.Restore ──▶ storage.Pull ▶ archive.Untar ▶ database.Restore

| part | state it keeps | operations | what is hard about it | correct when |
|---|---|---|---|---|
| **scheduler** `pkg/core/timer.go` | an unbuffered channel of updates, a timer goroutine, the time of the last run | wait for begin or cron, offer an update, run the command | two goroutines; an offer nobody waits for is dropped; runs longer than the interval; a clock that is set | runs are on their slots or one interval apart, only a `once` schedule ends, and the schedule goes on |
| **backup run** `pkg/core/dump.go`, `cmd/dump.go` | two temporary directories, the archive, files on the targets | scripts, dump, archive, push to each target, prune | failure or death at every stage; half-written uploads | an ok run is on every target, nothing old goes before the new backup is there, nothing is left lying about |
| **dump pool** `pkg/database/dump.go` | a semaphore, a wait group, an error channel, the shared `*sql.DB` | spawn, dump, report, release, collect | goroutines that share connections with session state; errors from any of them | bounded parallelism, every error reported, no send on a closed channel, each file has its own schema's tables |
| **dump of one schema** `pkg/database/mysql/{dump,table,view}.go` | one transaction, for each table a goroutine, its buffer and a channel | list columns, stream rows, pack them into INSERTs, write | the two goroutines use one transaction; errors inside the goroutine; who waits for whom when the writer fails; packet limits | all rows, once, in order; an error is an error; it ends |
| **text of a dump** `pkg/database/mysql/*.go` templates | none | header, table, trigger, routine, view, footer | what is written is read by a line scanner elsewhere | the reader gets back the statements |
| **restore of a dump** `pkg/database/restore.go` | scanner state (delimiter, current statement), a transaction per file, the session's schema | read lines, cut, rewrite USE and CREATE DATABASE, execute | scanner state crosses statements; the session crosses files; a refused statement in the middle | the statements of the dump, whole and in order, in the schema they are for |
| **restore run** `pkg/core/restore.go`, `pkg/archive/tar.go` | the file `/tmp/restorefile`, a temporary directory | pull, scripts, unpack, open, restore, remove | one path for all runs on a host; leftovers of a run that died | ok means the wanted backup and nothing else |
| **pruning** `pkg/core/prune.go` | a candidate list per target | list, pick by age or count, remove | others add and prune at the same time; ages come from names | never too recent, never too few left, ok means pruned |
| **storage targets** `pkg/storage/{file,smb,s3,scp}` | files on a server; what a call has open | Push, Pull, ReadDir, Remove, Clean | each call works out the place of a file on its own, opens up to five things and may fail at each | all four calls agree, touch nothing else and leave nothing open |
| **archive writer** `pkg/archive`, `pkg/encrypt`, `pkg/compression` | buffers in every layer | write, close (twice) | data held back until a close; the order of closes; errors at the end | ok means the whole archive is in the file |
| **command line and configuration** `cmd/*.go`, `pkg/config`, `pkg/storage/parse.go` | the chain of configuration documents; viper's flags | read the chain, work out each option, check, start | four rules for who precedes whom, spread over three commands; a loop over documents from elsewhere | the command line precedes the environment and that the file; who asks for encryption gets it; starting ends |
| **remote configuration** `pkg/remote` | none | one TLS request | servers that are not in the system's pool | only trusted servers are asked |
| **listing of schemas** `pkg/database/schemas.go` | none | one query | an answer that breaks off | part of the backup run |
| **server identity** `pkg/database/serverinfo.go` | none | one query | – | not modelled, see section 8 |
| **values of a row** `pkg/database/mysql/{sanitize,date}.go` | one replacer, filled in when first used | formatting, quoting | – | not modelled |
| **telemetry, protected target** `cmd/tracer.go`, `pkg/util/tracer.go`, `pkg/core/protectedtarget.go` | attributes of spans | – | – | not modelled, nothing depends on it |

How they interact: the scheduler calls the command synchronously from its receiving goroutine,
and its timer goroutine never waits for it. A backup run calls the dump pool, which calls one
dump per schema in goroutines that share one handle of `database/sql`. The text of a dump is
the interface between dumping and restoring. A backup run and any number of prunes share the
targets, which nobody locks. Restores share one path on the host. Before any of it, starting up
works out the options that are constants of the other modules.

## 2. Modules and what they correspond to

One module describes one part. `MC…` modules hold the values of constants for TLC and define
nothing of the program. `…Proofs` modules hold the theorems about the module they are named
after, `TargetProofs` those about `Prune`, `Storage` and `TargetCall`, `ProcessProofs` those about
`Startup` and `Scheduler`, `DumpProofs` those about `DumpPool` and `ArchiveWriter`;
`SequenceFacts` holds the lemmas on sequences. Names of operators are those of the code wherever
that is possible.

### DumpJob and DumpPool – `database.Dump`

`DumpJob` is what the call promises: each writer is settled once, and the answer comes when
all are and is an error exactly if one failed. `DumpPool` is how it is done.

| state | in the code |
|---|---|
| `spawner`, `next` | where `Dump` is: the range loop, `wg.Wait`, draining `errCh`, returned |
| `sem`, `wg`, `errCh`, `closed` | the variables of these names |
| `pc`, `at` | for each goroutine its place in the function literal and in `Data.Dump`, and the schema of its writer |
| `conn`, `idle` | the connections a goroutine holds and the free list of `database/sql`, each connection being the schema selected on it |
| `dumped`, `verdict` | what was dumped from where; what `Dump` answered |

`Spawn`, `LastSpawned`, `WaitAndClose`, `Return` are the caller. `TakeForUse` and `UseSchema`
are the two halves of `selectSchema` (`USE` on some connection of the pool), `BeginTx`,
`ReadTables`, `DumpFails`, `DumpDone` the rest of `Data.Dump`; `Report`, `Release`, `Done` the
end of the goroutine, with the deferred calls in the order Go runs them. `DropIdle` is the
server closing an idle connection. The pool is external code: what the model has of it is the
last-in-first-out free list with its limit, and that a connection whose statement failed may
or may not come back.

### TableStream – the rows of the tables

`pc` is `Data.Dump` with the template engine it drives, `producer` the goroutine that `Stream`
starts, `channel` the channel of capacity 1 between them. `Row` is one turn of the goroutine's
loop with the packing in `Pack`; `NoMoreRows` lists all that makes `Next` answer FALSE: the
last row (`LastRow`), an error the server ends the rows with (`Interrupted`), a lost connection
(`Lost`), a SELECT that is refused (`Refused`), a row that does not scan (`Unreadable`), the
rollback of a dump that has failed (`RolledBack`). Each leaves its own trace. `tableErr` is
`table.err`; `cut` is the error of `rows.Err`, which the code asks for after a row and never at
the end; `cursor` are the rows that stay open on the transaction, where the next query runs into
them (`Answered`), and which a `Scan` into `sql.RawBytes` holds until the next `Next`. `Rollback`,
the deferred call of a dump that fails, waits for rows that are held: `HeldUp` is the case that
nothing comes of that. `Listed` is the filter of `initColumnData`. A row is its length.

### DumpSql and RestoreSql – the text, and reading it

`DumpSql` has no state: it translates the templates into sequences of lines of four kinds
(blank, ends in `;`, does not, switches the delimiter), each marked with the statement it is a
part of. The lines come in pieces: a gap, a comment, a statement on one line, on two, or between
delimiters. `RestoreSql` is the loop of `database.Restore`: `Read` is one line (`SkipBlank`,
`TakeText`, `TakeDelimiter` are the branches), `EndOfFile`, `Exec`, `Refused`, `Commit`,
`Fault`. `Rewritten` is the replacement of schema names with the anchors of its two regular
expressions. `schemas`, `selected` and `landed` are the server, which is external; of each created
object it is recorded from which file it came.

### Prune – `Executor.Prune` and `pruneTarget`

`Pruners` are processes; each has `pc`, `now`, `target`, `candidates`. `ListTarget` is the listing
and the whole selection (`TooOld` or `BeyondCount`), `Remove` one removal, `FailListing` and
`FailRemoving` the early returns, `NextTarget` the loop over targets. Around them `Arrive` is
any process that adds a file and `Tick` is time. A file has the date in its name (`Stamp`), the
offset behind that date (`Zone`) and whether the name is one of a backup at all (`IsBackup`);
selection by count between equal dates is left open, as `slices.SortFunc` does. `atStart`
is a history variable.

### BackupRun – the dump command

`stage` is where the closure of `cmd/dump.go` and `Executor.Dump` are; one action per stage,
`Fail` for the error of any of them, `Crash` and `Restart` for the process. `ListDatabases`
takes the databases of the options or what `GetSchemas` reads, which is any part of them when
the connection may be lost (`ListingLost`), and an archive that lacks one is `"short"`; one
that lacks its end (`EndLost`, what `ArchiveWriter_documented` shows) stays `"partial"` and is
ok all the same. `Uploaded` ends a run that has no retention (`prunes`) and starts the pruning
of one that has. Pruning is the module `Prune` (`P`), instantiated with this process and the
`prune` commands `Others` as its pruners, so that their steps (`Pruning`, `OtherPrunes`) are
the very steps the proofs are about. `whole` says which of the files on a target were uploaded
to their end, which the store itself does not know.

### Scheduler – `Timer` and `Executor.Timer`

`main` is the goroutine that receives and runs the command, `timer` the one that offers.
`SendTimer` is the select with a default: the update is taken if `main` is receiving at that
moment, otherwise it is lost. `Tick` lets time pass only when no goroutine can go on at once
(sleeping, receiving, or inside the command). `SetClock` puts the wall clock, which
`waitForCron` and `waitForBeginTime` read, forward or back at any moment, and leaves the sleeps
alone, which are measured by the monotonic one; `stepped` remembers it until the next delay is
worked out.

### Storage and TargetCall – where a file is, and the call on it

`Storage` has, for each protocol, where `Push` writes (`PushPlace`), what `ReadDir` asks for
(`Lists`) and may answer (`Listings`: for s3 one page of at most `KeysPerPage` keys), what
`Remove` removes given such an answer (`RemovePlace`), where `Pull` reads (`PullPlace`), and
what `Clean` does to a name. The actions are a dump, a prune's listing and removals, a restore.
`TargetCall` extends it with the call itself: `Opens` is what each call of each protocol opens,
in that order, `Defers` what is deferred behind each; `Open` and `OpenFails` go through them,
`Work` is the action of `Storage`, `Return` runs the deferred calls. `Port` is the port that is
dialed.

### ArchiveWriter – the layers

`pipe` holds what each layer keeps back and what is in the file. `Compress`, `Encrypt` and
their closes give the set of the pipes a call may leave: a layer may pass on what it holds now
or later, a write to the file may fail in the middle; the writer of age answers an error
when it is closed again. `Setup` … `CloseCompressed` are the
calls of `Executor.Dump` and `archive.Tar` in their order; encryptor and compressor are closed
two times each, as the code does.

### RestoreRun – `Executor.Restore`

The temporary file is an inode with contents, and `inode` is the one that has the name: a
process that has it open keeps it when another removes the name. `PullOpens`, `PullCopies`,
`PullEnds`, `FailsEarly` are the pull, `PreScripts` … `PostScripts` the rest, `Return` the
deferred removals on every way out, of the file by its name and of the run's own directory,
`Crash` the way out without them. `tmpdirs` has the directories of killed runs, too, which
nobody removes.

### ConfigFile and Startup – from the command line to the options

`ConfigFile` is `ProcessConfig`. The documents that follow from a file are numbered; `conf` is
the one whose kind the loop looks at, `text` the one `specBytes` holds, `keys` those whose
credentials were saved. `Fetch` and `Decrypt` go on to the next document, `ReadLocal` ends the
loop; `Trusted` is the check of a server's certificate. `Startup` extends it with the commands:
`given` are the settings, `resolved` the options worked out so far, `stage` how far the command
is. The four rules by which an option is worked out are operators (`Flag`, `FlagUnlessUnset`,
`FlagUnlessZero`, `FlagOver`), and each stage resolves a group of options by them. Of a value
only its source and whether it is the zero value is kept, which is all the rules look at.

## 3. Runs

Each run is a configuration `<name>.cfg` of the `MC…` module of its part; `tlc -config
X.cfg MCM` checks it. The states are the distinct states TLC finds.

### What holds

| run | states | shows |
|---|---|---|
| `DumpPool_parallel` | 97,419 | Three dumps, two at a time, each failing anywhere or nowhere, on a pool that is already in use. `ConnectionsBounded`: no more goroutines at work, and so connections in use, than slots. `ClosedMeansQuiet`: no goroutine is left when the channel is closed. `ResultTruth`: nil is answered exactly if all went well. `Termination`. `ImplementsDumpJob`: refinement. |
| `Prune_count` | 159,199 | Two pruners over two targets, by count; one target answers a listing of two names at most. `RecentKept`: every removal leaves as many more recent backups as are to be kept, even though each pruner works from a listing that the other makes stale, or from a page of it. `OkMeansPruned`: an ok answer means it of every target that lists everything. `RunsEnd`. |
| `Prune_age` | 199,747 | The same by age, with backups arriving and time passing. `YoungKept`: nothing younger than the retention goes. `OkMeansPruned`. |
| `BackupRun_count` | 2,272,009 | Three runs, with and without a retention, an object store and a file target, failure and death at every stage, restarts, and another process that prunes the same targets at any time. `OkMeansEverywhere`: an ok run has its complete backup, of all databases wanted, on every target. `PruneLast`: nothing is removed before that. `CompleteKept`: where uploads are atomic, as many complete backups remain as are to be kept. `TidyUnlessKilled`: temporary directories. `RunEnds`. |
| `Scheduler_all` | 47,554 | Every combination of once, cron, frequency and begin, valid or not, the wall clock being set at any moment. `CronOnSlot`: a run starts in a minute that matches, unless the clock was set during the sleep before it; a clock that was set costs one run and none after it. `FrequencyApart`: runs are a whole interval apart, however long they take. `ScheduleGoesOn`: dropped offers never leave the two goroutines waiting for each other. |
| `RestoreSql_all` | 5,228 | Full dumps restored where they come from and compact ones into another schema, with all options. `SentAsWritten`: the server gets exactly the statements the dump wrote, each whole, in order. `OkMeansRestored`: ok means every object is there. `LandsInTarget`: in the right schema, though the session of one file goes over to the next. |
| `TableStream_all` | 413,207 | Two tables, packed or not, some with a column of raw bytes, all faults of server and writer. `RowsConserved`: each row scanned is at every moment in exactly one place of the pipeline. `OneUserOfTx`: the goroutine is done with the transaction when `Data.Dump` uses it, and has left no rows open on it but those of a row that did not scan, which fails the next query. `OkLosesOnlyUnasked`: what an ok dump lacks is all of a table whose SELECT failed, or the rest of one whose rows the server ended with an error: `table.err` and `rows.Err` are what nobody asks; all other faults are found out. `PackedFull`: no INSERT is shorter than it has to be, and none of several rows longer than the packet. `Termination` of `Data.Dump`, unless its rollback waits behind a raw row, and of each goroutine whose rows are still received. |
| `Storage_all` | 1,021,333 | Every protocol, every call step by step, S3 listings of two keys to a page. `PushedIsListed`: a prune sees all that dumps have pushed, if a page holds it. `PullGetsPushed`: a restore gets the latest push of a name. `RemovesWhatItListed`: removing a listed entry removes that one only. `RemovesOnlyOwn`: nothing outside the directory. `HoldsNothing`: a call that has returned, from whatever step, has nothing open on a file, smb or s3 target. |
| `ArchiveWriter_all` | 553 | Every encryptor over gzip with failing writes, and over nothing with none. `OkMeansWhole`. `FailsForCause`: closing every layer twice is never itself an error. |
| `RestoreRun_one` | 5,831 | One restore at a time, killed or failing anywhere and started again on what was left, gzip or plain tar on scp. `RestoresWanted`: ok means the wanted backup, whole and unmixed. `WholeOrNothing`: nothing half unpacked is applied. `OkLeavesNothing`: a run that ends removes its directory, and an ok one the file. |
| `Startup_all` | 341,800 | Each command with up to two settings of a group of options, beside its target, and files that are local, behind a server or two, encrypted, or of no kind. `Precedence`: the command line precedes the environment and that the file. `FileFillsIn`: what only the file says is used, but where a default hides it. `EncryptedIfAsked`: whoever asks for encryption anywhere gets no backup without. `StartEnds`: starting ends, unless a server's configuration leads to another server. |

Every module with state has a `TypeOK`; it holds in the configurations above without being
listed in them.

### What does not hold

These configurations end with a counterexample, which is the point of them; what they say of
the code is in section 7. `DumpPool_crossed` (`RightSchema`) is among the runs of
`PROJECT.json`, the others stand beside them. Those called `documented` list several properties:
each is violated, as `tlc -continue` shows.

`Scheduler_documented` (`OnceRunsOnce`, `OnceAtOnce`, `CronAlwaysOnSlot`), `Prune_west` (`YoungKept`),
`Prune_page` (`OkMeansPrunedEverywhere`), `BackupRun_partial` (`CompleteKeptEverywhere`),
`BackupRun_winter` (`OlderPruned`), `BackupRun_documented` (`NoDatabaseMissed`,
`OkMeansEverywhere`, `PrunedFirst`),
`RestoreSql_documented` (`LandsInTarget`, `OnlyFaultsFail`, `OneStatementAtOnce`,
`TriggersAsDeclared`), `TableStream_documented` (`FitsPacket`, `OthersListed`, `NoCrash`,
`OkMeansComplete`), `TableStream_leak` (`NoGoroutineLeft`, `DumpReturns`), `Storage_documented`
(`PushedBelowUrl`, `PullGetsPushed`, `HoldsNothingOfScp`, `DialsAsDocumented`,
`RemovesOnlyOwn`), `ArchiveWriter_documented` (`OkMeansWhole`, `FailsForCause`),
`RestoreRun_shared` and `RestoreRun_limit` (`RestoresWanted`), `Startup_documented`
(`UsesFinal`, `FileSetsAll`, `TargetsAsDocumented`, `EnvOfPrune`, `ScheduleOfFlags`,
`FileKeySuffices`, `NoCrash`).

Where a property fails in one configuration and holds in another, the difference between them
is the precondition under which the code keeps its promise: no offset west of Greenwich
(`Prune_west` against `Prune_age`), one restore at a time (`RestoreRun_shared` against
`RestoreRun_one`), uploads that are atomic, and so on.

## 4. Bounds

| module | bound | why it is enough |
|---|---|---|
| DumpPool | 3 writers, 2 slots, up to 2 idle connections with any schema selected | two goroutines that dump while a third waits for a slot are needed for every contention there is; the proofs cover every other number |
| Prune | 2 pruners, 4 files in 2 targets by count, pages of 2 names (`PageSize`), 5 files in 1 target by age, one file that is no backup, two ticks to the hour, clock up to 7 | one pruner makes the listing of the other stale; ages lie below, on and above the boundary by a tick; the proofs cover the rest |
| BackupRun | 3 runs, keep 1, 2 targets, one other pruner that works once (`Others`), starting in the second run or later | with one to keep, three runs make the pruning choose between failed, partial and complete ones; the other pruner's listing is of any age; any number of crashes; `Retained` has both, a retention and none |
| Scheduler | a day of 6 ticks, cron every 3, frequency 0, 1 or 4, begin none, bad, relative 0 or 2, absolute 1 or 3; `since` counts up to `MaxSince` = 5, `runs` up to 2 | the interval neither divides the day nor the cron period, runs may take any number of ticks, longer than the interval too; the clock is set to any time any number of times; `MaxSince` is above every frequency |
| TableStream | HeadLen 2, packets of 8 bytes, rows of 1, 2 or 5 bytes, up to 4 in the first table and 1 in the second; up to 3 raw ones, in the first table or the last | rows that share a packet, fill it to the byte, exceed it by one, and do not fit alone; with 3 raw rows one is in the channel, one in the send and one held |
| RestoreSql | 2 files, up to 2 INSERTs a table, tables with and without triggers, a view and a routine | each kind of piece comes before and after each that can follow it; two files show what the session carries over |
| Storage | 2 backups, names with and without colons, 3 pushes (`MaxPushes`), pages of 2 keys (`KeysPerPage`, 1000 in the code) | overwriting, two names that `Clean` makes equal, removal between pushes; one key more than fits on a page |
| ArchiveWriter | 4 pieces, at most 2 failing writes (`faults` in `Setups`) | a failure at the first, a middle or the last piece, and a second one afterwards |
| Startup | 2 settings (`MaxGiven`) of one group beside the target, 7 chains of documents | the rules look at no more than one flag, one variable and one key of an option, two of which conflict at a time; options of different groups meet in no condition of the code |
| RestoreRun | backups of one and of two schemas, `MostSchemas` = 2, 3 runs (`MaxRuns`), 2 kills (`MaxCrashes`), 9 open files (`MaxOpen`) | a longer leftover under a shorter archive and the reverse, with a killed run before and between |

Three things are set so that a property is about the code and not about a defect stated
elsewhere: in `BackupRun_count` no list of databases and no end of an archive is lost unseen
(`ListingLost`, `EndLost`); in `Storage_all` restores do not pull from smb and the directory of an scp URL is the login directory; in
`ArchiveWriter_all` writes fail only below gzip, and nothing is encrypted with age. Each has its counterexample in section 7.

Deadlock is checked except for `ArchiveWriter` and `RestoreRun`, whose processes just end. The
others have an explicit stuttering action for a finished instance (`Returned`, `Finished`,
`Ended`), so that any other stop is an error.

## 5. Fairness

| specification | assumes | because |
|---|---|---|
| `DumpPool!FairSpec` | WF of the caller and of each goroutine | the Go scheduler runs what can run; the driver answers or reports an error |
| `TableStream!FairSpec` | WF of `Data.Dump` and of the goroutine | the same |
| `Prune!FairSpec` | WF of each pruner once it works | calls to a store return; that a pruner is started at all is not assumed |
| `BackupRun!FairSpec` | WF of the stages of a run | scripts, the database and the stores answer in the end. The code sets no timeout, so a script that hangs does hold the schedule: this is an assumption about the environment |
| `Startup!FairSpec` | WF of its steps | a command goes on until it runs or fails; servers answer or the request is refused |
| `Scheduler!FairTimerSpec` | WF of each goroutine, of time, and of the command's return | the scheduler; clocks; see the line above |

Failures, crashes, restarts, arrivals and removals by others are never fair: nothing that is
shown depends on their happening. The remaining modules have no fairness, and no liveness is
claimed of them.

## 6. Proofs

Checked by `tlapm` to the last leaf. The only assumptions are those on the constants, which say
no more than what kind of values they are and which TLC evaluates in every run
(`PoolAssumption`, `PruneAssumption`, `BackupAssumption`, `StorageAssumption`,
`SchedulerAssumption`, `ChainsAssumption`, `SettingsAssumption`, `RestoreRunAssumption`,
`ArchiveWriterAssumption`, `LengthsAreNat`, `RestoresAssumption`), and the conditions that a theorem names in its `ASSUME`. Each of
these conditions holds in the passing runs that check the property; the table says what
becomes of it without.

| condition | says | without it |
|---|---|---|
| `DistinctStamps` | no two backups have one date | of two backups with one date, two pruners may each remove another: the sort is not stable |
| `NoWest`, `NearGreenwich` | no offset west of Greenwich, or none as large as the retention | `Prune_west` |
| `InOrder` | names and times follow the runs | `BackupRun_winter` |
| `LossesShow` | the list of databases is read to its end, or not needed, and an archive that is ok has its end | `BackupRun_documented` |
| `"smb" \notin Restored` | no restore from smb | `Storage_documented` |
| `OwnDirectory` | no other directory begins with the name of this one; scp logs in there | `Storage_documented` |
| `ProperPlaces` | others' files have a directory and a name, without colons on smb | a name with colons is no name on smb; two would be one |
| `FollowedFarEnough` | `MaxSince` is no less than a frequency | the model would stop counting; no condition on the code |
| `OneRestorer` | one restore at a time on a host | `RestoreRun_shared` |
| `EnoughFiles` | every extracted file can be opened | `RestoreRun_limit` |
| `FaultsAreLatched` | writes fail below gzip, which remembers it, or not at all | `ArchiveWriter_documented` |
| `NoAge` | age is not used | `ArchiveWriter_documented` |
| `Routines` (of `OkLosesToTheUnasked` only) | routines are dumped after the tables | no query follows the rows of the last table: if the connection is lost there, or a row does not scan, nothing fails. `OkLosesAtMost` says that this is all that is added |
| `Suppressed` or `Targeted` (of `CreatedInTarget` only) | no file of a restore has a `USE` in front; or each has one, and a full dump of a schema with views is not renamed | `RestoreSql_documented`; of files with and without a `USE` in one restore, those without go where the session happens to be |

**`DumpProofs`**, DumpPool – for any number of writers and schemas, any parallelism and any pool.
None of the safety properties is inductive. That no goroutine runs after the close follows
from `wg = 0` only if `wg` counts the goroutines; that the counter of the semaphore bounds the
connections only if each slot is held by exactly one goroutine at work. `IInv` therefore joins
`TypeOK`, `Accounting` (the counters, the channel and the connections agree with where the
goroutines are), `sem <= Slots`, `Phases` (what the caller's place says of `next`, `closed` and
`verdict`) and `ClosedMeansQuiet`. There is one lemma per group of actions (`InvCaller`,
`InvDumping`, `InvReport`, `InvRelease`, `InvDone`, `InvDropIdle`); the cardinalities of the
sets of goroutines are handled once, in `CountsKept` and `CountsUnchanged`.

- `Invariance`: `IInv` always holds. From it `TypeCorrect`, `AccountingHolds`,
  `ParallelismRespected`, `NothingRunsAfterClose`, `AnswerIsTrue`.
- `Implementation`: `DumpPool` implements `DumpJob`. `JobStep` maps every step: `DumpDone` of a
  writer's last schema and the three ways to fail are `Settle`, `Return` is `Answer`, all
  others stutter.
- `SerialDumpsAreRight`: with a parallelism of at most one, every dump reads its own schema.
  `OneConnection` strengthens `RightSchema` by what is on the free list between `USE` and
  `BEGIN`. With two slots it is false: `DumpPool_crossed`.

**`TargetProofs`**, Prune – for any pruners, targets, files and retention.

- `TypeCorrect`.
- `RecentBackupsSurvive`: `RecentKept`, if no two backups have one stamp (`DistinctStamps`).
  The invariant `Outnumbered` says that each candidate of each pruner has, at this moment, as
  many more recent backups above it in the target as are to be kept. The heart is
  `NewerSurvives`: whatever another pruner removes is itself outnumbered, so that a candidate
  that loses one of the backups above it keeps those above that one. With equal stamps the
  argument has no strict order to stand on.
- `YoungBackupsSurvive`: `YoungKept`, if no name has an offset west of Greenwich (`NoWest`). The
  invariant `OldEnough`: candidates were old enough when listed, and the clock only advances.
  `Prune_west` shows that the assumption is needed.

- `OkIsPruned`: `OkMeansPruned`, without any condition. A pruner answers ok long after it listed
  its first target, and others have worked on that since. The invariant `OnceOnly` says that a
  name that was removed does not come back, and `AllWorkedOff` that of the targets behind a
  pruner nothing is left that it was to remove, of the current one nothing but its candidates.
  That removals by others only shrink what is within a retention is the lemma `WithinShrinks`.

**`BackupRunProofs`** – for any names, targets, retention and number of other pruners. The steps
of `Prune` are steps here, so the invariant follows the lists of all pruners.

- `NothingLeftBehind`: `TidyUnlessKilled`, without any condition.
- `OkRunsDeliver`, `PrunesLast`, `OldersArePruned` under `InOrder`, `NearGreenwich` and
  `LossesShow`: `OkMeansEverywhere`, `PruneLast` and `OlderPruned`. The invariant joins
  `Types`, `Delivered` (to which targets the new backup has come at each stage) and `Spared` (no
  pruner's list holds the backup of the latest run, though it may have been made during an
  earlier one). Neither of the last two holds without the other: a pruner spares the new backup
  because it is the newest it sees.
- `CompleteBackupsSurvive`: `CompleteKept`. `OnlyWhole` and `Outnumbered` carry over the argument
  of `RecentBackupsSurvive` to backups that are complete.

**`ProcessProofs`**, Scheduler – for any options and any `Period` that divides the day.

- `RunsAtMatches` (`CronOnSlot`) and `RunsAreApart` (`FrequencyApart`). The invariant is about the
  sleep under way: `OnTheWay`, that its end is a multiple of `Period`, if the clock was not set
  since it began; `Apart`, that what is left
  of it and the time since the last start make up a frequency. The arithmetic of multiples is in
  lemmas of its own, as the solver has no theory of `%` by a variable.

**`TargetProofs`**, Storage and TargetCall – for any directory, names and files of others on the server.

- `PrunesSeeAll`, `RestoresGetIt`, `RemovesTheListed`, `RemovesOwnOnly`, `NothingStaysOpen`. The
  invariant: `PushedMatches`, that ReadDir asks for every file that was pushed, of which
  `PushedIsListed` is what remains when a page may cut the answer off; `Kept`, that the last push
  of each name is where `PushPlace` has it; and `Covered`, that all that is open has its deferred call, which is why a failure at any step is harmless.

**`RestoreRunProofs`** – for backups of any size, after any number of kills.

- `OkRestoresWanted`, `NothingHalfApplied`, `OkIsTidy`. Not every protocol truncates the file that is
  there, so the invariant (`OnItsWay`, `Finished`) says of it only that it *begins* with what was
  copied of the wanted backup. That is enough because unpacking ends at the archive's end, which
  is the last piece copied.

**`DumpProofs`**, ArchiveWriter – for archives of any length and any number of failing writes.

- `OkIsWhole`, `FailuresHaveCauses`. `Flow` is the file followed by what compressor and encryptor
  hold back: each write extends it by what was written, in whatever order the layers pass on
  what they have, and each close only moves its parts down. After a failed write the equation
  is lost, but the compressor has latched the error and the last close answers it.
  There is a lemma for each call on a layer (`ToFileDoes` … `CloseEncryptorDoes`).

**`ProcessProofs`**, Startup – for any settings and any chain of documents.

- `FlagsPrecede`, `FileIsUsed`, `AskedIsEncrypted`. There is a lemma for each of the rules, saying
  which of precedence and filling-in it gives. `Settled` is that every option worked out so far
  is right; it is inductive because the settings and the documents read do not change after the
  first stage (`OnItsWay`). `Equipped` follows the encryption through the checks.

**`TableStreamProofs`** – for any tables with rows of any number and lengths, any packet size.

The rows pass from the query through the goroutine's packing and the channel to the file, and
a fault may come at any step. The invariant joins

- `Types`, `Held` (the channel holds one statement at most and none that is empty), `Written`,
  and `Stages`: for each place of `Data.Dump` and of the goroutine, what there is in `ready`,
  `insert` and the channel;
- `RowsLeft`: which rows are open on the transaction, at each of these places, and that they are
  those of a row that did not scan. With `Stages` it gives `TxHasOneUser`;
- `RowsConserved` itself, which is inductive with the former and `Untouched` (nothing is written
  of tables to come): `RowsAreConserved`. Its steps are equations between flattened sequences;
- `EndIsKnown` and `EarlierDone`: of the table at hand, when its rows have ended, either all were
  read or one of the faults is noted somewhere (`Excused`): in `cut`, in `table.err`, in the
  connection, in rows that stay open. Of the tables before it the same (`Overlooked`), but
  connection and open rows count only while no query has been sent since (`ToBeFound`): that is
  how these two come to light, in the next query, and why `OkLosesToTheUnasked` needs one, which
  dumps of routines send. Without routines the property is false, TLC finds the lost last table,
  and `OkLosesAtMost` is what holds for every dump;
- `Packing`: all statements begun so far, wherever they are, are `Packed`. That `PackedFull` is not
  inductive by itself is clear from `Send`, which makes a statement appear in the channel that was
  in the goroutine's hands before. `StatementsPackedFull`.

**`RestoreSqlProofs`** – for any number of files, of dumps with any tables, triggers, views and
routines, any options and any renaming.

The properties speak of statements, the scanner sees lines and remembers only the delimiter and
the text so far. What joins the two are the pieces the templates write, so the first part of the
module says what these are: every piece of a dump is in `PieceSet` (`PiecesTyped`), of a known
number of known lines, and each object has its piece (`ObjectHasPiece`). The invariant then joins

- `ScanInv`: there is a k such that of the pieces of the file at hand k are done. `Place` and
  `InPiece` say at which line of the next one the scanner may be and what it then holds: that a
  statement is executed neither early, at a `;` inside a trigger, nor late, together with the
  next one, is this. `Executed(sent)` is then `Statements` of the first k pieces;
  what these create is there (`Restored`). There is a lemma for each step, and under it one for
  each kind of piece (`NothingTaken`, `OneLineTaken`, `TwoLinesTaken`, `BodyTaken`);
- `FilesInv`: of the files before, everything is `Restored`. Objects of another file with the same
  name do not count;
- `TargetInv` with `SelectedAt`: the schema selected since the first `USE` is the one to restore
  into. A `USE` is rewritten only if no comment is sent along with it. Hence `Fresh`: a comment
  is followed by a statement before the next `USE`, which is true of the `USE` in front of a
  compact dump, and not of those of the views in a full one.

From it `TypeCorrect`, `StatementsSentAsWritten` and `OkRestoresEverything`, without any condition,
and `CreatedInTarget`. Its two cases differ: files without a `USE` in front create nothing at all, as
the connection has no schema selected and the first statement that needs one fails; it is the
other case, `Targeted`, that needs the argument.

**`SequenceFacts`** – what these proofs need of sequences of any length. The induction theorems of
the library take an operator as a parameter and cannot be cited; induction over a *set* of
numbers can, as `WFMin` of the library says that a set that is not empty has a least element:
`HasLeast`, `SetInduction`. With it, and with `FlattenSeq` read as the function that its definition
chooses (`Flattens`), which is shown to exist and to be the only one (`FlattensExists`,
`FlattensAgree`), follow `FlattenEmpty`, `FlattenAppend`, `FlattenType`. `Each` is the flattened
sequence of what a function gives for each member, as the texts of dumps are made: `EachNext`
(one member more), `EachBegins` (fewer members give a beginning), `EachAt` (where to find a
member's part) are what the scanner's place rests on. The same argument gives the length of a statement (`Sums` in `TableStreamProofs`), which for that purpose is
a recursive function of the model, `Bytes`, and no fold.

**Only model-checked**: liveness (`Termination`, `RunsEnd`, `RunEnds`, `ScheduleGoesOn`,
`StartEnds`), since TLAPS has no rules for fairness here. Every other property of the passing
runs is a theorem.

## 7. What the code does differently from what is said of it

Each was met while translating the code, and has a configuration with a counterexample.
`PROJECT.json` quotes the line of the documentation, comment or test that says otherwise.

| configuration | what happens |
|---|---|
| `DumpPool_crossed` | `USE` and `BEGIN` take a connection from the pool one after the other. With two dumps at a time, one may begin its transaction on the connection the other has just sent `USE` on, and its file gets the other schema's tables. |
| `Scheduler_documented` | The only offer of a `once` schedule is dropped if the receiver is not waiting yet; the process ends without a run. |
| `Scheduler_documented` | The delay to the next cron minute is read off the wall clock and slept on the monotonic one: when the clock is set meanwhile, forward or back, the run is outside its slot. |
| `Scheduler_documented` | A `once` schedule waits for the cron slot or the begin time first, though it is said to run immediately and to ignore all other options. |
| `Prune_west` | The offset in a name is dropped: west of Greenwich backups are pruned hours too early. |
| `BackupRun_partial` | A half-written file counts as one of the backups to keep, and displaces a complete one. |
| `Prune_page` | Of an S3 listing only the first page is read; what lies behind it is not pruned. |
| `BackupRun_documented` | A connection lost while the databases are listed ends the list: the backup of fewer databases is ok. |
| `BackupRun_documented` | Pruning comes after the backup, where the documentation says before. |
| `BackupRun_winter` | Names have local time and are sorted without offset: in the hour that comes twice, the newest backup is removed as the oldest. |
| `RestoreSql_documented` | `USE` and `CREATE DATABASE` below comment lines are not rewritten, so a full dump is restored into the schema it came from, not the one it is mapped to. |
| `RestoreSql_documented` | For the same reason the schema mapped to is not created, and the first rewritten `USE` fails. |
| `RestoreSql_documented` | In compact dumps the INSERTs of a table stand on one line and are sent as one. |
| `RestoreSql_documented` | Every trigger is written as AFTER. |
| `TableStream_documented` | At the end of a table's rows nobody asks `rows.Err`, and what is stored in `table.err` nobody reads: the dump of a table that broke off, or that could not be selected, is ok and incomplete. |
| `TableStream_documented` | Columns whose default is an expression are taken for generated ones and not dumped. |
| `TableStream_documented` | A table with generated columns only crashes the process. |
| `TableStream_documented` | The `;` is not counted: an INSERT can be a byte longer than the packet. |
| `TableStream_leak` | When the writer fails, the goroutine of the table waits in its send for ever. |
| `TableStream_leak` | If that table has a BLOB or BINARY column, the deferred rollback waits for the goroutine's rows, and the dump never returns. |
| `Storage_documented` | smb's `Pull` asks for the name of the local file. |
| `Storage_documented` | scp's `Push` ignores the path of the URL. |
| `Storage_documented` | S3 listings are by prefix: pruning `backups` also prunes `backups-old`. |
| `Storage_documented` | On scp targets the ssh connection of a listing or removal is not closed, and never that to the agent. |
| `Storage_documented` | scp dials the port of the ssh configuration rather than that of the URL, and none without either. |
| `ArchiveWriter_documented` | `Tar` drops the error of the closing write, and the second close says nil: an archive without its end is reported as ok (`OkMeansEverywhere` of `BackupRun_documented` carries it on to the targets). |
| `ArchiveWriter_documented` | The second close of age's writer is an error: no dump encrypted with age succeeds. |
| `RestoreRun_shared` | Restores on one host share `/tmp/restorefile`: one may apply the backup the other wanted. |
| `RestoreRun_limit` | Extracted files that cannot be opened are skipped without an error. |
| `Startup_documented` | `ProcessConfig` reads every document of a chain from the spec of the first: what a server or an encrypted document configures is not used, and a server that names another is asked for ever. |
| `Startup_documented` | The file's frequency, begin and compression are hidden by the defaults of their flags. |
| `Startup_documented` | The path style of a target of the file is ignored, and so are the credentials of the flags for it. |
| `Startup_documented` | `prune` reads the variables of `restore`. |
| `Startup_documented` | A cron or once of the file overrules a frequency of the command line. |
| `Startup_documented` | A key in the file is read and not used: one is demanded of the flags. |
| `Startup_documented` | `prune` and `restore` crash when the file has no section of theirs. |

## 8. What is not modelled, and what is assumed

- *Server identity, telemetry, protected target*: attributes of spans; an error is passed over.
- *Values of a row*: formatting and quoting are functions from strings to strings, which unit
  tests reach well. A row is its length. The unlocked replacer of `sanitize.go` is among the
  hazards.
- *URLs, certificates, keys*: their parsing and making; what is used of them is modelled.
- *What a failed Push leaves*: half-written files are modelled where pruning meets them
  (BackupRun), not in TargetCall.
- *bzip2 and decryption*: a library whose behaviour at a failing write is not in this
  repository, and writers that no command uses.
- *Verbosity, and flags that pass through unchanged* (regions, endpoints, scripts of a restore):
  they follow the rule of an option that is modelled.

- *Which keys an S3 page has*: the first ones in their order, which the model leaves open; every
  set of `KeysPerPage` keys may be the answer.
- *The answer to SHOW COLUMNS*, taken to be whole: `initColumnData` does not ask `rows.Err` either.

Assumptions in the abstractions: the wall clock is not set between the two readings of it that
follow each other in the timer's loop (`lastRun` and `now`); of `database/sql`, that a `Scan` which
holds its rows lets them go at the next `Next` or at an error, and that nothing else closes them
but the rollback (a race inside `rows.Err`, of a read lock taken twice with a writer in between,
is left out); a rollback undoes nothing of a restore that matters (nearly
all its statements are DDL, which commits by itself); gzip notices that its input breaks off
and tar alone does not if that is between two entries; a file
mixed from two backups may be refused or not (a checksum refuses most, the model allows both); S3 takes `/a/b` and `a/b` for one key in `Pull`;
Go runs deferred calls in reverse order; `database/sql` hands out the connection freed last.
Dumps and restores use the default file name pattern.

## 9. Plan

Done are all the parts that section 1 calls hard, each with its proofs where the provers reach.
What would add most now:

1. **System**: Scheduler, BackupRun and independent Prune processes composed on one store, with
   `BackupRun` and `Prune` as they are; the abstract specification being that, whatever dies,
   the newest complete backups stay and some backup is no older than an interval plus a run.
2. **CbcStream**: the decrypting writers of `aes256cbc.go` with their short writes, and the block
   buffering of the encrypting one in full, in place of the abstract `block` layer.
