----------------------------- MODULE BackupRun -----------------------------
(***************************************************************************)
(* The "dump" command as a process: the closure that cmd/dump.go hands to  *)
(* Executor.Timer, Executor.Dump (pkg/core/dump.go) stage by stage, and    *)
(* Executor.Prune after it, which is the module Prune with this process as *)
(* one of its pruners: others may be "prune" commands on the same targets. *)
(* The process ends at the first error, or is killed, and whatever         *)
(* supervises it may start it again.                                       *)
(*                                                                         *)
(* What a backup is worth is in "whole": a store also lists the file of an *)
(* upload that has not ended, or never will, unless the store shows        *)
(* objects only when they are complete (the targets in Atomic).            *)
(***************************************************************************)
EXTENDS Integers, Sequences, FiniteSets

CONSTANTS
  NumTargets,     \* len(targets)
  Atomic,         \* the targets where a file appears only when its upload is complete
  Names,          \* the names the runs give their backups, run after run
  Stamp, Zone, Retention, TicksPerHour,    \* as in Prune
  Self,           \* the process
  Others,         \* the processes of "prune" commands
  Databases,      \* what "show databases" lists, but for those of the server itself
  Include,        \* opts.DBNames
  Exclude,        \* opts.Exclude
  Retained,       \* whether there is a retention (--retention): the values it may have
  ListingLost,    \* the connection may be lost while the list of databases is read
  EndLost         \* the write of the archive's end may fail unseen (ArchiveWriter)

Targets == 1..NumTargets
Files == {Names[i] : i \in 1..Len(Names)}

ASSUME BackupAssumption ==
  /\ NumTargets \in Nat
  /\ Atomic \subseteq Targets
  /\ Names \in Seq(Files)
  /\ Stamp \in [Files -> Int]
  /\ Zone \in [Files -> Int]
  /\ Retention.value \in Nat
  /\ Retention.unit \in {"h", "d", "w", "m", "y", "c"}
  /\ TicksPerHour \in Nat \ {0}
  /\ Self \notin Others
  /\ Retained \subseteq BOOLEAN
  /\ ListingLost \in BOOLEAN
  /\ EndLost \in BOOLEAN

VARIABLES
  prunes,       \* retention # "": the option with which the process is started, each time
  run,          \* how many runs have begun
  stage,        \* where the process is
  temp,         \* the temporary directories on disk: <<run, "tmpdir" or "workdir">>
  killed,       \* the runs in which the process was killed
  succeeded,    \* the closure of the last run has returned nil
  dbnames,      \* the databases to dump
  archive,      \* the archive in tmpdir: "none", "partial", without its end; "short" of a
                \* database; "whole"
  dest,         \* the target being uploaded to
  pushing,      \* Push is under way
  whole,        \* target -> the files that were uploaded to their end
  store, clock, pc, now, target, candidates, atStart    \* as in Prune

pruneVars == <<pc, now, target, candidates, atStart>>
dumpVars == <<prunes, run, temp, killed, succeeded, dbnames, archive, dest, pushing>>
vars == <<dumpVars, stage, whole, store, clock, pruneVars>>

\* The default file name pattern, which filenameRE matches; nobody else adds files, and
\* the clock moves between runs.
P == INSTANCE Prune WITH
       Pruners <- {Self} \cup Others, IsBackup <- [f \in Files |-> TRUE],
       InitStores <- {}, ClockAtStart <- 0, MaxClock <- 0,
       PageSize <- [t \in Targets |-> Cardinality(Files)], ByName <- [f \in Files |-> 0],
       due <- [t \in Targets |-> {}]

\* What the options ask for.
Wanted == (IF Include = {} THEN Databases ELSE Include) \ Exclude

DumpStages == {"prescripts", "listing", "dumping", "archiving", "postscripts", "uploading"}
Busy == DumpStages \cup {"pruning"}
Mine == Names[run]

---------------------------------------------------------------------------
Init ==
  /\ prunes \in Retained
  /\ run = 0
  /\ stage = "waiting"
  /\ temp = {}
  /\ killed = {}
  /\ succeeded = FALSE
  /\ dbnames = {}
  /\ archive = "none"
  /\ dest = 1
  /\ pushing = FALSE
  /\ whole = [t \in Targets |-> {}]
  /\ store = [t \in Targets |-> {}]
  /\ clock = 0
  /\ pc = [p \in {Self} \cup Others |-> "idle"]
  /\ now = [p \in {Self} \cup Others |-> 0]
  /\ target = [p \in {Self} \cup Others |-> 1]
  /\ candidates = [p \in {Self} \cup Others |-> {}]
  /\ atStart = [p \in {Self} \cup Others |-> store]

\* The timer fires: the name is made from the current time, and tmpdir is created.
Begin ==
  /\ stage = "waiting"
  /\ run < Len(Names)
  /\ run' = run + 1
  /\ clock' = P!StartedAt(Names[run + 1])
  /\ temp' = temp \cup {<<run + 1, "tmpdir">>}
  /\ succeeded' = FALSE
  /\ dbnames' = {}
  /\ archive' = "none"
  /\ stage' = "prescripts"
  /\ UNCHANGED <<prunes, killed, dest, pushing, whole, store>> /\ UNCHANGED pruneVars

\* preBackup's scripts succeed, or there are none; workdir is created.
PreScripts ==
  /\ stage = "prescripts"
  /\ temp' = temp \cup {<<run, "workdir">>}
  /\ stage' = "listing"
  /\ UNCHANGED <<prunes, run, killed, succeeded, dbnames, archive, dest, pushing, whole, store, clock>>
  /\ UNCHANGED pruneVars

\* The databases of the option, or those that GetSchemas reads: it ends with the rows, which
\* a lost connection ends too.
GetSchemas ==
  IF Include # {} THEN {Include} ELSE IF ListingLost THEN SUBSET Databases ELSE {Databases}

\* The list is made, and filterExcludedDatabases applied to it.
ListDatabases ==
  /\ stage = "listing"
  /\ \E listed \in GetSchemas : dbnames' = listed \ Exclude
  /\ stage' = "dumping"
  /\ UNCHANGED <<prunes, run, temp, killed, succeeded, archive, dest, pushing, whole, store, clock>>
  /\ UNCHANGED pruneVars

\* A file is created for each of them, and database.Dump succeeds (DumpPool); the archive's
\* file is created.
DumpDatabases ==
  /\ stage = "dumping"
  /\ archive' = "partial"
  /\ stage' = "archiving"
  /\ UNCHANGED <<prunes, run, temp, killed, succeeded, dbnames, dest, pushing, whole, store, clock>>
  /\ UNCHANGED pruneVars

\* mutant: the post-backup scripts and the uploads start before the archive is closed
ArchiveUnclosed ==
  /\ stage = "archiving"
  /\ stage' = "postscripts"
  /\ UNCHANGED <<prunes, run, temp, killed, succeeded, dbnames, archive, dest, pushing, whole, store, clock>>
  /\ UNCHANGED pruneVars

\* archive.Tar, and the encryptor and the compressor are closed.  Tar drops the error of the
\* close that writes the end, and a second one may answer nil.
Archive ==
  /\ stage = "archiving"
  /\ archive' \in {IF dbnames = Wanted THEN "whole" ELSE "short"} \cup (IF EndLost THEN {"partial"} ELSE {})
  /\ stage' = "postscripts"
  /\ UNCHANGED <<prunes, run, temp, killed, succeeded, dbnames, dest, pushing, whole, store, clock>>
  /\ UNCHANGED pruneVars

PostScripts ==
  /\ stage = "postscripts"
  /\ dest' = 1
  /\ stage' = "uploading"
  /\ UNCHANGED <<prunes, run, temp, killed, succeeded, dbnames, archive, pushing, whole, store, clock>>
  /\ UNCHANGED pruneVars

---------------------------------------------------------------------------
(* The loop over the targets. *)

\* t.Push creates the file under its final name ...
PushBegin ==
  /\ stage = "uploading" /\ ~pushing
  /\ dest <= NumTargets
  /\ pushing' = TRUE
  /\ store' = IF dest \in Atomic THEN store ELSE [store EXCEPT ![dest] = @ \cup {Mine}]
  /\ UNCHANGED <<prunes, run, stage, temp, killed, succeeded, dbnames, archive, dest, whole, clock>>
  /\ UNCHANGED pruneVars

\* ... and copies the archive into it.
PushDone ==
  /\ stage = "uploading" /\ pushing
  /\ pushing' = FALSE
  /\ store' = [store EXCEPT ![dest] = @ \cup {Mine}]
  /\ whole' = IF archive = "whole" THEN [whole EXCEPT ![dest] = @ \cup {Mine}] ELSE whole
  /\ dest' = dest + 1
  /\ UNCHANGED <<prunes, run, stage, temp, killed, succeeded, dbnames, archive, clock>> /\ UNCHANGED pruneVars

\* mutant: the directories are left to the system
UploadedUntidy ==
  /\ stage = "uploading" /\ ~pushing
  /\ dest > NumTargets
  /\ prunes
  /\ P!Start(Self)
  /\ stage' = "pruning"
  /\ UNCHANGED <<prunes, run, temp, killed, succeeded, dbnames, archive, dest, pushing, whole>>

\* Dump returns nil and its deferred calls remove the directories.  Prune is called if there is
\* a retention; if not, the closure returns nil.
Uploaded ==
  /\ stage = "uploading" /\ ~pushing
  /\ dest > NumTargets
  /\ temp' = temp \ {<<run, "tmpdir">>, <<run, "workdir">>}
  /\ \/ /\ prunes
        /\ P!Start(Self)
        /\ stage' = "pruning"
        /\ UNCHANGED succeeded
     \/ /\ ~prunes
        /\ stage' = "waiting"
        /\ succeeded' = TRUE
        /\ UNCHANGED <<store, clock>> /\ UNCHANGED pruneVars
  /\ UNCHANGED <<prunes, run, killed, dbnames, archive, dest, pushing, whole>>

\* mutant: a failed dump is pruned after like any other
FailAndPrune ==
  /\ stage \in DumpStages
  /\ temp' = temp \ {<<run, "tmpdir">>, <<run, "workdir">>}
  /\ pushing' = FALSE
  /\ P!Start(Self)
  /\ stage' = "pruning"
  /\ UNCHANGED <<prunes, run, killed, succeeded, dbnames, archive, dest, whole>>

\* Any stage fails: Dump returns the error, the directories are removed, Timer returns and
\* so does the process.  What an upload has written stays.
Fail ==
  /\ stage \in DumpStages
  /\ temp' = temp \ {<<run, "tmpdir">>, <<run, "workdir">>}
  /\ pushing' = FALSE
  /\ stage' = "exited"
  /\ UNCHANGED <<prunes, run, killed, succeeded, dbnames, archive, dest, whole, store, clock>> /\ UNCHANGED pruneVars

---------------------------------------------------------------------------
(* Prune. *)

Pruning ==
  /\ stage = "pruning"
  /\ P!Working(Self)
  /\ whole' = [t \in Targets |-> whole[t] \cap store'[t]]
  /\ UNCHANGED <<dumpVars, stage>>

\* mutant: the closure returns only the errors of Prune
PruneNeverEnds ==
  /\ stage = "pruning"
  /\ pc[Self] = "error"
  /\ stage' = "exited"
  /\ UNCHANGED <<dumpVars, whole, store, clock>> /\ UNCHANGED pruneVars

\* The closure returns: nil, and the timer waits for the next run, or the error of Prune.
PruneEnds ==
  /\ stage = "pruning"
  /\ pc[Self] \in {"ok", "error"}
  /\ stage' = IF pc[Self] = "ok" THEN "waiting" ELSE "exited"
  /\ succeeded' = (pc[Self] = "ok")
  /\ UNCHANGED <<prunes, run, temp, killed, dbnames, archive, dest, pushing, whole, store, clock>>
  /\ UNCHANGED pruneVars

---------------------------------------------------------------------------
\* A "prune" command works on the same targets, once, and may stop anywhere.  Bound: it starts
\* when a second run has begun, before which it would find too little, and during a run.
OtherPrunes ==
  /\ \E p \in Others :
       \/ pc[p] = "idle" /\ run > 1 /\ stage \in Busy /\ P!Start(p)
       \/ P!Working(p)
  /\ whole' = [t \in Targets |-> whole[t] \cap store'[t]]
  /\ UNCHANGED <<dumpVars, stage>>

\* The process is killed: no deferred call runs.
Crash ==
  /\ stage \in Busy
  /\ killed' = killed \cup {run}
  /\ pushing' = FALSE
  /\ stage' = "exited"
  /\ \/ P!Crash(Self)
     \/ /\ pc[Self] \notin {"list", "remove"}
        /\ UNCHANGED <<store, clock>> /\ UNCHANGED pruneVars
  /\ UNCHANGED <<prunes, run, temp, succeeded, dbnames, archive, dest, whole>>

\* It is started again.
Restart ==
  /\ stage = "exited"
  /\ stage' = "waiting"
  /\ UNCHANGED <<dumpVars, whole, store, clock>> /\ UNCHANGED pruneVars

\* Every run of this instance has been made.
Finished ==
  /\ stage = "waiting" /\ run = Len(Names)
  /\ UNCHANGED vars

Step ==
  \/ PreScripts \/ ListDatabases \/ DumpDatabases \/ Archive \/ PostScripts
  \/ PushBegin \/ PushDone \/ Uploaded \/ Pruning \/ PruneEnds

Next == Begin \/ Step \/ OtherPrunes \/ Fail \/ Crash \/ Restart \/ Finished

Spec == Init /\ [][Next]_vars

\* Scripts, the database and the stores answer in the end.
FairSpec == Spec /\ WF_vars(Step)

---------------------------------------------------------------------------
(* Properties. *)

\* Each variable holds a value of its type.
TypeOK ==
  /\ prunes \in Retained
  /\ run \in 0..Len(Names)
  /\ stage \in Busy \cup {"waiting", "exited"}
  /\ temp \subseteq (1..run) \X {"tmpdir", "workdir"}
  /\ killed \subseteq 1..run
  /\ succeeded \in BOOLEAN
  /\ dbnames \subseteq Databases \cup Include
  /\ archive \in {"none", "partial", "short", "whole"}
  /\ dest \in 1..(NumTargets + 1)
  /\ pushing \in BOOLEAN
  /\ whole \in [Targets -> SUBSET Files]
  /\ \A t \in Targets : whole[t] \subseteq store[t]
  /\ store \in [Targets -> SUBSET Files]

\* A run that ended well has its backup, with every database that was asked for, on every
\* target, and no pruning has taken it away again (dump.go:90-98, 199-230,
\* cmd/dump.go:340-357).
OkMeansEverywhere ==
  stage = "waiting" /\ succeeded =>
    \A t \in Targets : Mine \in whole[t]

\* "By default, all databases in the database server are backed up" (docs/backup.md:15), when
\* the run is ok.
NoDatabaseMissed == stage = "waiting" /\ succeeded => dbnames = Wanted

\* A run leaves temporary directories behind only when it is killed (dump.go:75, 86).
TidyUnlessKilled ==
  \A d \in temp : d[1] \in killed \/ (d[1] = run /\ stage \in DumpStages)

\* The process removes nothing old before its new backup is complete on every target, so that
\* a failed run costs no backup (dump.go:201-224 before cmd/dump.go:348-355).  This is the
\* code's order; the documentation has the other one (PrunedFirst).
PruneLast ==
  [][(pc'[Self] # pc[Self] \/ candidates'[Self] # candidates[Self]) =>
       \A t \in Targets : store[t] \subseteq store'[t] \/ \A u \in Targets : Mine \in whole[u]]_vars

\* "it optionally can also prune older backups before each backup run" (docs/prune.md:27):
\* when the process prunes, its run has not made its backup yet.
PrunedFirst == pc[Self] \in {"list", "remove"} => archive = "none"

\* "prune older backups" (docs/prune.md:27): what a run removes was started before it.
OlderPruned ==
  [][\A t \in Targets : \A f \in store[t] \ store'[t] :
       P!StartedAt(f) < P!StartedAt(Mine)]_vars

\* A step that removes a complete backup from target t leaves RetainCount complete ones that
\* are no older.
LeavesEnough(t) ==
  P!RetainCount > 0 =>
    \A f \in whole[t] \ whole'[t] :
      Cardinality({g \in whole'[t] : P!StartedAt(g) >= P!StartedAt(f)}) >= P!RetainCount

\* "how many backup to keep" (docs/prune.md:49): where a file appears only when its upload is
\* complete, the pruning leaves that many complete backups, whatever was killed before.
CompleteKept == [][\A t \in Atomic : LeavesEnough(t)]_vars

\* The same of every target.
CompleteKeptEverywhere == [][\A t \in Targets : LeavesEnough(t)]_vars

\* A run that has begun ends.
RunEnds == stage \in Busy ~> stage \in {"waiting", "exited"}
============================================================================
