---------------------------- MODULE RestoreRun -----------------------------
(***************************************************************************)
(* Executor.Restore (pkg/core/restore.go), with Untar (pkg/archive/tar.go) *)
(* and runScripts (scripts.go): pull the wanted backup to one fixed file,  *)
(* /tmp/restorefile, unpack it into a directory of the run's own, open     *)
(* what came out and give it to database.Restore, which is the module      *)
(* RestoreSql.                                                             *)
(*                                                                         *)
(* Restores may run at the same time on one host, may be killed, and may   *)
(* be run again.  An archive is a sequence of pieces: one <<backup, i>>    *)
(* per dumped schema, and its end.  The file at the fixed path is an       *)
(* inode, so that who has it open keeps it when its name is taken away.    *)
(***************************************************************************)
EXTENDS Integers, Sequences, FiniteSets

CONSTANTS
  Restorers,     \* the processes
  Backups,
  Schemas,       \* backup -> how many schemas are in it
  MostSchemas,   \* no backup has more
  Setups,        \* what a run may be started with: opts.Compressor, "gzip" or "none", and
                 \* whether Pull truncates the file that is there: all protocols but scp
  MaxOpen,       \* how many files the process may have open
  MaxRuns,       \* bound on the number of runs
  MaxCrashes     \* bound on the number of processes killed

End == <<"end", 0>>
Nothing == <<"nothing", 0>>

ASSUME RestoreRunAssumption ==
  /\ MostSchemas \in Nat
  /\ Schemas \in [Backups -> 0..MostSchemas]
  /\ Setups \subseteq [compression : {"gzip", "none"}, truncates : BOOLEAN]
  /\ MaxOpen \in Nat /\ MaxRuns \in Nat /\ MaxCrashes \in Nat

VARIABLES
  pc,          \* process -> where it is
  setup,       \* process -> the options of its run
  wanted,      \* process -> the backup to restore
  inode,       \* the inode named /tmp/restorefile, 0 if there is none
  content,     \* inode -> what is in it, piece by piece
  fd,          \* process -> the inode it pulls into or unpacks
  count,       \* process -> the pieces it has written to or read from fd
  extracted,   \* process -> the pieces in its temporary directory
  run,         \* process -> the number of its run
  tmpdirs,     \* the runs whose temporary directory is there
  applied,     \* process -> the pieces that are in the database
  result,      \* process -> "none", "ok" or "error"
  runs, crashes

vars == <<pc, setup, wanted, inode, content, fd, count, extracted, tmpdirs, applied, result,
          run, runs, crashes>>
files == <<inode, content, fd, count>>

Places == 1..MostSchemas + 1
Blank == [i \in Places |-> Nothing]
Archive(b) == [i \in Places |-> IF i <= Schemas[b] THEN <<b, i>>
                                ELSE IF i = Schemas[b] + 1 THEN End ELSE Nothing]
Pieces(b) == {<<b, i>> : i \in 1..Schemas[b]}

---------------------------------------------------------------------------
Init ==
  /\ pc = [p \in Restorers |-> "idle"]
  /\ setup \in [Restorers -> Setups]
  /\ wanted \in [Restorers -> Backups]
  /\ inode = 0
  /\ content = <<>>
  /\ fd = [p \in Restorers |-> 0]
  /\ count = [p \in Restorers |-> 0]
  /\ extracted = [p \in Restorers |-> <<>>]
  /\ run = [p \in Restorers |-> 0]
  /\ tmpdirs = {}
  /\ applied = [p \in Restorers |-> {}]
  /\ result = [p \in Restorers |-> "none"]
  /\ runs = 0
  /\ crashes = 0

Goto(p, place) == pc' = [pc EXCEPT ![p] = place]

Answer(p, r) ==
  /\ Goto(p, "done")
  /\ result' = [result EXCEPT ![p] = r]

\* A restore of some backup is started.
Begin(p) ==
  /\ pc[p] \in {"idle", "done"} /\ runs < MaxRuns
  /\ \E b \in Backups, s \in Setups :
       wanted' = [wanted EXCEPT ![p] = b] /\ setup' = [setup EXCEPT ![p] = s]
  /\ runs' = runs + 1
  /\ run' = [run EXCEPT ![p] = runs + 1]
  /\ Goto(p, "pull")
  /\ extracted' = [extracted EXCEPT ![p] = <<>>]
  /\ applied' = [applied EXCEPT ![p] = {}]
  /\ result' = [result EXCEPT ![p] = "none"]
  /\ UNCHANGED <<files, tmpdirs, crashes>>

\* mutant: what is in the file already is taken for the backup
PullOpensAndKeeps(p) ==
  /\ pc[p] = "pull"
  /\ IF inode = 0
     THEN content' = Append(content, Blank) /\ inode' = Len(content) + 1
     ELSE UNCHANGED <<inode, content>>
  /\ fd' = [fd EXCEPT ![p] = inode']
  /\ count' = [count EXCEPT ![p] = IF content'[inode'] = Blank THEN 0 ELSE MostSchemas + 1]
  /\ Goto(p, "copy")
  /\ UNCHANGED <<setup, wanted, extracted, tmpdirs, applied, result, run, runs, crashes>>

\* Target.Pull opens the file at the fixed path, or creates it.
PullOpens(p) ==
  /\ pc[p] = "pull"
  /\ IF inode = 0
     THEN content' = Append(content, Blank) /\ inode' = Len(content) + 1
     ELSE /\ content' = IF setup[p].truncates THEN [content EXCEPT ![inode] = Blank] ELSE content
          /\ UNCHANGED inode
  /\ fd' = [fd EXCEPT ![p] = inode']
  /\ count' = [count EXCEPT ![p] = 0]
  /\ Goto(p, "copy")
  /\ UNCHANGED <<setup, wanted, extracted, tmpdirs, applied, result, run, runs, crashes>>

\* ... and copies a piece into it.
PullCopies(p) ==
  /\ pc[p] = "copy" /\ count[p] <= Schemas[wanted[p]]
  /\ content' = [content EXCEPT ![fd[p]][count[p] + 1] = Archive(wanted[p])[count[p] + 1]]
  /\ count' = [count EXCEPT ![p] = @ + 1]
  /\ UNCHANGED <<pc, setup, wanted, inode, fd, extracted, tmpdirs, applied, result, run, runs, crashes>>

\* ... and is through: the pre-restore scripts come next.
PullEnds(p) ==
  /\ pc[p] = "copy" /\ count[p] > Schemas[wanted[p]]
  /\ Goto(p, "pre")
  /\ UNCHANGED <<setup, wanted, files, extracted, tmpdirs, applied, result, run, runs, crashes>>

\* An error before the file is opened again returns with the file, whatever is in it, where
\* it is: there is no source, the copy breaks off, or a script fails.
FailsEarly(p) ==
  /\ pc[p] \in {"pull", "copy", "pre"}
  /\ Answer(p, "error")
  /\ UNCHANGED <<setup, wanted, files, extracted, tmpdirs, applied, run, runs, crashes>>

\* The scripts ran, MkdirTemp made a directory.
PreScripts(p) ==
  /\ pc[p] = "pre"
  /\ tmpdirs' = tmpdirs \cup {run[p]}
  /\ Goto(p, "open")
  /\ UNCHANGED <<setup, wanted, files, extracted, applied, result, run, runs, crashes>>

\* mutant: the file is removed only by a run that fails
ReturnKeepsFile(p, r) ==
  /\ Answer(p, r)
  /\ tmpdirs' = tmpdirs \ {run[p]}
  /\ inode' = IF pc[p] = "open" \/ r = "ok" THEN inode ELSE 0

\* Leave through the deferred RemoveAll of the run's own directory, and Remove if the file was
\* opened: by its name, whosever file that now is.
Return(p, r) ==
  /\ Answer(p, r)
  /\ tmpdirs' = tmpdirs \ {run[p]}
  /\ inode' = IF pc[p] = "open" THEN inode ELSE 0

\* Open the file by its name.
Open(p) ==
  /\ pc[p] = "open"
  /\ IF inode = 0
     THEN Return(p, "error") /\ UNCHANGED <<fd, count>>
     ELSE /\ fd' = [fd EXCEPT ![p] = inode]
          /\ count' = [count EXCEPT ![p] = 0]
          /\ Goto(p, "untar")
          /\ UNCHANGED <<inode, tmpdirs, result>>
  /\ UNCHANGED <<setup, wanted, content, extracted, applied, run, runs, crashes>>

Piece(p) == IF count[p] < MostSchemas + 1 THEN content[fd[p]][count[p] + 1] ELSE Nothing

\* The next piece is a file: Untar writes it into the directory.
Untar(p) ==
  /\ pc[p] = "untar"
  /\ Piece(p) \notin {End, Nothing}
  /\ extracted' = [extracted EXCEPT ![p] = Append(@, Piece(p))]
  /\ count' = [count EXCEPT ![p] = @ + 1]
  /\ UNCHANGED <<pc, setup, wanted, inode, content, fd, tmpdirs, applied, result, run, runs, crashes>>

\* mutant: the loop stops before the end of the archive
UntarEndsEarly(p) ==
  /\ pc[p] = "untar"
  /\ Goto(p, "restore")
  /\ UNCHANGED <<setup, wanted, files, extracted, tmpdirs, applied, result, run, runs, crashes>>

\* The archive ends.  For tar alone a file that breaks off between two entries ends, too.
UntarEnds(p) ==
  /\ pc[p] = "untar"
  /\ Piece(p) \in IF setup[p].compression = "gzip" THEN {End} ELSE {End, Nothing}
  /\ Goto(p, "restore")
  /\ UNCHANGED <<setup, wanted, files, extracted, tmpdirs, applied, result, run, runs, crashes>>

\* The file breaks off, what is in it is no archive, or a file cannot be written.
UntarFails(p) ==
  /\ pc[p] = "untar"
  /\ Return(p, "error")
  /\ UNCHANGED <<setup, wanted, content, fd, count, extracted, applied, run, runs, crashes>>

\* The files that can be opened: the others are passed over without an error.
Opened(p) ==
  {extracted[p][i] : i \in 1..IF Len(extracted[p]) < MaxOpen THEN Len(extracted[p]) ELSE MaxOpen}

\* database.Restore applies each file in a transaction of its own, and stops at the first
\* that fails.
Restore(p) ==
  /\ pc[p] = "restore"
  /\ \/ /\ applied' = [applied EXCEPT ![p] = Opened(p)]
        /\ Goto(p, "post")
        /\ UNCHANGED <<inode, tmpdirs, result>>
     \/ /\ \E some \in SUBSET Opened(p) : applied' = [applied EXCEPT ![p] = some]
        /\ Return(p, "error")
  /\ UNCHANGED <<setup, wanted, content, fd, count, extracted, run, runs, crashes>>

\* The post-restore scripts run or fail, and the run is over.
PostScripts(p) ==
  /\ pc[p] = "post"
  /\ \E r \in {"ok", "error"} : Return(p, r)
  /\ UNCHANGED <<setup, wanted, content, fd, count, extracted, applied, run, runs, crashes>>

\* The process is killed: nothing deferred is run.
Crash(p) ==
  /\ pc[p] \notin {"idle", "done"} /\ crashes < MaxCrashes
  /\ crashes' = crashes + 1
  /\ Goto(p, "idle")
  /\ UNCHANGED <<setup, wanted, files, extracted, tmpdirs, applied, result, run, runs>>

Step(p) ==
  \/ PullOpens(p) \/ PullCopies(p) \/ PullEnds(p) \/ FailsEarly(p) \/ PreScripts(p) \/ Open(p)
  \/ Untar(p) \/ UntarEnds(p) \/ UntarFails(p) \/ Restore(p) \/ PostScripts(p)

Next == \E p \in Restorers : Begin(p) \/ Step(p) \/ Crash(p)

Spec == Init /\ [][Next]_vars

---------------------------------------------------------------------------
(* Properties. *)

\* Each variable holds a value of its type.
TypeOK ==
  /\ pc \in [Restorers -> {"idle", "pull", "copy", "pre", "open", "untar", "restore", "post",
                           "done"}]
  /\ setup \in [Restorers -> Setups]
  /\ wanted \in [Restorers -> Backups]
  /\ inode \in 0..Len(content)
  /\ \A p \in Restorers :
       /\ pc[p] = "done" <=> result[p] # "none"
       /\ fd[p] \in 0..Len(content)
       /\ count[p] \in 0..MostSchemas + 1
       /\ Len(extracted[p]) <= MostSchemas + 1
       /\ run[p] \in 0..runs
  /\ tmpdirs \subseteq 1..runs
  /\ runs \in 0..MaxRuns /\ crashes \in 0..MaxCrashes

\* "select a backup file, and it will restore the database from that file" (docs/restore.md:5-6):
\* a restore that answers ok has put the wanted backup into the database, all of it and nothing
\* else, whatever an earlier run left in the temporary file.
RestoresWanted ==
  \A p \in Restorers : result[p] = "ok" => applied[p] = Pieces(wanted[p])

\* Nothing reaches the database before the archive is unpacked whole: the files to apply are
\* those of one backup (core/restore.go:80-118).
WholeOrNothing ==
  \A p \in Restorers :
    pc[p] \in {"restore", "post"} =>
      \E b \in Backups : {extracted[p][i] : i \in 1..Len(extracted[p])} = Pieces(b)

\* A restore that answers ok leaves no temporary file or directory of its own behind
\* (core/restore.go:64-70).
OkLeavesNothing ==
  \A p \in Restorers :
    /\ pc[p] = "done" => run[p] \notin tmpdirs
    /\ result[p] = "ok" /\ Cardinality(Restorers) = 1 => inode = 0
=============================================================================
