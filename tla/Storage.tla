------------------------------ MODULE Storage ------------------------------
(***************************************************************************)
(* What the four targets (pkg/storage/file, smb, s3, scp) make of a name.  *)
(* Push, ReadDir, Remove and Pull each work out for themselves where on    *)
(* the server a file is; dumps push, prunes list and remove what they have *)
(* listed, and restores pull.  Which of the listed backups a prune removes *)
(* is the business of the module Prune: here it may be any.                *)
(*                                                                         *)
(* A place is [dir, name]: dir is a sequence of path segments, and a name  *)
(* is a backup's number and whether its time is written with colons.       *)
(***************************************************************************)
EXTENDS Integers, Sequences, FiniteSets

CONSTANTS
  Protocols,      \* those a target may have: "file", "smb", "s3", "scp"
  Dir,            \* the path of the target's URL
  Home,           \* the directory an ssh login starts in
  Ids,            \* the numbers of the backups
  OtherPlaces,    \* what else may be on the server at the start: a set of sets of places
  Restored,       \* the protocols of the targets that restores pull from
  Extends(_, _),  \* Extends(a, b): the name of segment b starts with that of a
  KeysPerPage,       \* how many keys an S3 server answers at once: 1000
  MaxPushes       \* bound on the number of pushes

Name == [id : Ids, colons : BOOLEAN]
TmpName == [id |-> 0, colons |-> FALSE]      \* base name of /tmp/restorefile

ASSUME StorageAssumption ==
  /\ Protocols \subseteq {"file", "smb", "s3", "scp"}
  /\ Dir \in Seq(STRING)
  /\ 0 \notin Ids
  /\ KeysPerPage \in Nat
  /\ MaxPushes \in Nat

VARIABLES
  protocol,
  objects,     \* place -> what is in it: the number of the push that wrote it, or 0
  pushes,      \* how many pushes there were
  latest,      \* name -> the last push of a file of that name, 0 if there was none
  listed,      \* the answer of ReadDir that a prune is working on
  gone,        \* the places of the files that this prune has removed
  pulled       \* the last Pull: the name, and what it wrote (-1: an error); or "none"

storageVars == <<protocol, objects, pushes, latest, listed, gone, pulled>>

At(dir, name) == [dir |-> dir, name |-> name]
Places == DOMAIN objects
Dashes(n) == [n EXCEPT !.colons = FALSE]

---------------------------------------------------------------------------
(* The names of each protocol. *)

\* Clean: smb replaces the colons
Clean(n) == IF protocol = "smb" THEN Dashes(n) ELSE n

\* Push: below the path of the URL, which scp does not look at
PushPlace(n) == IF protocol = "scp" THEN At(Home, n) ELSE At(Dir, n)

\* mutant: every protocol takes the base name of the local file
PullByLocalName(n) == At(Dir, TmpName)

\* Pull: s3 leaves the slash that the path of the URL starts with, which the service is taken
\* not to mind; smb takes the base name of the local file
PullPlace(n) ==
  CASE protocol = "file" -> At(Dir, n)
    [] protocol = "smb" -> At(Dir, TmpName)
    [] protocol = "s3" -> At(Dir, n)
    [] protocol = "scp" -> At(Home, n)

\* the first letters of every name: those of DefaultFilenamePattern
FileSegment == "db_backup"

\* the key of the place starts with the text of Dir, which need not end at a segment
HasPrefix(p) ==
  LET path == Append(p.dir, FileSegment) IN
  \/ Dir = <<>>
  \/ /\ Len(path) >= Len(Dir)
     /\ \A i \in 1..Len(Dir) - 1 : path[i] = Dir[i]
     /\ \/ path[Len(Dir)] = Dir[Len(Dir)]
        \/ Extends(Dir[Len(Dir)], path[Len(Dir)])

\* mutant: the directory "" is not joined to the path of the URL
ListsRoot(p) == p.dir = <<>>

\* mutant: the prefix is not passed on to the server
ListsBucket(p) ==
  CASE protocol \in {"file", "smb"} -> p.dir = Dir
    [] protocol = "s3" -> TRUE
    [] protocol = "scp" -> p.dir = Home

\* ReadDir(""), which for s3 is about every key with the prefix
Lists(p) ==
  CASE protocol \in {"file", "smb"} -> p.dir = Dir
    [] protocol = "s3" -> HasPrefix(p)
    [] protocol = "scp" -> p.dir = Home

Matching == {p \in Places : Lists(p)}
OnePage == protocol = "s3" => Cardinality(Matching) <= KeysPerPage

\* What ReadDir may answer.  Nobody asks an S3 server for a second page; which keys are on
\* the first is a matter of their order, and here any may be.
Listings ==
  IF OnePage THEN {Matching} ELSE {page \in SUBSET Matching : Cardinality(page) = KeysPerPage}

\* mutant: the listed name is not joined to the path of the URL
RemoveAtRoot(p) == At(<<>>, p.name)

\* Remove of what ReadDir has answered: s3 answers keys and takes keys, the others answer
\* base names; smb replaces the colons
RemovePlace(p) ==
  CASE protocol = "file" -> At(Dir, p.name)
    [] protocol = "smb" -> At(Dir, Dashes(p.name))
    [] protocol = "s3" -> p
    [] protocol = "scp" -> At(Home, p.name)

---------------------------------------------------------------------------
StorageInit ==
  /\ protocol \in Protocols
  /\ \E others \in OtherPlaces : objects = [p \in others |-> 0]
  /\ pushes = 0
  /\ latest = [n \in Name |-> 0]
  /\ listed = {}
  /\ gone = {}
  /\ pulled = <<"none">>

\* A dump cleans the name of its file and pushes the file under it.
Push ==
  /\ pushes < MaxPushes
  /\ \E n \in Name :
       /\ objects' = [p \in Places \cup {PushPlace(Clean(n))} |->
                        IF p = PushPlace(Clean(n)) THEN pushes + 1 ELSE objects[p]]
       /\ latest' = [m \in Name |-> IF Clean(m) = Clean(n) THEN pushes + 1 ELSE latest[m]]
  /\ pushes' = pushes + 1
  /\ UNCHANGED <<protocol, listed, gone, pulled>>

\* A prune lists the target ...
ReadDir ==
  /\ \E listing \in Listings : listed' = listing
  /\ gone' = {}
  /\ UNCHANGED <<protocol, objects, pushes, latest, pulled>>

\* ... and removes one of what it has listed.  What is gone already may be an error or not.
RemoveListed ==
  /\ \E p \in listed :
       /\ objects' = [q \in Places \ {RemovePlace(p)} |-> objects[q]]
       /\ listed' = listed \ {p}
       /\ gone' = gone \cup {p}
       /\ latest' = [n \in Name |->
                       IF PushPlace(Clean(n)) = RemovePlace(p) THEN 0 ELSE latest[n]]
  /\ UNCHANGED <<protocol, pushes, pulled>>

\* A restore pulls the file its user names: the name as it is in the target.
Pull ==
  /\ protocol \in Restored
  /\ \E n \in Name :
       /\ latest[n] # 0 /\ n = Clean(n)
       /\ pulled' = <<n, latest[n],
                      IF PullPlace(n) \in Places THEN objects[PullPlace(n)] ELSE -1>>
  /\ UNCHANGED <<protocol, objects, pushes, latest, listed, gone>>

StorageNext == Push \/ ReadDir \/ RemoveListed \/ Pull

StorageSpec == StorageInit /\ [][StorageNext]_storageVars

---------------------------------------------------------------------------
(* Properties. *)

\* Each variable holds a value of its type.
StorageTypeOK ==
  /\ protocol \in Protocols
  /\ \A p \in Places : p.name \in Name /\ objects[p] \in 0..pushes
  /\ pushes \in 0..MaxPushes
  /\ latest \in [Name -> 0..pushes]
  /\ protocol = "smb" => \A p \in Places : objects[p] > 0 => ~p.name.colons

\* "the dump file will be saved [...] using the naming convention" (docs/backup.md:184), "scp
\* ://user@hostname:/path" (docs/backup.md:138): what a dump pushes is in the directory of
\* the target's URL.
PushedBelowUrl == \A p \in Places : objects[p] # 0 => p.dir = Dir

\* A prune sees every backup that was pushed and is still there: none escapes the retention
\* (prune.go:67, and ReadDir against Push), if all that it asks for fits on one page.
PushedIsListed ==
  OnePage => \A listing \in Listings : {p \in Places : objects[p] # 0} \subseteq listing

\* What a prune has removed is not there any more, unless it was pushed since; removing a
\* listed entry removes that entry and nothing else (prune.go:143-148, Remove against ReadDir).
RemovesWhatItListed ==
  [][\A p \in gone' \ gone : Places \ Places' = {p} \cap Places]_storageVars

\* "must be to a directory in the S3 bucket" (docs/backup.md:184): a prune removes nothing
\* outside the directory of the target's URL.
RemovesOnlyOwn == [][\A p \in Places \ Places' : p.dir = Dir]_storageVars

\* "select a backup file, and it will restore the database from that file in that target"
\* (docs/restore.md:5-6): Pull of a name gives what was last pushed under that name.
PullGetsPushed == pulled # <<"none">> => pulled[3] = pulled[2]
============================================================================
