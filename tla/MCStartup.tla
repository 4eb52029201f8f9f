----------------------------- MODULE MCStartup -----------------------------
(* Instances of Startup for TLC. *)
EXTENDS Startup, FiniteSetsExt, TLC

\* The bound on settings of a run, beside the target that is nearly always given.
CONSTANT MaxGiven

\* Which sources can set an option, and to the zero value: an empty variable is no setting,
\* but "false" and "0" are.
ZeroVariables ==
  {"safechars", "no-database-name", "skip-extended-insert", "compact", "triggers", "routines",
   "once", "aws-path-style", "parallelism", "max-allowed-packet", "frequency", "port"}
NotOnCli == {"compact"}
Legal(c, o) ==
  LET prefix == IF o \in RootOptions THEN "db" ELSE IF c = "dump" THEN "db_dump" ELSE "db_restore"
  IN (IF o \in NotOnCli THEN {} ELSE {"cli"} \X {o} \X BOOLEAN)
       \cup {prefix} \X {o} \X (IF o \in ZeroVariables THEN BOOLEAN ELSE {FALSE})
       \cup (IF o \in NotInFile \/ (c = "restore" /\ o = "target") THEN {} ELSE {"file"} \X {o} \X BOOLEAN)

\* Up to MaxGiven settings of the options of one group, no two of one source and option.
Given(c, group) ==
  LET all == UNION {Legal(c, o) : o \in group}
      sets == UNION {kSubset(k, all) : k \in 0..MaxGiven}
  IN {[<<s, o>> \in {<<x[1], x[2]>> : x \in S} |-> <<s, o, TRUE>> \in S] :
        S \in {T \in sets : \A x, y \in T : x # y => <<x[1], x[2]>> # <<y[1], y[2]>>}}

\* Options whose rules touch each other are in one group.
DumpGroups ==
  {Schedule, Encrypting, {"server", "pass", "pass-file"}, {"port", "user"}, {"target", "aws-path-style", "smb-user"},
   {"safechars", "max-allowed-packet", "filename-pattern"}, {"parallelism", "compact", "routines"},
   {"include", "retention", "ignore-tables"}, {"compression", "exclude"}}
PruneGroups == {Schedule, {"retention", "target"}}
RestoreGroups == {{"compression", "target"}, {"pass", "database"}}

\* Where the targets come from when the choice does not say.
Target(c) == IF c = "restore" THEN {"cli"} ELSE {"cli", "file"}
ByGroups ==
  [c \in Commands |->
     LET groups == CASE c = "dump" -> DumpGroups [] c = "prune" -> PruneGroups [] OTHER -> RestoreGroups
     IN {g @@ (<<s, "target">> :> FALSE) : s \in Target(c), g \in UNION {Given(c, group) : group \in groups}}]

\* No file, a local one, one behind a server, behind encryption,
\* behind two servers, behind a server and encryption, and one of no kind
AnyChain ==
  {<<>>, <<"local">>, <<"remote", "local">>, <<"encrypted", "local">>, <<"remote", "remote", "local">>,
   <<"remote", "encrypted", "local">>, <<"other">>}

\* The variables of another command, which this one is documented to read.
Documented ==
  [ByGroups EXCEPT !["prune"] = @ \cup {(<<"db_dump", o>> :> FALSE) @@ (<<"cli", "target">> :> FALSE) : o \in {"frequency", "retention"}}]
============================================================================
