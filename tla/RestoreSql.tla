----------------------------- MODULE RestoreSql -----------------------------
(***************************************************************************)
(* database.Restore (pkg/database/restore.go): each file of a backup is    *)
(* read line by line, cut into statements, and executed in a transaction;  *)
(* the schema names of CREATE DATABASE and USE are replaced on the way.    *)
(* The files are dumps as DumpSql writes them.                             *)
(*                                                                         *)
(* The server is outside src/.  Of it the model has the schemas that       *)
(* exist, the schema selected in the session, and which object was created *)
(* in which schema.  A statement that ran is not undone by the rollback:   *)
(* nearly all of a dump is DDL, which commits by itself.                   *)
(***************************************************************************)
EXTENDS Integers, Sequences, SequencesExt, DumpSql

CONSTANTS
  Restores,         \* what may be restored: [files, map, existing], files being a sequence of
                    \* [schema, opts], map databasesMap (schema name -> schema name), and
                    \* existing the schemas the server has
  NoSchema,         \* no schema is selected
  MultiStatements   \* Connection.MultiStatements

\* Sequences, truth values and numbers where the templates take them for granted.
IsSeq(s) == s \in Seq(Range(s))

ASSUME RestoresAssumption ==
  \A r \in Restores :
    /\ IsSeq(r.files)
    /\ \A f \in 1..Len(r.files) :
         LET schema == r.files[f].schema  opts == r.files[f].opts IN
         /\ IsSeq(schema.tables) /\ IsSeq(schema.views) /\ IsSeq(schema.routines)
         /\ \A i \in 1..Len(schema.tables) :
              /\ schema.tables[i].inserts \in Nat
              /\ IsSeq(schema.tables[i].triggers)

VARIABLES
  restore,    \* one of Restores
  file,       \* the index of the file being restored
  pos,        \* how many of its lines have been read
  delimiter,
  current,    \* the lines in the variable current
  phase,      \* "begin", "read", "exec", "leftover", "last", "commit", "ok" or "error"
  sent,       \* the file's executed statements, as they stood in the file
  faulty,     \* a read, the connection or a commit has failed
  schemas,    \* the schemas of the server
  selected,   \* the schema of the session
  landed      \* the created objects, and the file each is from: [op, obj, timing, db, file]

vars == <<restore, file, pos, delimiter, current, phase, sent, faulty, schemas, selected, landed>>
server == <<schemas, selected, landed>>

\* The text of the files, and the statements in it, by backup and file.
Backups == {r.files : r \in Restores}
TextOf == [b \in Backups |-> [f \in 1..Len(b) |-> Text(Pieces(b[f].schema, b[f].opts))]]
WrittenIn == [b \in Backups |-> [f \in 1..Len(b) |-> Written(b[f].schema, b[f].opts)]]

backup == restore.files

Lines(f) == TextOf[backup][f]
Default == ";"

Mapped(db) == IF db \in DOMAIN restore.map THEN restore.map[db] ELSE db

---------------------------------------------------------------------------
Init ==
  /\ restore \in Restores
  /\ file = 1
  /\ pos = 0
  /\ delimiter = Default
  /\ current = <<>>
  /\ phase = "begin"
  /\ sent = <<>>
  /\ faulty = FALSE
  /\ schemas = restore.existing
  /\ selected = NoSchema
  /\ landed = {}

\* db.BeginTx for the next file, on the connection that the last one gave back, or the end
\* of the loop over the files
Begin ==
  /\ phase = "begin"
  /\ IF file > Len(backup)
       THEN /\ phase' = "ok"
            /\ UNCHANGED <<pos, delimiter, current, sent>>
       ELSE /\ phase' = "read"
            /\ pos' = 0
            /\ delimiter' = Default
            /\ current' = <<>>
            /\ sent' = <<>>
  /\ UNCHANGED <<restore, file, faulty>> /\ UNCHANGED server

---------------------------------------------------------------------------
(* One turn of the inner loop, up to the rewriting. *)

\* mutant: a line that ends in ";" ends the statement in every scope
TakesEverySemicolon(line) ==
  /\ line.kind \in {"open", "shut"}
  /\ current' = Append(current, line)
  /\ phase' = IF line.kind = "shut" THEN "exec" ELSE "read"
  /\ UNCHANGED delimiter

\* text: it is added to current, which is complete when the line ends in the default
\* delimiter and that is the one in force
TakeText(line) ==
  /\ line.kind \in {"open", "shut"}
  /\ current' = Append(current, line)
  /\ phase' = IF line.kind = "shut" /\ delimiter = Default THEN "exec" ELSE "read"
  /\ UNCHANGED delimiter

\* DELIMITER: whatever is in current is executed (on the way out of a scope without the
\* delimiter of the scope, which the model has no sign for)
TakeDelimiter(line) ==
  /\ line.kind = "delimiter"
  /\ delimiter' = line.to
  /\ phase' = IF current = <<>> THEN "read" ELSE "exec"
  /\ UNCHANGED current

SkipBlank(line) ==
  /\ line.kind = "blank"
  /\ UNCHANGED <<delimiter, current, phase>>

Read ==
  /\ phase = "read"
  /\ pos < Len(Lines(file))
  /\ pos' = pos + 1
  /\ LET line == Lines(file)[pos + 1]
     IN SkipBlank(line) \/ TakeText(line) \/ TakeDelimiter(line)
  /\ UNCHANGED <<restore, file, sent, faulty>> /\ UNCHANGED server

\* io.EOF: what is left in current is executed as it is
EndOfFile ==
  /\ phase = "read"
  /\ pos = Len(Lines(file))
  /\ phase' = IF current = <<>> THEN "commit" ELSE "leftover"
  /\ UNCHANGED <<restore, file, pos, delimiter, current, sent, faulty>> /\ UNCHANGED server

---------------------------------------------------------------------------
(* tx.Exec. *)

\* The lines that are not comments.
Stmts(lines) == ForEach(lines, LAMBDA l : IF l.of = NoStmt THEN <<>> ELSE <<l>>)

\* mutant: only CREATE DATABASE is looked for
RewrittenCreate(lines) ==
  LET s == Stmts(lines)[1].of IN
  IF phase = "exec" /\ Len(lines) = 1 /\ s.op = "create" THEN [s EXCEPT !.obj = Mapped(@)] ELSE s

\* createRegex and useRegex are anchored at the start of current (there is no (?m)): a
\* statement with comment lines before it is not rewritten, nor is what is left at the end
\* of the file.
Rewritten(lines) ==
  LET s == Stmts(lines)[1].of IN
  IF phase = "exec" /\ Len(lines) = 1 /\ s.op \in {"create", "use"}
    THEN [s EXCEPT !.obj = Mapped(@)] ELSE s

\* What needs a selected schema.
InSchema == {"drop", "table", "lock", "unlock", "insert", "several", "trigger", "standin",
             "routine", "view"}

\* The server accepts the statement.
Accepts(s) ==
  /\ s.op = "use" => s.obj \in schemas
  /\ s.op \in InSchema => selected # NoSchema
  /\ s.op = "several" => MultiStatements

Effect(s) ==
  /\ schemas' = IF s.op = "create" THEN schemas \cup {s.obj} ELSE schemas
  /\ selected' = IF s.op = "use" THEN s.obj ELSE selected
  /\ landed' = IF s.op \in {"table", "trigger", "routine", "view"}
                 THEN landed \cup {[op |-> s.op, obj |-> s.obj, timing |-> s.timing,
                                    db |-> selected, file |-> file]}
                 ELSE landed

\* It succeeds; comments alone are accepted and do nothing.
Exec ==
  /\ phase \in {"exec", "leftover"}
  /\ \/ Stmts(current) = <<>> /\ UNCHANGED server
     \/ /\ Stmts(current) # <<>>
        /\ LET s == Rewritten(current) IN Accepts(s) /\ Effect(s)
  /\ sent' = Append(sent, current)
  /\ current' = <<>>
  /\ phase' = IF phase = "exec" THEN "read" ELSE "commit"
  /\ UNCHANGED <<restore, file, pos, delimiter, faulty>>

\* mutant: the error is passed over
RefusedGoesOn ==
  /\ phase \in {"exec", "leftover"}
  /\ Stmts(current) # <<>> /\ ~Accepts(Rewritten(current))
  /\ current' = <<>>
  /\ phase' = IF phase = "exec" THEN "read" ELSE "commit"
  /\ UNCHANGED <<restore, file, pos, delimiter, sent, faulty>> /\ UNCHANGED server

\* The server refuses it: roll back and return.
Refused ==
  /\ phase \in {"exec", "leftover"}
  /\ Stmts(current) # <<>> /\ ~Accepts(Rewritten(current))
  /\ phase' = "error"
  /\ UNCHANGED <<restore, file, pos, delimiter, current, sent, faulty>> /\ UNCHANGED server

\* tx.Commit, and the next file
Commit ==
  /\ phase = "commit"
  /\ file' = file + 1
  /\ phase' = "begin"
  /\ UNCHANGED <<restore, pos, delimiter, current, sent, faulty>> /\ UNCHANGED server

\* A read, the connection or the commit fails: return; the files before are committed.
Fault ==
  /\ phase \in {"begin", "read", "exec", "leftover", "commit"}
  /\ phase = "begin" => file <= Len(backup)
  /\ phase' = "error"
  /\ faulty' = TRUE
  /\ UNCHANGED <<restore, file, pos, delimiter, current, sent>> /\ UNCHANGED server

Returned == phase \in {"ok", "error"} /\ UNCHANGED vars

Step == Begin \/ Read \/ EndOfFile \/ Exec \/ Refused \/ Commit

Next == Step \/ Fault \/ Returned

Spec == Init /\ [][Next]_vars

---------------------------------------------------------------------------
(* Properties. *)

\* Each variable holds a value of its type, and nothing empty is about to be executed: the
\* server refuses an empty statement.
TypeOK ==
  /\ file \in 1..(Len(backup) + 1)
  /\ phase \in {"read", "exec", "leftover", "commit"} => pos \in 0..Len(Lines(file))
  /\ delimiter \in {";", ";;"}
  /\ phase \in {"begin", "read", "exec", "leftover", "commit", "ok", "error"}
  /\ phase \in {"exec", "leftover"} => current # <<>>
  /\ faulty \in BOOLEAN
  /\ selected \in schemas \cup {NoSchema}

\* The statements among the calls of tx.Exec.
Executed(calls) == ForEach(calls, LAMBDA c : IF Stmts(c) = <<>> THEN <<>> ELSE <<Stmts(c)>>)

\* The file's statements are executed whole, one by one and in the order in which the dump
\* wrote them, whatever comments, blank lines and delimiters lie between; and when the file
\* is committed none is left out (restore.go:34-113 against the templates).
SentAsWritten ==
  phase \in {"read", "exec", "leftover", "commit"} =>
    /\ IsPrefix(Executed(sent), WrittenIn[backup][file])
    /\ phase = "commit" => Executed(sent) = WrittenIn[backup][file]

\* Restore answers nil only when everything the backup holds is there: every table,
\* trigger, routine and view of every file (restore.go:25-119).
Objects(b) ==
  LET s == b.schema  o == b.opts IN
     {[op |-> "table", obj |-> s.tables[i].name] : i \in 1..Len(s.tables)}
     \cup (IF o.triggers
             THEN UNION {{[op |-> "trigger", obj |-> s.tables[i].triggers[j].name] :
                            j \in 1..Len(s.tables[i].triggers)} : i \in 1..Len(s.tables)}
             ELSE {})
     \cup (IF o.routines
             THEN {[op |-> "routine", obj |-> s.routines[i]] : i \in 1..Len(s.routines)} ELSE {})
     \cup {[op |-> "view", obj |-> s.views[i]] : i \in 1..Len(s.views)}
OkMeansRestored ==
  phase = "ok" =>
    \A f \in 1..Len(backup) : \A x \in Objects(backup[f]) :
      \E l \in landed : l.op = x.op /\ l.obj = x.obj /\ l.file = f

\* "Run the restore, which will restore into the `TO` database name" (docs/restore.md:154):
\* what a file creates, it creates in the schema that its own is mapped to, whichever files
\* were restored on the connection before.
LandsInTarget ==
  \A l \in landed : l.db = Mapped(backup[l.file].schema.db)

\* A restore in which the server, the files and the connection do their part succeeds: "as well
\* as ensuring `BAR` exists" (docs/restore.md:134), and "If the dump file does *not* have the
\* `USE <database>;` statement in it [...] then it simply restores as is" (docs/restore.md:156).
OnlyFaultsFail == phase = "error" => faulty

\* "one INSERT statement per line" (docs/configuration.md:75): what is executed at once is a
\* single statement.
OneStatementAtOnce ==
  \A i \in 1..Len(current) : current[i].of.op # "several"

\* "whether to include triggers" (docs/configuration.md:94): the triggers that are restored
\* are those the schema has.
TriggersAsDeclared ==
  \A l \in landed : l.op = "trigger" =>
    \E f \in 1..Len(backup) : \E i \in 1..Len(backup[f].schema.tables) :
      LET ts == backup[f].schema.tables[i].triggers IN
      \E j \in 1..Len(ts) : ts[j].name = l.obj /\ ts[j].timing = l.timing
============================================================================
