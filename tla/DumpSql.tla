------------------------------ MODULE DumpSql ------------------------------
(***************************************************************************)
(* The text Data.Dump (pkg/database/mysql) writes for a schema, line by    *)
(* line: which lines end in a semicolon, which do not, which are blank and *)
(* which switch the delimiter.  That is all that decides how database.     *)
(* Restore cuts the file into statements; what a line says is reduced to   *)
(* the kind of statement and the object it is about.                       *)
(*                                                                         *)
(* A dump is written piece by piece: a gap, a comment, a statement on one  *)
(* or two lines, or a statement between two DELIMITER lines.               *)
(***************************************************************************)
EXTENDS Sequences, SequencesExt

\* A statement of kind op about obj: a schema, a table, a view, a routine or a trigger.
\* timing is what a trigger's statement says.
Stmt(op, obj) == [op |-> op, obj |-> obj, timing |-> "none"]
Setting == Stmt("set", "session")
NoStmt == Stmt("none", "none")

(* Lines. *)
BlankLine == [kind |-> "blank", of |-> NoStmt, to |-> ""]
CommentLine == [kind |-> "open", of |-> NoStmt, to |-> ""]
OpenLine(s) == [kind |-> "open", of |-> s, to |-> ""]       \* does not end in ";"
ShutLine(s) == [kind |-> "shut", of |-> s, to |-> ""]       \* ends in ";"
DelimiterLine(d) == [kind |-> "delimiter", of |-> NoStmt, to |-> d]

(* Pieces. *)
Gap == [stmt |-> NoStmt, lines |-> <<BlankLine>>]
Comment == [stmt |-> NoStmt, lines |-> <<CommentLine>>]
OneLine(s) == [stmt |-> s, lines |-> <<ShutLine(s)>>]
TwoLines(s) == [stmt |-> s, lines |-> <<OpenLine(s), ShutLine(s)>>]
\* the body of a routine or trigger may well have lines that end in ";"
Delimited(s) ==
  [stmt |-> s,
   lines |-> <<DelimiterLine(";;"), OpenLine(s), ShutLine(s), ShutLine(s), DelimiterLine(";")>>]

\* What Of gives for each member of seq, one after the other.
ForEach(seq, Of(_)) == FlattenSeq([i \in 1..Len(seq) |-> Of(seq[i])])

Text(pieces) == ForEach(pieces, LAMBDA p : p.lines)

\* The lines of a piece that are its statement.
Statement(piece) == ForEach(piece.lines, LAMBDA l : IF l.kind = "delimiter" THEN <<>> ELSE <<l>>)

---------------------------------------------------------------------------
(* The templates.  A schema is [db, tables, views, routines]; a table has a name, the     *)
(* number of its INSERT statements and its triggers, each [name, timing].                 *)

SettingLines == <<OneLine(Setting), OneLine(Setting)>>

Banner == <<Gap, Comment, Gap>>

\* headerTmpl, createUseDatabaseHeader
Header(schema, opts) ==
  (IF opts.compact THEN <<>>
   ELSE <<Comment, Gap>> \o SettingLines \o <<Gap, Comment>>)
  \o
  (IF opts.suppressUse THEN <<>>
   ELSE <<Gap, OneLine(Stmt("create", schema.db)), Gap, OneLine(Stmt("use", schema.db))>>)

Insert(table) == Stmt("insert", table.name)

\* tableTmpl has each value of Stream on its own line, tableTmplCompact has all on one
Rows(table, opts) ==
  IF ~opts.compact THEN [i \in 1..table.inserts |-> OneLine(Insert(table))]
  ELSE CASE table.inserts = 0 -> <<>>
         [] table.inserts = 1 -> <<OneLine(Insert(table))>>
         [] table.inserts > 1 -> <<OneLine(Stmt("several", table.name))>>

Table(table, opts) ==
  IF opts.compact
    THEN <<Gap>> \o SettingLines \o <<TwoLines(Stmt("table", table.name)), OneLine(Setting)>>
         \o Rows(table, opts)
    ELSE Banner \o <<OneLine(Stmt("drop", table.name))>> \o SettingLines
         \o <<TwoLines(Stmt("table", table.name)), OneLine(Setting)>>
         \o Banner \o <<OneLine(Stmt("lock", table.name))>>
         \o Rows(table, opts)
         \o <<OneLine(Stmt("unlock", table.name))>>

\* dumpTriggers reads the timing and writes AFTER
Trigger(trigger) ==
  <<Gap>> \o SettingLines
  \o <<Delimited([Stmt("trigger", trigger.name) EXCEPT !.timing = "AFTER"])>> \o SettingLines

Triggers(table, opts) ==
  IF opts.triggers
    THEN ForEach(table.triggers, LAMBDA g : Trigger(g))
    ELSE <<>>

\* viewTmpl0: a stand-in for the view, so that other views can refer to it
StandIn(view, opts) ==
  (IF opts.compact THEN <<Gap>> ELSE Banner \o <<OneLine(Stmt("drop", view))>>)
  \o SettingLines \o <<TwoLines(Stmt("standin", view)), OneLine(Setting)>>

\* dumpProceduresOrFunctions
Routine(routine, opts) ==
  (IF opts.compact THEN <<>> ELSE <<Gap, OneLine(Stmt("drop", routine))>>)
  \o <<Gap>> \o SettingLines \o <<Delimited(Stmt("routine", routine))>> \o SettingLines

RoutinesHeader(opts) == IF opts.compact THEN <<>> ELSE <<Gap, Comment>>

\* viewTmpl1: the view itself, after a USE of its own
View(view, schema, opts) ==
  (IF opts.compact THEN <<Gap>> ELSE Banner)
  \o <<OneLine(Stmt("use", schema.db))>>
  \o (IF opts.compact THEN <<>> ELSE Banner)
  \o <<OneLine(Stmt("drop", view))>> \o SettingLines
  \o <<TwoLines(Stmt("view", view))>> \o SettingLines

\* footerTmpl: its last line, a comment, has no newline
Footer(opts) ==
  IF opts.compact THEN <<>> ELSE SettingLines \o <<Gap>> \o SettingLines \o <<Gap, Comment>>

\* Data.Dump: header, tables with their triggers, stand-ins, routines, views, footer
Pieces(schema, opts) ==
  Header(schema, opts)
  \o ForEach(schema.tables, LAMBDA t : Table(t, opts) \o Triggers(t, opts))
  \o ForEach(schema.views, LAMBDA v : StandIn(v, opts))
  \o (IF opts.routines
        THEN RoutinesHeader(opts) \o ForEach(schema.routines, LAMBDA r : Routine(r, opts))
        ELSE <<>>)
  \o ForEach(schema.views, LAMBDA v : View(v, schema, opts))
  \o Footer(opts)

\* The lines of each statement, in order.
Statements(pieces) ==
  ForEach(pieces, LAMBDA p : IF p.stmt = NoStmt THEN <<>> ELSE <<Statement(p)>>)
Written(schema, opts) == Statements(Pieces(schema, opts))
============================================================================
