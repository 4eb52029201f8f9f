--------------------------- MODULE RestoreSqlProofs ---------------------------
(***************************************************************************)
(* Proofs about RestoreSql, for any number of files, any dumps of any      *)
(* options and any renaming of schemas.                                    *)
(*                                                                         *)
(* The scanner sees lines, the properties speak of statements: what joins  *)
(* them are the pieces that the templates write.  Every piece is one of    *)
(* five kinds of known lines (PieceSet, AllLines).  The invariant says     *)
(* that, of the pieces of the file at hand, the first k are done and the   *)
(* scanner stands at a known line of the next one (Place, InPiece), with   *)
(* that piece's text so far in "current"; that what was executed are the   *)
(* statements of the first k pieces; that what these create is there       *)
(* (Restored); and which schema is selected (SelectedAt).  For the last,   *)
(* the comments count that stand above a USE, as they are sent along with  *)
(* it (Fresh).                                                             *)
(***************************************************************************)
EXTENDS RestoreSql, SequenceTheorems, SequenceFacts, TLAPS

---------------------------------------------------------------------------
(* The templates give pieces of a set S, if S has what they are made of. *)

\* What all of them use.
Usual(S, opts) ==
  /\ Gap \in S /\ OneLine(Setting) \in S
  /\ ~opts.compact => Comment \in S

LEMMA UsualTyped ==
  ASSUME NEW S, NEW opts, Usual(S, opts)
  PROVE  /\ SettingLines \in Seq(S)
         /\ ~opts.compact => Banner \in Seq(S)
         /\ \A x \in S : <<x>> \in Seq(S)
         /\ <<>> \in Seq(S)
         /\ \A s, t \in Seq(S) : s \o t \in Seq(S)
BY DEF Usual, SettingLines, Banner

LEMMA HeaderTyped ==
  ASSUME NEW S, NEW schema, NEW opts, Usual(S, opts),
         OneLine(Stmt("create", schema.db)) \in S, OneLine(Stmt("use", schema.db)) \in S
  PROVE  Header(schema, opts) \in Seq(S)
<1> DEFINE a == IF opts.compact THEN <<>>
                ELSE <<Comment, Gap>> \o SettingLines \o <<Gap, Comment>>
           b == IF opts.suppressUse THEN <<>>
                ELSE <<Gap, OneLine(Stmt("create", schema.db)), Gap, OneLine(Stmt("use", schema.db))>>
<1>1. a \in Seq(S)
  <2>1. CASE opts.compact
    BY <2>1
  <2>2. CASE ~opts.compact
    <3>1. <<Comment, Gap>> \in Seq(S) /\ <<Gap, Comment>> \in Seq(S)
      BY <2>2 DEF Usual
    <3>2. QED
      BY <2>2, <3>1, UsualTyped
  <2>3. QED
    BY <2>1, <2>2
<1>2. b \in Seq(S)
  BY DEF Usual
<1>3. QED
  <2> HIDE DEF a, b
  <2>1. a \o b \in Seq(S)
    BY <1>1, <1>2
  <2>2. QED
    BY <2>1 DEF Header, a, b

LEMMA RowsTyped ==
  ASSUME NEW S, NEW table, NEW opts, table.inserts \in Nat,
         OneLine(Insert(table)) \in S, OneLine(Stmt("several", table.name)) \in S
  PROVE  Rows(table, opts) \in Seq(S)
<1>1. CASE ~opts.compact
  BY <1>1 DEF Rows
<1>2. CASE opts.compact
  <2>1. CASE table.inserts = 0
    BY <1>2, <2>1 DEF Rows
  <2>2. CASE table.inserts = 1
    BY <1>2, <2>2 DEF Rows
  <2>3. CASE table.inserts > 1
    BY <1>2, <2>3 DEF Rows
  <2>4. QED
    BY <2>1, <2>2, <2>3
<1>3. QED
  BY <1>1, <1>2

LEMMA TableTyped ==
  ASSUME NEW S, NEW table, NEW opts, Usual(S, opts), table.inserts \in Nat,
         \A op \in {"drop", "lock", "unlock", "insert", "several"} :
           OneLine(Stmt(op, table.name)) \in S,
         TwoLines(Stmt("table", table.name)) \in S
  PROVE  /\ Table(table, opts) \in Seq(S)
         /\ In(TwoLines(Stmt("table", table.name)), Table(table, opts))
<1> DEFINE rows == Rows(table, opts)
           made == <<TwoLines(Stmt("table", table.name)), OneLine(Setting)>>
           dropped == <<OneLine(Stmt("drop", table.name))>>
           locked == <<OneLine(Stmt("lock", table.name))>>
           unlocked == <<OneLine(Stmt("unlock", table.name))>>
           C == <<Gap>> \o SettingLines
           F == Banner \o dropped \o SettingLines
           L == Banner \o locked
<1>1. rows \in Seq(S)
  <2>1. OneLine(Insert(table)) \in S /\ OneLine(Stmt("several", table.name)) \in S
    BY DEF Insert
  <2>2. QED
    BY <2>1, RowsTyped
<1>2. made \in Seq(S) /\ dropped \in Seq(S) /\ locked \in Seq(S) /\ unlocked \in Seq(S)
  BY DEF Usual
<1>3. In(TwoLines(Stmt("table", table.name)), made)
  BY DEF In
<1>4. CASE opts.compact
  <2>1. C \in Seq(S)
    BY UsualTyped DEF Usual
  <2>2. Table(table, opts) = C \o made \o rows
    BY <1>4 DEF Table
  <2> HIDE DEF C, made, rows
  <2>3. C \o made \in Seq(S) /\ (C \o made) \o rows \in Seq(S)
    BY <1>1, <1>2, <2>1
  <2>4. In(TwoLines(Stmt("table", table.name)), (C \o made) \o rows)
    BY <1>1, <1>2, <1>3, <2>1, <2>3, InConcat
  <2>5. QED
    BY <2>2, <2>3, <2>4
<1>5. CASE ~opts.compact
  <2>1. F \in Seq(S) /\ L \in Seq(S)
    <3> HIDE DEF dropped, locked
    <3>1. QED
      BY <1>2, <1>5, UsualTyped
  <2>2. Table(table, opts) = F \o made \o Banner \o locked \o rows \o unlocked
    BY <1>5 DEF Table
  <2>3. Banner \in Seq(S)
    BY <1>5, UsualTyped
  <2> HIDE DEF F, L, made, rows, locked, unlocked
  <2>4. /\ F \o made \in Seq(S) /\ (F \o made) \o Banner \in Seq(S)
        /\ ((F \o made) \o Banner) \o locked \in Seq(S)
        /\ (((F \o made) \o Banner) \o locked) \o rows \in Seq(S)
        /\ ((((F \o made) \o Banner) \o locked) \o rows) \o unlocked \in Seq(S)
    BY <1>1, <1>2, <2>1, <2>3
  <2>5. In(TwoLines(Stmt("table", table.name)), F \o made)
    BY <1>2, <1>3, <2>1, InConcat
  <2>6. In(TwoLines(Stmt("table", table.name)), ((F \o made) \o Banner) \o locked)
    BY <1>2, <2>3, <2>4, <2>5, InConcat
  <2>7. In(TwoLines(Stmt("table", table.name)), ((((F \o made) \o Banner) \o locked) \o rows) \o unlocked)
    BY <1>1, <1>2, <2>4, <2>6, InConcat
  <2>8. QED
    BY <2>2, <2>4, <2>7
<1>6. QED
  BY <1>4, <1>5

LEMMA TriggerTyped ==
  ASSUME NEW S, NEW trigger, NEW opts, Usual(S, opts),
         Delimited([Stmt("trigger", trigger.name) EXCEPT !.timing = "AFTER"]) \in S
  PROVE  /\ Trigger(trigger) \in Seq(S)
         /\ In(Delimited([Stmt("trigger", trigger.name) EXCEPT !.timing = "AFTER"]), Trigger(trigger))
<1> DEFINE x == Delimited([Stmt("trigger", trigger.name) EXCEPT !.timing = "AFTER"])
           a == <<Gap>> \o SettingLines
<1>1. a \in Seq(S) /\ SettingLines \in Seq(S)
  BY UsualTyped DEF Usual
<1>2. x \in S
  OBVIOUS
<1>3. Trigger(trigger) = a \o <<x>> \o SettingLines
  BY DEF Trigger
<1> HIDE DEF a, x
<1>4. <<x>> \in Seq(S) /\ In(x, <<x>>)
  BY <1>2 DEF In
<1>5. a \o <<x>> \in Seq(S) /\ (a \o <<x>>) \o SettingLines \in Seq(S)
  BY <1>1, <1>4
<1>6. In(x, (a \o <<x>>) \o SettingLines)
  BY <1>1, <1>4, <1>5, InConcat
<1>7. QED
  BY <1>3, <1>5, <1>6 DEF x

LEMMA StandInTyped ==
  ASSUME NEW S, NEW view, NEW opts, Usual(S, opts),
         OneLine(Stmt("drop", view)) \in S, TwoLines(Stmt("standin", view)) \in S
  PROVE  /\ StandIn(view, opts) \in Seq(S)
         /\ In(TwoLines(Stmt("standin", view)), StandIn(view, opts))
<1> DEFINE x == TwoLines(Stmt("standin", view))
           made == <<x, OneLine(Setting)>>
           dropped == <<OneLine(Stmt("drop", view))>>
           a == IF opts.compact THEN <<Gap>> ELSE Banner \o dropped
<1>1. made \in Seq(S) /\ dropped \in Seq(S) /\ In(x, made) /\ <<Gap>> \in Seq(S)
  BY DEF Usual, In
<1>2. a \in Seq(S) /\ SettingLines \in Seq(S)
  <2> HIDE DEF dropped
  <2>1. QED
    BY <1>1, UsualTyped
<1>3. StandIn(view, opts) = a \o SettingLines \o made
  BY DEF StandIn
<1> HIDE DEF a, made, x
<1>4. a \o SettingLines \in Seq(S) /\ (a \o SettingLines) \o made \in Seq(S)
  BY <1>1, <1>2
<1>5. In(x, (a \o SettingLines) \o made)
  BY <1>1, <1>4, InConcat
<1>6. QED
  BY <1>3, <1>4, <1>5 DEF x

LEMMA RoutineTyped ==
  ASSUME NEW S, NEW routine, NEW opts, Usual(S, opts),
         OneLine(Stmt("drop", routine)) \in S, Delimited(Stmt("routine", routine)) \in S
  PROVE  /\ Routine(routine, opts) \in Seq(S)
         /\ In(Delimited(Stmt("routine", routine)), Routine(routine, opts))
<1> DEFINE x == Delimited(Stmt("routine", routine))
           a == IF opts.compact THEN <<>> ELSE <<Gap, OneLine(Stmt("drop", routine))>>
<1>1. a \in Seq(S) /\ <<x>> \in Seq(S) /\ In(x, <<x>>) /\ <<Gap>> \in Seq(S)
  BY DEF Usual, In
<1>2. SettingLines \in Seq(S)
  BY UsualTyped
<1>3. Routine(routine, opts) = a \o <<Gap>> \o SettingLines \o <<x>> \o SettingLines
  BY DEF Routine
<1> HIDE DEF a, x
<1>4. /\ a \o <<Gap>> \in Seq(S) /\ (a \o <<Gap>>) \o SettingLines \in Seq(S)
      /\ ((a \o <<Gap>>) \o SettingLines) \o <<x>> \in Seq(S)
      /\ (((a \o <<Gap>>) \o SettingLines) \o <<x>>) \o SettingLines \in Seq(S)
  BY <1>1, <1>2
<1>5. In(x, ((a \o <<Gap>>) \o SettingLines) \o <<x>>)
  BY <1>1, <1>4, InConcat
<1>6. In(x, (((a \o <<Gap>>) \o SettingLines) \o <<x>>) \o SettingLines)
  BY <1>2, <1>4, <1>5, InConcat
<1>7. QED
  BY <1>3, <1>4, <1>6 DEF x

LEMMA ViewTyped ==
  ASSUME NEW S, NEW view, NEW schema, NEW opts, Usual(S, opts),
         OneLine(Stmt("use", schema.db)) \in S, OneLine(Stmt("drop", view)) \in S,
         TwoLines(Stmt("view", view)) \in S
  PROVE  /\ View(view, schema, opts) \in Seq(S)
         /\ In(TwoLines(Stmt("view", view)), View(view, schema, opts))
<1> DEFINE x == TwoLines(Stmt("view", view))
           a == IF opts.compact THEN <<Gap>> ELSE Banner
           u == <<OneLine(Stmt("use", schema.db))>>
           b == IF opts.compact THEN <<>> ELSE Banner
           d == <<OneLine(Stmt("drop", view))>>
<1>1. /\ u \in Seq(S) /\ d \in Seq(S) /\ <<x>> \in Seq(S) /\ In(x, <<x>>)
  BY DEF In
<1>2. a \in Seq(S) /\ b \in Seq(S) /\ SettingLines \in Seq(S)
  BY UsualTyped DEF Usual
<1>3. View(view, schema, opts) = a \o u \o b \o d \o SettingLines \o <<x>> \o SettingLines
  BY DEF View
<1> HIDE DEF a, u, b, d, x
<1>4. /\ a \o u \in Seq(S) /\ (a \o u) \o b \in Seq(S) /\ ((a \o u) \o b) \o d \in Seq(S)
      /\ (((a \o u) \o b) \o d) \o SettingLines \in Seq(S)
  BY <1>1, <1>2
<1>5. /\ ((((a \o u) \o b) \o d) \o SettingLines) \o <<x>> \in Seq(S)
      /\ (((((a \o u) \o b) \o d) \o SettingLines) \o <<x>>) \o SettingLines \in Seq(S)
  BY <1>1, <1>2, <1>4
<1>6. In(x, ((((a \o u) \o b) \o d) \o SettingLines) \o <<x>>)
  BY <1>1, <1>4, InConcat
<1>7. In(x, (((((a \o u) \o b) \o d) \o SettingLines) \o <<x>>) \o SettingLines)
  BY <1>2, <1>5, <1>6, InConcat
<1>8. QED
  BY <1>3, <1>5, <1>7 DEF x

LEMMA FooterTyped ==
  ASSUME NEW S, NEW opts, Usual(S, opts)
  PROVE  Footer(opts) \in Seq(S) /\ RoutinesHeader(opts) \in Seq(S)
<1>1. CASE opts.compact
  BY <1>1 DEF Footer, RoutinesHeader
<1>2. CASE ~opts.compact
  <2>1. <<Gap>> \in Seq(S) /\ <<Gap, Comment>> \in Seq(S) /\ SettingLines \in Seq(S)
    BY <1>2, UsualTyped DEF Usual
  <2>2. Footer(opts) = SettingLines \o <<Gap>> \o SettingLines \o <<Gap, Comment>>
    BY <1>2 DEF Footer
  <2>3. SettingLines \o <<Gap>> \in Seq(S) /\ (SettingLines \o <<Gap>>) \o SettingLines \in Seq(S)
    BY <2>1
  <2>4. QED
    BY <1>2, <2>1, <2>2, <2>3 DEF RoutinesHeader
<1>3. QED
  BY <1>1, <1>2

---------------------------------------------------------------------------
(* The pieces of a dump. *)

TableNames(schema) == {schema.tables[i].name : i \in 1..Len(schema.tables)}
TriggerNames(schema) ==
  UNION {{schema.tables[i].triggers[j].name : j \in 1..Len(schema.tables[i].triggers)} :
           i \in 1..Len(schema.tables)}
ViewNames(schema) == {schema.views[i] : i \in 1..Len(schema.views)}
RoutineNames(schema) == {schema.routines[i] : i \in 1..Len(schema.routines)}

\* Its statements on one line, on two lines, and between delimiters.
Singles(schema) ==
  {Setting, Stmt("create", schema.db), Stmt("use", schema.db)}
    \cup {Stmt(op, name) : op \in {"drop", "lock", "unlock", "insert", "several"},
                           name \in TableNames(schema) \cup ViewNames(schema) \cup RoutineNames(schema)}
Doubles(schema) ==
  {Stmt("table", name) : name \in TableNames(schema)}
    \cup {Stmt(op, name) : op \in {"standin", "view"}, name \in ViewNames(schema)}
Created(trigger) == [Stmt("trigger", trigger) EXCEPT !.timing = "AFTER"]
Wrapped(schema, opts) ==
  {Created(name) : name \in IF opts.triggers THEN TriggerNames(schema) ELSE {}}
    \cup {Stmt("routine", name) : name \in IF opts.routines THEN RoutineNames(schema) ELSE {}}

PieceSet(schema, opts) ==
  {Gap} \cup (IF opts.compact THEN {} ELSE {Comment})
    \cup {OneLine(s) : s \in Singles(schema)}
    \cup {TwoLines(s) : s \in Doubles(schema)}
    \cup {Delimited(s) : s \in Wrapped(schema, opts)}

\* A dump whose lists are sequences.
Proper(schema) ==
  /\ IsSeq(schema.tables) /\ IsSeq(schema.views) /\ IsSeq(schema.routines)
  /\ \A i \in 1..Len(schema.tables) :
       schema.tables[i].inserts \in Nat /\ IsSeq(schema.tables[i].triggers)

\* The parts of a dump.
TablesPart(schema, opts) == ForEach(schema.tables, LAMBDA t : Table(t, opts) \o Triggers(t, opts))
StandInsPart(schema, opts) == ForEach(schema.views, LAMBDA v : StandIn(v, opts))
RoutinesPart(schema, opts) ==
  IF opts.routines
    THEN RoutinesHeader(opts) \o ForEach(schema.routines, LAMBDA r : Routine(r, opts)) ELSE <<>>
ViewsPart(schema, opts) == ForEach(schema.views, LAMBDA v : View(v, schema, opts))

LEMMA PiecesParts ==
  ASSUME NEW schema, NEW opts
  PROVE  Pieces(schema, opts) =
           Header(schema, opts) \o TablesPart(schema, opts) \o StandInsPart(schema, opts)
             \o RoutinesPart(schema, opts) \o ViewsPart(schema, opts) \o Footer(opts)
BY DEF Pieces, TablesPart, StandInsPart, RoutinesPart, ViewsPart

\* What a part gives for the i-th member is in it.
LEMMA PartTyped ==
  ASSUME NEW S, NEW n \in Nat, NEW F, F = [i \in 1..n |-> F[i]],
         \A i \in 1..n : F[i] \in Seq(S)
  PROVE  /\ FlattenSeq(F) \in Seq(S)
         /\ \A i \in 1..n : \A x : In(x, F[i]) => In(x, FlattenSeq(F))
<1>1. F \in Seq(Seq(S)) /\ Len(F) = n
  <2> DEFINE Q == Seq(S)
  <2>1. \A i \in 1..n : F[i] \in Q
    OBVIOUS
  <2> HIDE DEF Q
  <2>2. [i \in 1..n |-> F[i]] \in Seq(Q) /\ Len([i \in 1..n |-> F[i]]) = n
    BY <2>1
  <2>3. QED
    BY <2>2 DEF Q
<1>2. QED
  BY <1>1, FlattenType, FlattenHas

LEMMA TriggersTyped ==
  ASSUME NEW S, NEW table, NEW opts, Usual(S, opts), IsSeq(table.triggers),
         opts.triggers =>
           \A j \in 1..Len(table.triggers) : Delimited(Created(table.triggers[j].name)) \in S
  PROVE  /\ Triggers(table, opts) \in Seq(S)
         /\ opts.triggers =>
              \A j \in 1..Len(table.triggers) :
                In(Delimited(Created(table.triggers[j].name)), Triggers(table, opts))
<1>1. CASE ~opts.triggers
  BY <1>1 DEF Triggers
<1>2. CASE opts.triggers
  <2> DEFINE n == Len(table.triggers)
             F == [j \in 1..n |-> Trigger(table.triggers[j])]
  <2>1. n \in Nat
    BY DEF IsSeq
  <2>2. ASSUME NEW j \in 1..n
        PROVE  /\ F[j] \in Seq(S)
               /\ In(Delimited(Created(table.triggers[j].name)), F[j])
    <3>1. Delimited(Created(table.triggers[j].name)) \in S
      BY <1>2
    <3>2. QED
      BY <3>1, TriggerTyped DEF Created
  <2>3. Triggers(table, opts) = FlattenSeq(F)
    BY <1>2 DEF Triggers, ForEach
  <2>4. F = [j \in 1..n |-> F[j]]
    OBVIOUS
  <2> HIDE DEF F, n
  <2>5. QED
    BY <2>1, <2>2, <2>3, <2>4, PartTyped DEF n
<1>3. QED
  BY <1>1, <1>2

\* S has what the tables are made of; the stand-ins, the routines, the views.
TablesIn(S, schema, opts) ==
  /\ \A name \in TableNames(schema) :
       /\ \A op \in {"drop", "lock", "unlock", "insert", "several"} : OneLine(Stmt(op, name)) \in S
       /\ TwoLines(Stmt("table", name)) \in S
  /\ opts.triggers => \A name \in TriggerNames(schema) : Delimited(Created(name)) \in S
StandInsIn(S, schema) ==
  \A name \in ViewNames(schema) :
    OneLine(Stmt("drop", name)) \in S /\ TwoLines(Stmt("standin", name)) \in S
RoutinesIn(S, schema, opts) ==
  opts.routines =>
    \A name \in RoutineNames(schema) :
      OneLine(Stmt("drop", name)) \in S /\ Delimited(Stmt("routine", name)) \in S
ViewsIn(S, schema) ==
  \A name \in ViewNames(schema) :
    /\ OneLine(Stmt("use", schema.db)) \in S
    /\ OneLine(Stmt("drop", name)) \in S /\ TwoLines(Stmt("view", name)) \in S

LEMMA TablesPartTyped ==
  ASSUME NEW S, NEW schema, NEW opts, Proper(schema), Usual(S, opts), TablesIn(S, schema, opts)
  PROVE  /\ TablesPart(schema, opts) \in Seq(S)
         /\ \A i \in 1..Len(schema.tables) :
              /\ In(TwoLines(Stmt("table", schema.tables[i].name)), TablesPart(schema, opts))
              /\ opts.triggers =>
                   \A j \in 1..Len(schema.tables[i].triggers) :
                     In(Delimited(Created(schema.tables[i].triggers[j].name)),
                        TablesPart(schema, opts))
<1> DEFINE n == Len(schema.tables)
           F == [i \in 1..n |-> Table(schema.tables[i], opts) \o Triggers(schema.tables[i], opts)]
<1>1. n \in Nat
  BY DEF Proper, IsSeq
<1>2. ASSUME NEW i \in 1..n
      PROVE  /\ F[i] \in Seq(S)
             /\ In(TwoLines(Stmt("table", schema.tables[i].name)), F[i])
             /\ opts.triggers =>
                  \A j \in 1..Len(schema.tables[i].triggers) :
                    In(Delimited(Created(schema.tables[i].triggers[j].name)), F[i])
  <2> DEFINE t == schema.tables[i]
             a == Table(t, opts)
             b == Triggers(t, opts)
  <2>1. /\ t.name \in TableNames(schema) /\ t.inserts \in Nat /\ IsSeq(t.triggers)
        /\ \A j \in 1..Len(t.triggers) : t.triggers[j].name \in TriggerNames(schema)
    <3>1. t.name \in TableNames(schema)
      BY DEF TableNames
    <3>2. t.inserts \in Nat /\ IsSeq(t.triggers)
      BY DEF Proper
    <3>3. ASSUME NEW j \in 1..Len(t.triggers)
          PROVE  t.triggers[j].name \in TriggerNames(schema)
      BY DEF TriggerNames
    <3>4. QED
      BY <3>1, <3>2, <3>3
  <2>2. a \in Seq(S) /\ In(TwoLines(Stmt("table", t.name)), a)
    <3> HIDE DEF t
    <3>1. /\ \A op \in {"drop", "lock", "unlock", "insert", "several"} :
               OneLine(Stmt(op, t.name)) \in S
          /\ TwoLines(Stmt("table", t.name)) \in S
      BY <2>1 DEF TablesIn
    <3>2. QED
      BY <2>1, <3>1, TableTyped
  <2>3. /\ b \in Seq(S)
        /\ opts.triggers =>
             \A j \in 1..Len(t.triggers) : In(Delimited(Created(t.triggers[j].name)), b)
    <3>1. opts.triggers => \A j \in 1..Len(t.triggers) : Delimited(Created(t.triggers[j].name)) \in S
      BY <2>1 DEF TablesIn
    <3> HIDE DEF t
    <3>2. QED
      BY <2>1, <3>1, TriggersTyped
  <2>4. F[i] = a \o b
    OBVIOUS
  <2> HIDE DEF a, b, t, F
  <2>5. F[i] \in Seq(S) /\ \A x : In(x, a) \/ In(x, b) => In(x, F[i])
    BY <2>2, <2>3, <2>4, InConcat
  <2>6. QED
    BY <2>2, <2>3, <2>5 DEF t
<1>3. TablesPart(schema, opts) = FlattenSeq(F)
  BY DEF TablesPart, ForEach
<1>4. F = [i \in 1..n |-> F[i]]
  OBVIOUS
<1> HIDE DEF F, n
<1>5. /\ FlattenSeq(F) \in Seq(S)
      /\ \A i \in 1..n : \A x : In(x, F[i]) => In(x, FlattenSeq(F))
  BY <1>1, <1>2, <1>4, PartTyped
<1>6. QED
  BY <1>2, <1>3, <1>5 DEF n

LEMMA StandInsPartTyped ==
  ASSUME NEW S, NEW schema, NEW opts, Proper(schema), Usual(S, opts), StandInsIn(S, schema)
  PROVE  /\ StandInsPart(schema, opts) \in Seq(S)
         /\ \A i \in 1..Len(schema.views) :
              In(TwoLines(Stmt("standin", schema.views[i])), StandInsPart(schema, opts))
<1> DEFINE n == Len(schema.views)
           F == [i \in 1..n |-> StandIn(schema.views[i], opts)]
<1>1. n \in Nat
  BY DEF Proper, IsSeq
<1>2. ASSUME NEW i \in 1..n
      PROVE  F[i] \in Seq(S) /\ In(TwoLines(Stmt("standin", schema.views[i])), F[i])
  <2>1. OneLine(Stmt("drop", schema.views[i])) \in S /\ TwoLines(Stmt("standin", schema.views[i])) \in S
    BY DEF StandInsIn, ViewNames
  <2>2. QED
    BY <2>1, StandInTyped
<1>3. StandInsPart(schema, opts) = FlattenSeq(F)
  BY DEF StandInsPart, ForEach
<1>4. F = [i \in 1..n |-> F[i]]
  OBVIOUS
<1> HIDE DEF F, n
<1>5. /\ FlattenSeq(F) \in Seq(S)
      /\ \A i \in 1..n : \A x : In(x, F[i]) => In(x, FlattenSeq(F))
  BY <1>1, <1>2, <1>4, PartTyped
<1>6. QED
  BY <1>2, <1>3, <1>5 DEF n

LEMMA RoutinesPartTyped ==
  ASSUME NEW S, NEW schema, NEW opts, Proper(schema), Usual(S, opts), RoutinesIn(S, schema, opts)
  PROVE  /\ RoutinesPart(schema, opts) \in Seq(S)
         /\ opts.routines =>
              \A i \in 1..Len(schema.routines) :
                In(Delimited(Stmt("routine", schema.routines[i])), RoutinesPart(schema, opts))
<1>1. CASE ~opts.routines
  BY <1>1 DEF RoutinesPart
<1>2. CASE opts.routines
  <2> DEFINE n == Len(schema.routines)
             F == [i \in 1..n |-> Routine(schema.routines[i], opts)]
             h == RoutinesHeader(opts)
  <2>1. n \in Nat
    BY DEF Proper, IsSeq
  <2>2. ASSUME NEW i \in 1..n
        PROVE  F[i] \in Seq(S) /\ In(Delimited(Stmt("routine", schema.routines[i])), F[i])
    <3>1. /\ OneLine(Stmt("drop", schema.routines[i])) \in S
          /\ Delimited(Stmt("routine", schema.routines[i])) \in S
      BY <1>2 DEF RoutinesIn, RoutineNames
    <3>2. QED
      BY <3>1, RoutineTyped
  <2>3. RoutinesPart(schema, opts) = h \o FlattenSeq(F)
    BY <1>2 DEF RoutinesPart, ForEach
  <2>4. F = [i \in 1..n |-> F[i]]
    OBVIOUS
  <2>5. h \in Seq(S)
    BY FooterTyped
  <2> HIDE DEF F, n, h
  <2>6. /\ FlattenSeq(F) \in Seq(S)
        /\ \A i \in 1..n : \A x : In(x, F[i]) => In(x, FlattenSeq(F))
    BY <2>1, <2>2, <2>4, PartTyped
  <2>7. /\ h \o FlattenSeq(F) \in Seq(S)
        /\ \A x : In(x, FlattenSeq(F)) => In(x, h \o FlattenSeq(F))
    BY <2>5, <2>6, InConcat
  <2>8. QED
    BY <2>2, <2>3, <2>6, <2>7 DEF n
<1>3. QED
  BY <1>1, <1>2

LEMMA ViewsPartTyped ==
  ASSUME NEW S, NEW schema, NEW opts, Proper(schema), Usual(S, opts), ViewsIn(S, schema)
  PROVE  /\ ViewsPart(schema, opts) \in Seq(S)
         /\ \A i \in 1..Len(schema.views) :
              In(TwoLines(Stmt("view", schema.views[i])), ViewsPart(schema, opts))
<1> DEFINE n == Len(schema.views)
           F == [i \in 1..n |-> View(schema.views[i], schema, opts)]
<1>1. n \in Nat
  BY DEF Proper, IsSeq
<1>2. ASSUME NEW i \in 1..n
      PROVE  F[i] \in Seq(S) /\ In(TwoLines(Stmt("view", schema.views[i])), F[i])
  <2>1. /\ OneLine(Stmt("use", schema.db)) \in S /\ OneLine(Stmt("drop", schema.views[i])) \in S
        /\ TwoLines(Stmt("view", schema.views[i])) \in S
    BY DEF ViewsIn, ViewNames
  <2>2. QED
    BY <2>1, ViewTyped
<1>3. ViewsPart(schema, opts) = FlattenSeq(F)
  BY DEF ViewsPart, ForEach
<1>4. F = [i \in 1..n |-> F[i]]
  OBVIOUS
<1> HIDE DEF F, n
<1>5. /\ FlattenSeq(F) \in Seq(S)
      /\ \A i \in 1..n : \A x : In(x, F[i]) => In(x, FlattenSeq(F))
  BY <1>1, <1>2, <1>4, PartTyped
<1>6. QED
  BY <1>2, <1>3, <1>5 DEF n

\* The pieces but for the USEs.
NoUse(schema, opts) == {p \in PieceSet(schema, opts) : p.stmt.op # "use"}

LEMMA NoUseHas ==
  ASSUME NEW schema, NEW opts
  PROVE  /\ Usual(NoUse(schema, opts), opts)
         /\ OneLine(Stmt("create", schema.db)) \in NoUse(schema, opts)
         /\ TablesIn(NoUse(schema, opts), schema, opts)
         /\ StandInsIn(NoUse(schema, opts), schema)
         /\ RoutinesIn(NoUse(schema, opts), schema, opts)
         /\ \A name \in ViewNames(schema) :
              /\ OneLine(Stmt("drop", name)) \in NoUse(schema, opts)
              /\ TwoLines(Stmt("view", name)) \in NoUse(schema, opts)
<1> DEFINE S == NoUse(schema, opts)
<1>1. ASSUME NEW s \in Singles(schema), s.op # "use"
      PROVE  OneLine(s) \in S
  BY <1>1 DEF NoUse, PieceSet, OneLine
<1>2. ASSUME NEW s \in Doubles(schema), s.op # "use"
      PROVE  TwoLines(s) \in S
  BY <1>2 DEF NoUse, PieceSet, TwoLines
<1>3. ASSUME NEW s \in Wrapped(schema, opts), s.op # "use"
      PROVE  Delimited(s) \in S
  BY <1>3 DEF NoUse, PieceSet, Delimited
<1>4. Gap \in S /\ (~opts.compact => Comment \in S)
  BY DEF NoUse, PieceSet, Gap, Comment, NoStmt, Stmt
<1> HIDE DEF S
<1>5. Setting \in Singles(schema) /\ Setting.op # "use"
  BY DEF Singles, Setting, Stmt
<1>6. Usual(S, opts)
  BY <1>1, <1>4, <1>5 DEF Usual
<1>7. OneLine(Stmt("create", schema.db)) \in S
  <2>1. Stmt("create", schema.db) \in Singles(schema) /\ Stmt("create", schema.db).op # "use"
    BY DEF Singles, Stmt
  <2>2. QED
    BY <1>1, <2>1
<1>8. ASSUME NEW name \in TableNames(schema) \cup ViewNames(schema) \cup RoutineNames(schema),
             NEW op \in {"drop", "lock", "unlock", "insert", "several"}
      PROVE  OneLine(Stmt(op, name)) \in S
  <2>1. Stmt(op, name) \in Singles(schema)
    BY DEF Singles
  <2>2. Stmt(op, name).op # "use"
    BY DEF Stmt
  <2>3. QED
    BY <1>1, <2>1, <2>2
<1>9. \A name \in TableNames(schema) : TwoLines(Stmt("table", name)) \in S
  <2> TAKE name \in TableNames(schema)
  <2>1. Stmt("table", name) \in Doubles(schema)
    BY DEF Doubles
  <2>2. Stmt("table", name).op # "use"
    BY DEF Stmt
  <2>3. QED
    BY <1>2, <2>1, <2>2
<1>10. ASSUME NEW name \in ViewNames(schema), NEW op \in {"standin", "view"}
       PROVE  TwoLines(Stmt(op, name)) \in S
  <2>1. Stmt(op, name) \in Doubles(schema)
    BY DEF Doubles
  <2>2. Stmt(op, name).op # "use"
    BY DEF Stmt
  <2>3. QED
    BY <1>2, <2>1, <2>2
<1>11. ASSUME opts.triggers, NEW name \in TriggerNames(schema)
       PROVE  Delimited(Created(name)) \in S
  <2>1. Created(name) \in Wrapped(schema, opts)
    BY <1>11 DEF Wrapped
  <2>2. Created(name).op # "use"
    BY DEF Created, Stmt
  <2>3. QED
    BY <1>3, <2>1, <2>2
<1>12. ASSUME opts.routines, NEW name \in RoutineNames(schema)
       PROVE  Delimited(Stmt("routine", name)) \in S
  <2>1. Stmt("routine", name) \in Wrapped(schema, opts)
    BY <1>12 DEF Wrapped
  <2>2. Stmt("routine", name).op # "use"
    BY DEF Stmt
  <2>3. QED
    BY <1>3, <2>1, <2>2
<1>13. TablesIn(S, schema, opts)
  BY <1>8, <1>9, <1>11 DEF TablesIn
<1>14. StandInsIn(S, schema)
  BY <1>8, <1>10 DEF StandInsIn
<1>15. RoutinesIn(S, schema, opts)
  BY <1>8, <1>12 DEF RoutinesIn
<1>16. \A name \in ViewNames(schema) :
         OneLine(Stmt("drop", name)) \in S /\ TwoLines(Stmt("view", name)) \in S
  BY <1>8, <1>10
<1>17. QED
  BY <1>6, <1>7, <1>13, <1>14, <1>15, <1>16 DEF S

\* The parts, the ones that have no USE in them at the front.
LEMMA PartsTyped ==
  ASSUME NEW schema, NEW opts, Proper(schema)
  PROVE  /\ TablesPart(schema, opts) \in Seq(NoUse(schema, opts))
         /\ StandInsPart(schema, opts) \in Seq(NoUse(schema, opts))
         /\ RoutinesPart(schema, opts) \in Seq(NoUse(schema, opts))
         /\ Footer(opts) \in Seq(NoUse(schema, opts))
         /\ schema.views = <<>> => ViewsPart(schema, opts) \in Seq(NoUse(schema, opts))
         /\ ViewsPart(schema, opts) \in Seq(PieceSet(schema, opts))
         /\ Header(schema, opts) \in Seq(PieceSet(schema, opts))
<1> DEFINE S == NoUse(schema, opts)
           T == PieceSet(schema, opts)
<1>1. S \subseteq T
  BY DEF NoUse
<1>2. OneLine(Stmt("use", schema.db)) \in T
  BY DEF PieceSet, Singles
<1>3. Usual(S, opts) /\ TablesIn(S, schema, opts) /\ StandInsIn(S, schema)
      /\ RoutinesIn(S, schema, opts)
  BY NoUseHas
<1>4. Usual(T, opts)
  BY <1>1, <1>3 DEF Usual
<1>5. ViewsIn(T, schema) /\ OneLine(Stmt("create", schema.db)) \in T
  BY <1>1, <1>2, NoUseHas DEF ViewsIn
<1>6. schema.views = <<>> => ViewsIn(S, schema)
  BY DEF ViewsIn, ViewNames
<1> HIDE DEF S, T
<1>7. schema.views = <<>> => ViewsPart(schema, opts) \in Seq(S)
  BY <1>3, <1>6, ViewsPartTyped
<1>8. ViewsPart(schema, opts) \in Seq(T) /\ Header(schema, opts) \in Seq(T)
  BY <1>2, <1>4, <1>5, ViewsPartTyped, HeaderTyped
<1>9. /\ TablesPart(schema, opts) \in Seq(S) /\ StandInsPart(schema, opts) \in Seq(S)
      /\ RoutinesPart(schema, opts) \in Seq(S) /\ Footer(opts) \in Seq(S)
  BY <1>3, TablesPartTyped, StandInsPartTyped, RoutinesPartTyped, FooterTyped
<1>10. QED
  BY <1>7, <1>8, <1>9 DEF S, T

LEMMA PiecesTyped ==
  ASSUME NEW schema, NEW opts, Proper(schema)
  PROVE  /\ Pieces(schema, opts) \in Seq(PieceSet(schema, opts))
         /\ \A x : \/ In(x, TablesPart(schema, opts)) \/ In(x, RoutinesPart(schema, opts))
                   \/ In(x, ViewsPart(schema, opts))
                   => In(x, Pieces(schema, opts))
<1> DEFINE T == PieceSet(schema, opts)
           h == Header(schema, opts)
           t == TablesPart(schema, opts)
           s == StandInsPart(schema, opts)
           r == RoutinesPart(schema, opts)
           v == ViewsPart(schema, opts)
           f == Footer(opts)
<1>1. NoUse(schema, opts) \subseteq T
  BY DEF NoUse
<1>2. /\ h \in Seq(T) /\ v \in Seq(T)
      /\ t \in Seq(T) /\ s \in Seq(T) /\ r \in Seq(T) /\ f \in Seq(T)
  <2> HIDE DEF h, t, s, r, v, f, T
  <2>1. \A q : q \in Seq(NoUse(schema, opts)) => q \in Seq(T)
    BY <1>1
  <2>2. QED
    BY <2>1, PartsTyped DEF h, t, s, r, v, f, T
<1>3. Pieces(schema, opts) = ((((h \o t) \o s) \o r) \o v) \o f
  BY PiecesParts
<1> HIDE DEF h, t, s, r, v, f, T
<1>4. h \o t \in Seq(T) /\ (h \o t) \o s \in Seq(T) /\ ((h \o t) \o s) \o r \in Seq(T)
  BY <1>2
<1>5. (((h \o t) \o s) \o r) \o v \in Seq(T) /\ ((((h \o t) \o s) \o r) \o v) \o f \in Seq(T)
  BY <1>2, <1>4
<1>6. ASSUME NEW x, In(x, t) \/ In(x, r) \/ In(x, v)
      PROVE  In(x, ((((h \o t) \o s) \o r) \o v) \o f)
  <2>1. In(x, t) => In(x, h \o t)
    BY <1>2, InConcat
  <2>2. In(x, h \o t) => In(x, (h \o t) \o s)
    BY <1>2, <1>4, InConcat
  <2>3. In(x, (h \o t) \o s) \/ In(x, r) => In(x, ((h \o t) \o s) \o r)
    BY <1>2, <1>4, InConcat
  <2>4. In(x, ((h \o t) \o s) \o r) \/ In(x, v) => In(x, (((h \o t) \o s) \o r) \o v)
    BY <1>2, <1>4, InConcat
  <2>5. In(x, (((h \o t) \o s) \o r) \o v) => In(x, ((((h \o t) \o s) \o r) \o v) \o f)
    BY <1>2, <1>5, InConcat
  <2>6. QED
    BY <1>6, <2>1, <2>2, <2>3, <2>4, <2>5
<1>7. QED
  BY <1>3, <1>5, <1>6 DEF t, r, v, T

\* There is a piece that creates each object of a file.
LEMMA ObjectHasPiece ==
  ASSUME NEW b, Proper(b.schema), NEW x \in Objects(b)
  PROVE  \E i \in 1..Len(Pieces(b.schema, b.opts)) :
           /\ Pieces(b.schema, b.opts)[i].stmt.op = x.op
           /\ Pieces(b.schema, b.opts)[i].stmt.obj = x.obj
           /\ x.op \in {"table", "trigger", "routine", "view"}
<1> DEFINE s == b.schema
           o == b.opts
           S == NoUse(s, o)
           P == Pieces(s, o)
           creates(p) == /\ p.stmt.op = x.op /\ p.stmt.obj = x.obj
                         /\ x.op \in {"table", "trigger", "routine", "view"}
<1>1. /\ Usual(S, o) /\ TablesIn(S, s, o) /\ RoutinesIn(S, s, o)
  BY NoUseHas
<1>2. Usual(PieceSet(s, o), o) /\ ViewsIn(PieceSet(s, o), s)
  <2>1. S \subseteq PieceSet(s, o)
    BY DEF NoUse
  <2>2. OneLine(Stmt("use", s.db)) \in PieceSet(s, o)
    BY DEF PieceSet, Singles
  <2>3. Usual(PieceSet(s, o), o)
    BY <1>1, <2>1 DEF Usual
  <2>4. ViewsIn(PieceSet(s, o), s)
    BY <2>1, <2>2, NoUseHas DEF ViewsIn
  <2>5. QED
    BY <2>3, <2>4
<1>3. SUFFICES \E p : In(p, P) /\ creates(p)
  BY DEF In
<1> HIDE DEF s, o, S, P
<1>4. Proper(s)
  BY DEF s
<1>5. \A p : In(p, TablesPart(s, o)) \/ In(p, RoutinesPart(s, o)) \/ In(p, ViewsPart(s, o)) => In(p, P)
  BY <1>4, PiecesTyped DEF P
<1>6. CASE \E i \in 1..Len(s.tables) : x = [op |-> "table", obj |-> s.tables[i].name]
  <2>1. PICK i \in 1..Len(s.tables) : x = [op |-> "table", obj |-> s.tables[i].name]
    BY <1>6
  <2>2. In(TwoLines(Stmt("table", s.tables[i].name)), TablesPart(s, o))
    BY <1>1, <1>4, TablesPartTyped
  <2>3. creates(TwoLines(Stmt("table", s.tables[i].name)))
    BY <2>1 DEF TwoLines, Stmt
  <2>4. QED
    BY <1>5, <2>2, <2>3
<1>7. CASE /\ o.triggers
           /\ \E i \in 1..Len(s.tables) : \E j \in 1..Len(s.tables[i].triggers) :
                x = [op |-> "trigger", obj |-> s.tables[i].triggers[j].name]
  <2>0. PICK i \in 1..Len(s.tables) :
          \E j \in 1..Len(s.tables[i].triggers) :
            x = [op |-> "trigger", obj |-> s.tables[i].triggers[j].name]
    BY <1>7
  <2>1. PICK j \in 1..Len(s.tables[i].triggers) :
          x = [op |-> "trigger", obj |-> s.tables[i].triggers[j].name]
    BY <2>0
  <2>2. In(Delimited(Created(s.tables[i].triggers[j].name)), TablesPart(s, o))
    BY <1>1, <1>4, <1>7, TablesPartTyped
  <2>3. creates(Delimited(Created(s.tables[i].triggers[j].name)))
    BY <2>1 DEF Delimited, Created, Stmt
  <2>4. QED
    BY <1>5, <2>2, <2>3
<1>8. CASE /\ o.routines
           /\ \E i \in 1..Len(s.routines) : x = [op |-> "routine", obj |-> s.routines[i]]
  <2>1. PICK i \in 1..Len(s.routines) : x = [op |-> "routine", obj |-> s.routines[i]]
    BY <1>8
  <2>2. In(Delimited(Stmt("routine", s.routines[i])), RoutinesPart(s, o))
    BY <1>1, <1>4, <1>8, RoutinesPartTyped
  <2>3. creates(Delimited(Stmt("routine", s.routines[i])))
    BY <2>1 DEF Delimited, Stmt
  <2>4. QED
    BY <1>5, <2>2, <2>3
<1>9. CASE \E i \in 1..Len(s.views) : x = [op |-> "view", obj |-> s.views[i]]
  <2>1. PICK i \in 1..Len(s.views) : x = [op |-> "view", obj |-> s.views[i]]
    BY <1>9
  <2>2. In(TwoLines(Stmt("view", s.views[i])), ViewsPart(s, o))
    BY <1>2, <1>4, ViewsPartTyped
  <2>3. creates(TwoLines(Stmt("view", s.views[i])))
    BY <2>1 DEF TwoLines, Stmt
  <2>4. QED
    BY <1>5, <2>2, <2>3
<1>10. QED
  BY <1>6, <1>7, <1>8, <1>9, ZenonT(40) DEF Objects, s, o

---------------------------------------------------------------------------
(* Where the USEs of a dump are. *)

\* What creates an object.
Landing == {"table", "trigger", "routine", "view"}

\* Nothing is created before the first USE.
Opened(P) ==
  \E h \in 1..Len(P) : P[h].stmt.op = "use" /\ \A i \in 1..h : P[i].stmt.op \notin Landing

\* Each comment among the first k pieces is followed by a statement there: what is read next
\* is not preceded by a comment.
Fresh(P, k) ==
  \A j \in 1..k : P[j] = Comment => \E i \in (j + 1)..k : P[i].stmt # NoStmt

FreshUses(P) == \A k \in Nat : k + 1 \in 1..Len(P) /\ P[k + 1].stmt.op = "use" => Fresh(P, k)

\* Before a USE there is a statement that needs a schema.
LateUses(P) ==
  \A i \in 1..Len(P) : P[i].stmt.op = "use" => \E k \in 1..(i - 1) : P[k].stmt.op \in InSchema

NoUseIn(P) == \A i \in 1..Len(P) : P[i].stmt.op # "use"

LEMMA ConcatAt ==
  ASSUME NEW S, NEW a \in Seq(S), NEW b \in Seq(S)
  PROVE  /\ Len(a) \in Nat /\ Len(b) \in Nat /\ Len(a \o b) = Len(a) + Len(b)
         /\ \A i \in 1..Len(a) : (a \o b)[i] = a[i] /\ i \in 1..Len(a \o b)
         /\ \A i \in 1..Len(b) : (a \o b)[Len(a) + i] = b[i] /\ Len(a) + i \in 1..Len(a \o b)
         /\ \A i \in 1..Len(a \o b) :
              i \in 1..Len(a) \/ (i > Len(a) /\ i - Len(a) \in 1..Len(b) /\ (a \o b)[i] = b[i - Len(a)])
<1>1. /\ Len(a) \in Nat /\ Len(b) \in Nat /\ Len(a \o b) = Len(a) + Len(b)
      /\ \A i \in 1..(Len(a) + Len(b)) :
           (a \o b)[i] = IF i <= Len(a) THEN a[i] ELSE b[i - Len(a)]
  BY ConcatProperties
<1> DEFINE m == Len(a)
           n == Len(b)
           c == a \o b
<1> HIDE DEF m, n, c
<1>2. /\ m \in Nat /\ n \in Nat /\ Len(c) = m + n
      /\ \A i \in 1..(m + n) : c[i] = IF i <= m THEN a[i] ELSE b[i - m]
  BY <1>1 DEF m, n, c
<1>3. \A i \in 1..m : c[i] = a[i] /\ i \in 1..Len(c)
  BY ONLY <1>2
<1>4. ASSUME NEW i \in 1..n
      PROVE  c[m + i] = b[i] /\ m + i \in 1..Len(c)
  <2>1. m + i \in 1..(m + n) /\ ~(m + i <= m) /\ (m + i) - m = i
    BY ONLY <1>2, i \in 1..n
  <2>2. QED
    BY ONLY <1>2, <2>1
<1>5. \A i \in 1..Len(c) : i \in 1..m \/ (i > m /\ i - m \in 1..n /\ c[i] = b[i - m])
  BY ONLY <1>2
<1>6. QED
  BY <1>2, <1>3, <1>4, <1>5 DEF m, n, c

\* What of these is kept when more is written.
LEMMA OrderKept ==
  ASSUME NEW S, NEW a \in Seq(S), NEW b \in Seq(S)
  PROVE  /\ Opened(a) => Opened(a \o b)
         /\ NoUseIn(a) /\ NoUseIn(b) => NoUseIn(a \o b)
         /\ FreshUses(a) /\ NoUseIn(b) => FreshUses(a \o b)
         /\ NoUseIn(a) => LateUses(a)
         /\ LateUses(a) /\ NoUseIn(b) => LateUses(a \o b)
         /\ LateUses(a) /\ (\E x : In(x, a) /\ x.stmt.op \in InSchema) => LateUses(a \o b)
<1> DEFINE c == a \o b
           m == Len(a)
           n == Len(b)
<1>1. /\ m \in Nat /\ n \in Nat /\ Len(c) = m + n
      /\ \A i \in 1..m : c[i] = a[i] /\ i \in 1..Len(c)
      /\ \A i \in 1..Len(c) : i \in 1..m \/ (i > m /\ i - m \in 1..n /\ c[i] = b[i - m])
  BY ConcatAt
<1> HIDE DEF c, m, n
<1>2. ASSUME Opened(a) PROVE Opened(c)
  <2>1. PICK h \in 1..m : a[h].stmt.op = "use" /\ \A i \in 1..h : a[i].stmt.op \notin Landing
    BY <1>2 DEF Opened, m
  <2>2. h \in 1..Len(c) /\ c[h] = a[h] /\ \A i \in 1..h : i \in 1..m /\ c[i] = a[i]
    BY <1>1
  <2>3. QED
    BY <2>1, <2>2 DEF Opened
<1>3. NoUseIn(a) /\ NoUseIn(b) => NoUseIn(c)
  BY <1>1 DEF NoUseIn, m, n
<1>4. ASSUME FreshUses(a), NoUseIn(b) PROVE FreshUses(c)
  <2>1. SUFFICES ASSUME NEW k \in Nat, k + 1 \in 1..Len(c), c[k + 1].stmt.op = "use"
                 PROVE  Fresh(c, k)
    BY DEF FreshUses
  <2>2. k + 1 \in 1..m /\ c[k + 1] = a[k + 1]
    BY <1>1, <1>4, <2>1 DEF NoUseIn, n
  <2>3. Fresh(a, k)
    BY <1>4, <2>1, <2>2 DEF FreshUses, m
  <2>4. \A j \in 1..k : c[j] = a[j]
    BY <1>1, <2>2
  <2>5. \A j \in 1..k : \A i \in (j + 1)..k : i \in 1..k
    OBVIOUS
  <2>6. QED
    BY <2>3, <2>4, <2>5 DEF Fresh
<1>5. NoUseIn(a) => LateUses(a)
  BY DEF NoUseIn, LateUses
<1>6. ASSUME LateUses(a),
             NEW i \in 1..m, c[i].stmt.op = "use"
      PROVE  \E k \in 1..(i - 1) : c[k].stmt.op \in InSchema
  <2>1. PICK k \in 1..(i - 1) : a[k].stmt.op \in InSchema
    BY <1>1, <1>6 DEF LateUses, m
  <2>2. k \in 1..m
    BY <1>1, <2>1
  <2>3. QED
    BY <1>1, <2>1, <2>2
<1>7. ASSUME LateUses(a), NoUseIn(b) PROVE LateUses(c)
  <2>1. \A i \in 1..Len(c) : c[i].stmt.op = "use" => i \in 1..m
    BY <1>1, <1>7 DEF NoUseIn, n
  <2>2. QED
    BY <1>6, <1>7, <2>1 DEF LateUses
<1>8. ASSUME LateUses(a), NEW x, In(x, a), x.stmt.op \in InSchema PROVE LateUses(c)
  <2>1. PICK k \in 1..m : a[k] = x
    BY <1>8 DEF In, m
  <2>2. ASSUME NEW i \in 1..Len(c), ~(i \in 1..m)
        PROVE  k \in 1..(i - 1) /\ c[k].stmt.op \in InSchema
    BY <1>1, <1>8, <2>1, <2>2
  <2>3. \A i \in 1..Len(c) : c[i].stmt.op = "use" => \E q \in 1..(i - 1) : c[q].stmt.op \in InSchema
    BY <1>6, <1>8, <2>2
  <2>4. QED
    BY <2>3 DEF LateUses
<1>9. QED
  BY <1>2, <1>3, <1>4, <1>5, <1>7, <1>8 DEF c

LEMMA HeaderOrder ==
  ASSUME NEW schema, NEW opts
  PROVE  /\ ~opts.suppressUse => Opened(Header(schema, opts)) /\ FreshUses(Header(schema, opts))
         /\ opts.suppressUse => NoUseIn(Header(schema, opts))
<1> DEFINE S == {Gap, Comment, OneLine(Setting)}
           create == OneLine(Stmt("create", schema.db))
           use == OneLine(Stmt("use", schema.db))
           T == S \cup {create, use}
           a == IF opts.compact THEN <<>>
                ELSE <<Comment, Gap>> \o SettingLines \o <<Gap, Comment>>
           b == <<Gap, create, Gap, use>>
           c == a \o b
<1>1. /\ Gap.stmt = NoStmt /\ Comment.stmt = NoStmt /\ NoStmt.op = "none"
      /\ OneLine(Setting).stmt.op = "set"
      /\ create.stmt.op = "create" /\ use.stmt.op = "use"
  BY DEF Gap, Comment, NoStmt, OneLine, Setting, Stmt
<1>2. a \in Seq(S)
  <2>1. Usual(S, opts)
    BY DEF Usual
  <2>2. CASE opts.compact
    BY <2>2
  <2>3. CASE ~opts.compact
    <3>1. <<Comment, Gap>> \in Seq(S) /\ <<Gap, Comment>> \in Seq(S)
      OBVIOUS
    <3>2. SettingLines \in Seq(S)
      BY <2>1, UsualTyped
    <3>3. QED
      BY <2>3, <3>1, <3>2
  <2>4. QED
    BY <2>2, <2>3
<1>3. \A p \in S : p.stmt.op \notin Landing /\ p.stmt.op # "use"
  BY <1>1 DEF Landing
<1>4. /\ b \in Seq(T) /\ Len(b) = 4
      /\ b[1] = Gap /\ b[2] = create /\ b[3] = Gap /\ b[4] = use
  OBVIOUS
<1>5. Gap # Comment /\ create # Comment
  <2>1. Gap.lines[1].kind = "blank" /\ Comment.lines[1].kind = "open"
    BY DEF Gap, Comment, BlankLine, CommentLine
  <2>2. create.stmt.op # Comment.stmt.op
    BY <1>1
  <2>3. Gap # Comment
    BY <2>1
  <2> HIDE DEF create
  <2>4. create # Comment
    BY <2>2
  <2>5. QED
    BY <2>3, <2>4
<1>6. Header(schema, opts) = IF opts.suppressUse THEN a \o <<>> ELSE c
  BY DEF Header
<1>7. CASE opts.suppressUse
  <2> HIDE DEF a
  <2>1. a \o <<>> = a
    BY <1>2, ConcatEmptySeq
  <2>2. \A i \in 1..Len(a) : a[i] \in S
    BY <1>2
  <2>3. NoUseIn(a)
    BY <1>3, <2>2 DEF NoUseIn
  <2>4. QED
    BY <1>6, <1>7, <2>1, <2>3
<1>8. CASE ~opts.suppressUse
  <2> DEFINE m == Len(a)
  <2>0. S \subseteq T
    OBVIOUS
  <2> HIDE DEF a, b, S, T, use, create
  <2>1. a \in Seq(T) /\ \A i \in 1..m : a[i] \in S
    BY <1>2, <2>0
  <2>2. /\ m \in Nat /\ Len(c) = m + 4
        /\ \A i \in 1..m : c[i] = a[i]
        /\ c[m + 1] = Gap /\ c[m + 2] = create /\ c[m + 3] = Gap /\ c[m + 4] = use
    <3>1. /\ m \in Nat /\ Len(c) = m + Len(b)
          /\ \A i \in 1..m : c[i] = a[i]
          /\ \A i \in 1..Len(b) : c[m + i] = b[i]
      <4>1. b \in Seq(T) /\ a \in Seq(T)
        BY <1>4, <2>1
      <4>2. QED
        BY ONLY <4>1, ConcatAt
    <3>2. 1 \in 1..Len(b) /\ 2 \in 1..Len(b) /\ 3 \in 1..Len(b) /\ 4 \in 1..Len(b)
      BY <1>4
    <3> HIDE DEF c, m
    <3>3. QED
      BY <1>4, <3>1, <3>2
  <2> HIDE DEF c, m
  <2>3. \A i \in 1..(m + 4) : i \in 1..m \/ i = m + 1 \/ i = m + 2 \/ i = m + 3 \/ i = m + 4
    BY <2>2
  <2>4. Opened(c)
    <3>1. m + 4 \in 1..Len(c)
      BY <2>2
    <3>2. \A i \in 1..(m + 4) : c[i].stmt.op \notin Landing
      BY <1>1, <1>3, <2>1, <2>2, <2>3, ZenonT(40) DEF Landing
    <3>3. QED
      BY <1>1, <2>2, <3>1, <3>2 DEF Opened
  <2>5. FreshUses(c)
    <3>1. SUFFICES ASSUME NEW k \in Nat, k + 1 \in 1..Len(c), c[k + 1].stmt.op = "use"
                   PROVE  Fresh(c, k)
      BY DEF FreshUses
    <3>2. k + 1 = m + 4
      BY <1>1, <1>3, <2>1, <2>2, <2>3, <3>1
    <3>3. k = m + 3
      BY <2>2, <3>1, <3>2
    <3>4. ASSUME NEW j \in 1..k, c[j] = Comment
          PROVE  m + 2 \in (j + 1)..k
      <4>1. j \in 1..m
        BY <1>5, <2>2, <2>3, <3>3, <3>4
      <4>2. QED
        BY <2>2, <3>3, <4>1
    <3>5. c[m + 2].stmt # NoStmt
      BY <1>1, <2>2
    <3>6. QED
      BY <3>4, <3>5 DEF Fresh
  <2>6. QED
    BY <1>6, <1>8, <2>4, <2>5
<1>9. QED
  BY <1>7, <1>8

\* Where the USEs are in a dump.
LEMMA PiecesOrder ==
  ASSUME NEW schema, NEW opts, Proper(schema)
  PROVE  /\ ~opts.suppressUse => Opened(Pieces(schema, opts))
         /\ ~opts.suppressUse /\ (opts.compact \/ schema.views = <<>>)
              => FreshUses(Pieces(schema, opts))
         /\ opts.suppressUse => LateUses(Pieces(schema, opts))
<1> DEFINE T == PieceSet(schema, opts)
           h == Header(schema, opts)
           t == TablesPart(schema, opts)
           s == StandInsPart(schema, opts)
           r == RoutinesPart(schema, opts)
           v == ViewsPart(schema, opts)
           f == Footer(opts)
           P == ((((h \o t) \o s) \o r) \o v) \o f
<1>1. NoUse(schema, opts) \subseteq T /\ \A p \in NoUse(schema, opts) : p.stmt.op # "use"
  BY DEF NoUse
<1>2. \A q : q \in Seq(NoUse(schema, opts)) => q \in Seq(T) /\ NoUseIn(q)
  BY <1>1 DEF NoUseIn
<1>3. /\ h \in Seq(T) /\ v \in Seq(T)
      /\ t \in Seq(T) /\ s \in Seq(T) /\ r \in Seq(T) /\ f \in Seq(T)
      /\ NoUseIn(t) /\ NoUseIn(s) /\ NoUseIn(r) /\ NoUseIn(f)
      /\ schema.views = <<>> => NoUseIn(v)
  <2> HIDE DEF h, t, s, r, v, f, T
  <2>1. QED
    BY <1>2, PartsTyped DEF h, t, s, r, v, f, T
<1>4. Pieces(schema, opts) = P
  BY PiecesParts
<1>5. /\ ~opts.suppressUse => Opened(h) /\ FreshUses(h)
      /\ opts.suppressUse => NoUseIn(h)
  BY HeaderOrder
<1>6. schema.views # <<>> => In(TwoLines(Stmt("standin", schema.views[1])), s)
  <2>1. schema.views # <<>> => 1 \in 1..Len(schema.views)
    BY DEF Proper, IsSeq
  <2>2. Usual(NoUse(schema, opts), opts) /\ StandInsIn(NoUse(schema, opts), schema)
    BY NoUseHas
  <2>3. QED
    BY <2>1, <2>2, StandInsPartTyped
<1>7. TwoLines(Stmt("standin", schema.views[1])).stmt.op \in InSchema
  BY DEF TwoLines, Stmt, InSchema
<1>8. opts.compact => FreshUses(P)
  <2>1. SUFFICES ASSUME opts.compact PROVE FreshUses(P)
    OBVIOUS
  <2>2. P \in Seq(T)
    BY <1>4, PiecesTyped
  <2>3. Comment \notin T
    <3>1. Gap # Comment
      <4>1. Gap.lines[1].kind = "blank" /\ Comment.lines[1].kind = "open"
        BY DEF Gap, Comment, BlankLine, CommentLine
      <4>2. QED
        BY <4>1
    <3>2. \A x : OneLine(x).stmt = x /\ TwoLines(x).stmt = x /\ Delimited(x).stmt = x
      BY DEF OneLine, TwoLines, Delimited
    <3>3. Comment.stmt = NoStmt
      BY DEF Comment
    <3>4. NoStmt \notin Singles(schema) /\ NoStmt \notin Doubles(schema) /\ NoStmt \notin Wrapped(schema, opts)
      <4>1. NoStmt.op = "none"
        BY DEF NoStmt, Stmt
      <4>2. \A x \in Singles(schema) : x.op # "none"
        BY DEF Singles, Setting, Stmt
      <4>3. \A x \in Doubles(schema) : x.op # "none"
        BY DEF Doubles, Stmt
      <4>4. \A x \in Wrapped(schema, opts) : x.op # "none"
        <5>1. \A name : Created(name).op = "trigger" /\ Stmt("routine", name).op = "routine"
          BY DEF Created, Stmt
        <5>2. \A x \in Wrapped(schema, opts) :
                \E name : x = Created(name) \/ x = Stmt("routine", name)
          BY DEF Wrapped
        <5>3. QED
          BY <5>1, <5>2
      <4>5. QED
        BY <4>1, <4>2, <4>3, <4>4
    <3> HIDE DEF T
    <3>5. \A p \in T : p = Gap \/ p.stmt \in Singles(schema) \cup Doubles(schema) \cup Wrapped(schema, opts)
      BY <2>1, <3>2 DEF T, PieceSet
    <3>6. QED
      BY <3>1, <3>3, <3>4, <3>5
  <2> HIDE DEF P, T
  <2>4. \A i \in 1..Len(P) : P[i] # Comment
    BY <2>2, <2>3
  <2>5. Len(P) \in Nat
    BY <2>2
  <2>6. QED
    BY <2>4, <2>5 DEF FreshUses, Fresh
<1> DEFINE a == h \o t
           b == a \o s
           c == b \o r
           d == c \o v
<1> HIDE DEF h, t, s, r, v, f, T
<1>9. a \in Seq(T) /\ b \in Seq(T) /\ c \in Seq(T) /\ d \in Seq(T)
  BY <1>3
<1> DEFINE x == TwoLines(Stmt("standin", schema.views[1]))
<1>10. P = d \o f
  OBVIOUS
<1> HIDE DEF P, x
<1>11. ~opts.suppressUse => Opened(P)
  <2>1. Opened(h) => Opened(a)
    BY <1>3, OrderKept
  <2> HIDE DEF a
  <2>2. Opened(a) => Opened(b)
    BY <1>3, <1>9, OrderKept
  <2> HIDE DEF b
  <2>3. Opened(b) => Opened(c)
    BY <1>3, <1>9, OrderKept
  <2> HIDE DEF c
  <2>4. Opened(c) => Opened(d)
    BY <1>3, <1>9, OrderKept
  <2> HIDE DEF d
  <2>5. Opened(d) => Opened(P)
    BY <1>3, <1>9, <1>10, OrderKept
  <2>6. QED
    BY <1>5, <2>1, <2>2, <2>3, <2>4, <2>5
<1>12. ~opts.suppressUse /\ schema.views = <<>> => FreshUses(P)
  <2>1. FreshUses(h) => FreshUses(a)
    BY <1>3, OrderKept
  <2> HIDE DEF a
  <2>2. FreshUses(a) => FreshUses(b)
    BY <1>3, <1>9, OrderKept
  <2> HIDE DEF b
  <2>3. FreshUses(b) => FreshUses(c)
    BY <1>3, <1>9, OrderKept
  <2> HIDE DEF c
  <2>4. schema.views = <<>> /\ FreshUses(c) => FreshUses(d)
    BY <1>3, <1>9, OrderKept
  <2> HIDE DEF d
  <2>5. FreshUses(d) => FreshUses(P)
    BY <1>3, <1>9, <1>10, OrderKept
  <2>6. QED
    BY <1>5, <2>1, <2>2, <2>3, <2>4, <2>5
<1>13. opts.suppressUse => LateUses(P)
  <2>0. In(x, s) => In(x, b)
    BY <1>3, <1>9, InConcat
  <2>00. In(x, b) => In(x, c)
    BY <1>3, <1>9, InConcat
  <2>1. NoUseIn(h) => NoUseIn(a)
    BY <1>3, OrderKept
  <2> HIDE DEF a
  <2>2. NoUseIn(a) => NoUseIn(b)
    BY <1>3, <1>9, OrderKept
  <2> HIDE DEF b
  <2>3. NoUseIn(b) => NoUseIn(c)
    BY <1>3, <1>9, OrderKept
  <2> HIDE DEF c
  <2>4. NoUseIn(c) => LateUses(c)
    BY <1>3, <1>9, OrderKept
  <2>5. schema.views = <<>> /\ LateUses(c) => LateUses(d)
    BY <1>3, <1>9, OrderKept
  <2>6. In(x, c) /\ x.stmt.op \in InSchema /\ LateUses(c) => LateUses(d)
    BY <1>3, <1>9, OrderKept
  <2> HIDE DEF d
  <2>7. LateUses(d) => LateUses(P)
    BY <1>3, <1>9, <1>10, OrderKept
  <2>8. QED
    BY <1>5, <1>6, <1>7, <2>0, <2>00, <2>1, <2>2, <2>3, <2>4, <2>5, <2>6, <2>7 DEF x
<1>14. QED
  BY <1>4, <1>8, <1>11, <1>12, <1>13

---------------------------------------------------------------------------
(* The statements, pieces and lines there are. *)

SaidIn(schema, opts) == Singles(schema) \cup Doubles(schema) \cup Wrapped(schema, opts)
Said ==
  UNION {UNION {SaidIn(r.files[f].schema, r.files[f].opts) : f \in 1..Len(r.files)} : r \in Restores}

AllPieces ==
  {Gap, Comment} \cup {OneLine(s) : s \in Said} \cup {TwoLines(s) : s \in Said}
    \cup {Delimited(s) : s \in Said}
AllLines ==
  {BlankLine, CommentLine, DelimiterLine(";"), DelimiterLine(";;")}
    \cup {OpenLine(s) : s \in Said} \cup {ShutLine(s) : s \in Said}

LEMMA SaidHasOp ==
  /\ \A s \in Said : s.op # "none" /\ s # NoStmt
  /\ NoStmt.op = "none"
<1>1. NoStmt.op = "none"
  BY DEF NoStmt, Stmt
<1>2. ASSUME NEW schema, NEW opts, NEW s \in SaidIn(schema, opts)
      PROVE  s.op # "none"
  <2>1. \A x \in Singles(schema) : x.op # "none"
    BY DEF Singles, Setting, Stmt
  <2>2. \A x \in Doubles(schema) : x.op # "none"
    BY DEF Doubles, Stmt
  <2>3. \A x \in Wrapped(schema, opts) : x.op # "none"
    <3>1. \A name : Created(name).op = "trigger" /\ Stmt("routine", name).op = "routine"
      BY DEF Created, Stmt
    <3>2. \A x \in Wrapped(schema, opts) :
            \E name : x = Created(name) \/ x = Stmt("routine", name)
      BY DEF Wrapped
    <3>3. QED
      BY <3>1, <3>2
  <2>4. QED
    BY <1>2, <2>1, <2>2, <2>3 DEF SaidIn
<1>3. ASSUME NEW s \in Said
      PROVE  s.op # "none"
  <2>1. PICK r \in Restores : \E f \in 1..Len(r.files) : s \in SaidIn(r.files[f].schema, r.files[f].opts)
    BY DEF Said
  <2>2. QED
    BY <1>2, <2>1
<1>4. QED
  BY <1>1, <1>3

LEMMA FilesTyped ==
  ASSUME NEW r \in Restores, NEW f \in 1..Len(r.files)
  PROVE  /\ Proper(r.files[f].schema)
         /\ Pieces(r.files[f].schema, r.files[f].opts) \in Seq(AllPieces)
<1> DEFINE schema == r.files[f].schema
           opts == r.files[f].opts
<1>1. Proper(schema)
  BY RestoresAssumption DEF Proper
<1>2. SaidIn(schema, opts) \subseteq Said
  BY DEF Said
<1> HIDE DEF schema, opts
<1>3. PieceSet(schema, opts) \subseteq AllPieces
  <2>1. Singles(schema) \subseteq Said /\ Doubles(schema) \subseteq Said /\ Wrapped(schema, opts) \subseteq Said
    BY <1>2 DEF SaidIn
  <2>2. QED
    BY <2>1 DEF PieceSet, AllPieces
<1>4. Pieces(schema, opts) \in Seq(PieceSet(schema, opts))
  BY <1>1, PiecesTyped
<1>5. Pieces(schema, opts) \in Seq(AllPieces)
  BY <1>3, <1>4
<1>6. QED
  BY <1>1, <1>5 DEF schema, opts

\* A piece is one of five kinds.
LEMMA PieceKinds ==
  ASSUME NEW p \in AllPieces
  PROVE  \/ p = Gap
         \/ p = Comment
         \/ \E s \in Said : p = OneLine(s)
         \/ \E s \in Said : p = TwoLines(s)
         \/ \E s \in Said : p = Delimited(s)
BY DEF AllPieces

\* What is in a piece and a line.
LEMMA PieceLines ==
  /\ Gap.stmt = NoStmt /\ Len(Gap.lines) = 1 /\ Gap.lines[1] = BlankLine
  /\ Comment.stmt = NoStmt /\ Len(Comment.lines) = 1 /\ Comment.lines[1] = CommentLine
  /\ Gap # Comment
  /\ \A s :
       /\ OneLine(s).stmt = s /\ Len(OneLine(s).lines) = 1 /\ OneLine(s).lines[1] = ShutLine(s)
       /\ TwoLines(s).stmt = s /\ Len(TwoLines(s).lines) = 2
       /\ TwoLines(s).lines[1] = OpenLine(s) /\ TwoLines(s).lines[2] = ShutLine(s)
       /\ Delimited(s).stmt = s /\ Len(Delimited(s).lines) = 5
       /\ Delimited(s).lines[1] = DelimiterLine(";;")
       /\ Delimited(s).lines[2] = OpenLine(s)
       /\ Delimited(s).lines[3] = ShutLine(s)
       /\ Delimited(s).lines[4] = ShutLine(s)
       /\ Delimited(s).lines[5] = DelimiterLine(";")
<1>1. /\ Gap.stmt = NoStmt /\ Len(Gap.lines) = 1 /\ Gap.lines[1] = BlankLine
      /\ Comment.stmt = NoStmt /\ Len(Comment.lines) = 1 /\ Comment.lines[1] = CommentLine
  BY DEF Gap, Comment
<1>2. Gap # Comment
  <2>1. BlankLine.kind # CommentLine.kind
    BY DEF BlankLine, CommentLine
  <2>2. QED
    BY <1>1, <2>1
<1>3. ASSUME NEW s
      PROVE  /\ OneLine(s).stmt = s /\ Len(OneLine(s).lines) = 1 /\ OneLine(s).lines[1] = ShutLine(s)
             /\ TwoLines(s).stmt = s /\ Len(TwoLines(s).lines) = 2
             /\ TwoLines(s).lines[1] = OpenLine(s) /\ TwoLines(s).lines[2] = ShutLine(s)
  BY DEF OneLine, TwoLines
<1>4. ASSUME NEW s
      PROVE  /\ Delimited(s).stmt = s /\ Len(Delimited(s).lines) = 5
             /\ Delimited(s).lines[1] = DelimiterLine(";;")
             /\ Delimited(s).lines[2] = OpenLine(s)
             /\ Delimited(s).lines[3] = ShutLine(s)
             /\ Delimited(s).lines[4] = ShutLine(s)
             /\ Delimited(s).lines[5] = DelimiterLine(";")
  BY DEF Delimited
<1>5. QED
  BY <1>1, <1>2, <1>3, <1>4

LEMMA LineFields ==
  /\ BlankLine.kind = "blank" /\ BlankLine.of = NoStmt
  /\ CommentLine.kind = "open" /\ CommentLine.of = NoStmt
  /\ \A s : OpenLine(s).kind = "open" /\ OpenLine(s).of = s
  /\ \A s : ShutLine(s).kind = "shut" /\ ShutLine(s).of = s
  /\ \A d : DelimiterLine(d).kind = "delimiter" /\ DelimiterLine(d).of = NoStmt /\ DelimiterLine(d).to = d
BY DEF BlankLine, CommentLine, OpenLine, ShutLine, DelimiterLine

LEMMA LinesTyped ==
  ASSUME NEW p \in AllPieces
  PROVE  p.lines \in Seq(AllLines) /\ Len(p.lines) \in {1, 2, 5}
<1>1. /\ BlankLine \in AllLines /\ CommentLine \in AllLines
      /\ DelimiterLine(";") \in AllLines /\ DelimiterLine(";;") \in AllLines
      /\ \A s \in Said : OpenLine(s) \in AllLines /\ ShutLine(s) \in AllLines
  BY DEF AllLines
<1>2. ASSUME NEW x \in AllLines, NEW y \in AllLines, NEW z \in AllLines, NEW u \in AllLines
      PROVE  /\ <<x>> \in Seq(AllLines) /\ Len(<<x>>) = 1
             /\ <<x, y>> \in Seq(AllLines) /\ Len(<<x, y>>) = 2
             /\ <<x, y, z, z, u>> \in Seq(AllLines) /\ Len(<<x, y, z, z, u>>) = 5
  OBVIOUS
<1>3. CASE p = Gap \/ p = Comment
  <2>1. p.lines = <<BlankLine>> \/ p.lines = <<CommentLine>>
    BY <1>3 DEF Gap, Comment
  <2>2. QED
    BY <1>1, <1>2, <2>1
<1>4. ASSUME NEW s \in Said, p = OneLine(s) \/ p = TwoLines(s) \/ p = Delimited(s)
      PROVE  p.lines \in Seq(AllLines) /\ Len(p.lines) \in {1, 2, 5}
  <2> DEFINE x == OpenLine(s)
             y == ShutLine(s)
             z == DelimiterLine(";;")
             u == DelimiterLine(";")
  <2>1. x \in AllLines /\ y \in AllLines /\ z \in AllLines /\ u \in AllLines
    BY <1>1
  <2>2. p.lines = <<y>> \/ p.lines = <<x, y>> \/ p.lines = <<z, x, y, y, u>>
    <3>1. OneLine(s).lines = <<y>>
      BY DEF OneLine
    <3>2. TwoLines(s).lines = <<x, y>>
      BY DEF TwoLines
    <3>3. Delimited(s).lines = <<z, x, y, y, u>>
      BY DEF Delimited
    <3> HIDE DEF x, y, z, u
    <3>4. QED
      BY <1>4, <3>1, <3>2, <3>3
  <2> HIDE DEF x, y, z, u
  <2>3. <<z, x, y, y, u>> \in Seq(AllLines) /\ Len(<<z, x, y, y, u>>) = 5
    BY <2>1
  <2>4. QED
    BY <1>2, <2>1, <2>2, <2>3
<1>5. QED
  BY <1>3, <1>4, PieceKinds

---------------------------------------------------------------------------
(* The operators that go through a sequence, as Each of a function. *)

linesOf == [p \in AllPieces |-> p.lines]
wordsOf == [l \in AllLines |-> IF l.kind = "delimiter" THEN <<>> ELSE <<l>>]
partOf == [l \in AllLines |-> IF l.of = NoStmt THEN <<>> ELSE <<l>>]
statementOf == [p \in AllPieces |-> IF p.stmt = NoStmt THEN <<>> ELSE <<Statement(p)>>]
executedOf == [c \in Seq(AllLines) |-> IF Stmts(c) = <<>> THEN <<>> ELSE <<Stmts(c)>>]

LEMMA TextIsEach ==
  /\ linesOf \in [AllPieces -> Seq(AllLines)]
  /\ \A p \in AllPieces : linesOf[p] = p.lines
  /\ \A ps \in Seq(AllPieces) : Text(ps) = Each(linesOf, ps)
<1>1. \A p \in AllPieces : linesOf[p] = p.lines
  BY DEF linesOf
<1>2. linesOf \in [AllPieces -> Seq(AllLines)]
  BY LinesTyped DEF linesOf
<1>3. ASSUME NEW ps \in Seq(AllPieces)
      PROVE  Text(ps) = Each(linesOf, ps)
  <2>1. \A i \in 1..Len(ps) : linesOf[ps[i]] = ps[i].lines
    BY <1>1
  <2>2. [i \in 1..Len(ps) |-> linesOf[ps[i]]] = [i \in 1..Len(ps) |-> ps[i].lines]
    BY <2>1
  <2>3. QED
    BY <2>2 DEF Text, ForEach, Each
<1>4. QED
  BY <1>1, <1>2, <1>3

LEMMA StmtsIsEach ==
  /\ partOf \in [AllLines -> Seq(AllLines)]
  /\ \A l \in AllLines : partOf[l] = IF l.of = NoStmt THEN <<>> ELSE <<l>>
  /\ \A c \in Seq(AllLines) : Stmts(c) = Each(partOf, c)
<1>1. \A l \in AllLines : partOf[l] = IF l.of = NoStmt THEN <<>> ELSE <<l>>
  BY DEF partOf
<1>2. partOf \in [AllLines -> Seq(AllLines)]
  <2>1. \A l \in AllLines : (IF l.of = NoStmt THEN <<>> ELSE <<l>>) \in Seq(AllLines)
    OBVIOUS
  <2>2. QED
    BY <2>1 DEF partOf
<1>3. ASSUME NEW c \in Seq(AllLines)
      PROVE  Stmts(c) = Each(partOf, c)
  <2>1. \A i \in 1..Len(c) : partOf[c[i]] = IF c[i].of = NoStmt THEN <<>> ELSE <<c[i]>>
    BY <1>1
  <2>2. [i \in 1..Len(c) |-> partOf[c[i]]]
          = [i \in 1..Len(c) |-> IF c[i].of = NoStmt THEN <<>> ELSE <<c[i]>>]
    BY <2>1
  <2>3. QED
    BY <2>2 DEF Stmts, ForEach, Each
<1>4. QED
  BY <1>1, <1>2, <1>3

\* The statement in the lines of current, line by line.
LEMMA StmtsNext ==
  /\ Stmts(<<>>) = <<>>
  /\ \A c \in Seq(AllLines) : Stmts(c) \in Seq(AllLines)
  /\ \A c \in Seq(AllLines), l \in AllLines :
       /\ Append(c, l) \in Seq(AllLines)
       /\ Stmts(Append(c, l)) = IF l.of = NoStmt THEN Stmts(c) ELSE Append(Stmts(c), l)
<1>1. Stmts(<<>>) = Each(partOf, <<>>)
  <2>1. <<>> \in Seq(AllLines)
    OBVIOUS
  <2>2. QED
    BY <2>1, StmtsIsEach
<1>2. \A c \in Seq(AllLines) : Stmts(c) \in Seq(AllLines)
  BY StmtsIsEach, EachType
<1>3. ASSUME NEW c \in Seq(AllLines), NEW l \in AllLines
      PROVE  /\ Append(c, l) \in Seq(AllLines)
             /\ Stmts(Append(c, l)) = IF l.of = NoStmt THEN Stmts(c) ELSE Append(Stmts(c), l)
  <2>1. Append(c, l) \in Seq(AllLines)
    OBVIOUS
  <2>2. /\ partOf[l] = <<>> => Each(partOf, Append(c, l)) = Each(partOf, c)
        /\ partOf[l] = <<l>> => Each(partOf, Append(c, l)) = Append(Each(partOf, c), l)
    <3>1. AddsOne(AllLines, partOf, c, l)
      BY StmtsIsEach, EachAppendOne
    <3>2. QED
      BY <3>1 DEF AddsOne
  <2>3. QED
    BY <2>1, <2>2, StmtsIsEach
<1>4. QED
  BY <1>1, <1>2, <1>3, EachEmpty

\* The lines that are a piece's statement.
LEMMA StatementLines ==
  ASSUME NEW s \in Said
  PROVE  /\ Statement(OneLine(s)) = <<ShutLine(s)>>
         /\ Statement(TwoLines(s)) = <<OpenLine(s), ShutLine(s)>>
         /\ Statement(Delimited(s)) = <<OpenLine(s), ShutLine(s), ShutLine(s)>>
<1> DEFINE x == OpenLine(s)
           y == ShutLine(s)
           z == DelimiterLine(";;")
           u == DelimiterLine(";")
<1>1. x \in AllLines /\ y \in AllLines /\ z \in AllLines /\ u \in AllLines
  BY DEF AllLines
<1>2. /\ x.kind = "open" /\ y.kind = "shut" /\ z.kind = "delimiter" /\ u.kind = "delimiter"
  BY LineFields
<1>3. wordsOf \in [AllLines -> Seq(AllLines)]
  <2>1. \A l \in AllLines : (IF l.kind = "delimiter" THEN <<>> ELSE <<l>>) \in Seq(AllLines)
    OBVIOUS
  <2>2. QED
    BY <2>1 DEF wordsOf
<1>4. ASSUME NEW p, p.lines \in Seq(AllLines)
      PROVE  Statement(p) = Each(wordsOf, p.lines)
  <2> DEFINE c == p.lines
  <2>1. \A i \in 1..Len(c) : wordsOf[c[i]] = IF c[i].kind = "delimiter" THEN <<>> ELSE <<c[i]>>
    BY <1>4 DEF wordsOf
  <2>2. [i \in 1..Len(c) |-> wordsOf[c[i]]]
          = [i \in 1..Len(c) |-> IF c[i].kind = "delimiter" THEN <<>> ELSE <<c[i]>>]
    BY <2>1
  <2>3. QED
    BY <2>2 DEF Statement, ForEach, Each
<1>5. wordsOf[x] = <<x>> /\ wordsOf[y] = <<y>> /\ wordsOf[z] = <<>> /\ wordsOf[u] = <<>>
  <2> HIDE DEF x, y, z, u
  <2>1. QED
    BY <1>1, <1>2 DEF wordsOf
<1>6. /\ OneLine(s).lines = <<y>>
      /\ TwoLines(s).lines = <<x, y>>
      /\ Delimited(s).lines = <<z, x, y, y, u>>
  BY DEF OneLine, TwoLines, Delimited
<1> HIDE DEF x, y, z, u
<1>7. ASSUME NEW c \in Seq(AllLines)
      PROVE  /\ Each(wordsOf, Append(c, x)) = Append(Each(wordsOf, c), x)
             /\ Each(wordsOf, Append(c, y)) = Append(Each(wordsOf, c), y)
             /\ Each(wordsOf, Append(c, z)) = Each(wordsOf, c)
             /\ Each(wordsOf, Append(c, u)) = Each(wordsOf, c)
  <2> DEFINE next(l) == /\ wordsOf[l] = <<>> => Each(wordsOf, Append(c, l)) = Each(wordsOf, c)
                        /\ \A w \in AllLines :
                             wordsOf[l] = <<w>> => Each(wordsOf, Append(c, l)) = Append(Each(wordsOf, c), w)
  <2>1. ASSUME NEW l \in AllLines
        PROVE  next(l)
    <3> DEFINE g == wordsOf
               D == AllLines
    <3>1. g \in [D -> Seq(D)] /\ c \in Seq(D) /\ l \in D
      BY <1>3
    <3> HIDE DEF g, D, next
    <3>2. AddsOne(D, g, c, l)
      BY ONLY <3>1, EachAppendOne
    <3>3. QED
      BY <3>2 DEF g, D, next, AddsOne
  <2>2. next(x) /\ next(y) /\ next(z) /\ next(u)
    <3> HIDE DEF next
    <3>1. QED
      BY <1>1, <2>1
  <2>3. QED
    BY <1>1, <1>5, <2>2
<1> DEFINE e(c) == Each(wordsOf, c)
           L == Seq(AllLines)
<1>8. e(<<>>) = <<>> /\ <<>> \in L
  BY EachEmpty
<1>9. /\ <<x>> \in L /\ <<y>> \in L /\ <<x, y>> \in L /\ <<z>> \in L /\ <<z, x>> \in L
      /\ <<z, x, y>> \in L /\ <<z, x, y, y>> \in L /\ <<z, x, y, y, u>> \in L
  BY <1>1
<1>10. \A c \in L : /\ e(Append(c, x)) = Append(e(c), x) /\ e(Append(c, y)) = Append(e(c), y)
                     /\ e(Append(c, z)) = e(c) /\ e(Append(c, u)) = e(c)
  BY <1>7
<1>11. /\ <<y>> = Append(<<>>, y) /\ <<x>> = Append(<<>>, x) /\ <<x, y>> = Append(<<x>>, y)
       /\ <<x, y, y>> = Append(<<x, y>>, y)
  OBVIOUS
<1>12. /\ <<z>> = Append(<<>>, z) /\ <<z, x>> = Append(<<z>>, x) /\ <<z, x, y>> = Append(<<z, x>>, y)
       /\ <<z, x, y, y>> = Append(<<z, x, y>>, y)
       /\ <<z, x, y, y, u>> = Append(<<z, x, y, y>>, u)
  OBVIOUS
<1> HIDE DEF e, L
<1>13. e(<<y>>) = <<y>>
  BY ONLY <1>8, <1>10, <1>11, <1>12
<1>14. e(<<x>>) = <<x>>
  BY ONLY <1>8, <1>10, <1>11, <1>12
<1>15. e(<<x, y>>) = <<x, y>>
  BY ONLY <1>8, <1>9, <1>10, <1>11, <1>12, <1>14
<1>16. e(<<z>>) = <<>>
  BY ONLY <1>8, <1>10, <1>11, <1>12
<1>17. e(<<z, x>>) = <<x>>
  BY ONLY <1>8, <1>9, <1>10, <1>11, <1>12, <1>16
<1>18. e(<<z, x, y>>) = <<x, y>>
  BY ONLY <1>8, <1>9, <1>10, <1>11, <1>12, <1>17
<1>19. e(<<z, x, y, y>>) = <<x, y, y>>
  BY ONLY <1>8, <1>9, <1>10, <1>11, <1>12, <1>18
<1>20. e(<<z, x, y, y, u>>) = <<x, y, y>>
  BY ONLY <1>8, <1>9, <1>10, <1>11, <1>12, <1>19
<1>21. QED
  BY <1>4, <1>6, <1>9, <1>13, <1>15, <1>20 DEF e, L, x, y

LEMMA StatementTyped ==
  /\ statementOf \in [AllPieces -> Seq(Seq(AllLines))]
  /\ \A p \in AllPieces :
       statementOf[p] = IF p.stmt = NoStmt THEN <<>> ELSE <<Statement(p)>>
  /\ \A ps \in Seq(AllPieces) : Statements(ps) = Each(statementOf, ps)
<1>1. \A p \in AllPieces :
        statementOf[p] = IF p.stmt = NoStmt THEN <<>> ELSE <<Statement(p)>>
  BY DEF statementOf
<1>2. ASSUME NEW p \in AllPieces
      PROVE  (IF p.stmt = NoStmt THEN <<>> ELSE <<Statement(p)>>) \in Seq(Seq(AllLines))
  <2> DEFINE L == Seq(AllLines)
  <2>1. ASSUME NEW s \in Said
        PROVE  <<ShutLine(s)>> \in L /\ <<OpenLine(s), ShutLine(s)>> \in L
               /\ <<OpenLine(s), ShutLine(s), ShutLine(s)>> \in L
    <3> DEFINE x == OpenLine(s)
               y == ShutLine(s)
    <3>1. x \in AllLines /\ y \in AllLines
      BY DEF AllLines
    <3> HIDE DEF x, y
    <3>2. <<y>> \in L /\ <<x, y>> \in L /\ <<x, y, y>> \in L
      BY <3>1
    <3>3. QED
      BY <3>2 DEF x, y
  <2>2. p.stmt # NoStmt => Statement(p) \in L
    <3>1. Gap.stmt = NoStmt /\ Comment.stmt = NoStmt
      BY PieceLines
    <3> HIDE DEF L
    <3>2. QED
      BY <2>1, <3>1, PieceKinds, StatementLines
  <2> HIDE DEF L
  <2>3. (IF p.stmt = NoStmt THEN <<>> ELSE <<Statement(p)>>) \in Seq(L)
    BY <2>2
  <2>4. QED
    BY <2>3 DEF L
<1>3. statementOf \in [AllPieces -> Seq(Seq(AllLines))]
  BY <1>2 DEF statementOf
<1>4. ASSUME NEW ps \in Seq(AllPieces)
      PROVE  Statements(ps) = Each(statementOf, ps)
  <2>1. \A i \in 1..Len(ps) :
          statementOf[ps[i]] = IF ps[i].stmt = NoStmt THEN <<>> ELSE <<Statement(ps[i])>>
    BY <1>1
  <2>2. [i \in 1..Len(ps) |-> statementOf[ps[i]]]
          = [i \in 1..Len(ps) |-> IF ps[i].stmt = NoStmt THEN <<>> ELSE <<Statement(ps[i])>>]
    BY <2>1
  <2>3. QED
    BY <2>2 DEF Statements, ForEach, Each
<1>5. QED
  BY <1>1, <1>3, <1>4

LEMMA ExecutedIsEach ==
  /\ executedOf \in [Seq(AllLines) -> Seq(Seq(AllLines))]
  /\ \A c \in Seq(AllLines) : executedOf[c] = IF Stmts(c) = <<>> THEN <<>> ELSE <<Stmts(c)>>
  /\ \A calls \in Seq(Seq(AllLines)) : Executed(calls) = Each(executedOf, calls)
<1>1. \A c \in Seq(AllLines) : executedOf[c] = IF Stmts(c) = <<>> THEN <<>> ELSE <<Stmts(c)>>
  BY DEF executedOf
<1>2. executedOf \in [Seq(AllLines) -> Seq(Seq(AllLines))]
  <2> DEFINE L == Seq(AllLines)
  <2>1. \A c \in L : Stmts(c) \in L
    BY StmtsNext
  <2> HIDE DEF L
  <2>2. \A c \in L : (IF Stmts(c) = <<>> THEN <<>> ELSE <<Stmts(c)>>) \in Seq(L)
    BY <2>1
  <2>3. QED
    BY <2>2 DEF executedOf, L
<1>3. ASSUME NEW calls \in Seq(Seq(AllLines))
      PROVE  Executed(calls) = Each(executedOf, calls)
  <2>1. \A i \in 1..Len(calls) :
          executedOf[calls[i]] = IF Stmts(calls[i]) = <<>> THEN <<>> ELSE <<Stmts(calls[i])>>
    <3> DEFINE L == Seq(AllLines)
    <3>1. \A i \in 1..Len(calls) : calls[i] \in L
      BY <1>3
    <3>2. QED
      BY <1>1, <3>1
  <2>2. [i \in 1..Len(calls) |-> executedOf[calls[i]]]
          = [i \in 1..Len(calls) |-> IF Stmts(calls[i]) = <<>> THEN <<>> ELSE <<Stmts(calls[i])>>]
    BY <2>1
  <2>3. QED
    BY <2>2 DEF Executed, ForEach, Each
<1>4. QED
  BY <1>1, <1>2, <1>3

LEMMA ExecutedNext ==
  /\ Executed(<<>>) = <<>>
  /\ \A calls \in Seq(Seq(AllLines)), c \in Seq(AllLines) :
       /\ Append(calls, c) \in Seq(Seq(AllLines))
       /\ Executed(Append(calls, c))
            = IF Stmts(c) = <<>> THEN Executed(calls) ELSE Append(Executed(calls), Stmts(c))
<1> DEFINE L == Seq(AllLines)
<1>1. executedOf \in [L -> Seq(L)]
  BY ExecutedIsEach
<1>2. <<>> \in Seq(L) /\ \A c \in L : Stmts(c) \in L
  BY StmtsNext
<1>3. Executed(<<>>) = <<>>
  <2>1. Executed(<<>>) = Each(executedOf, <<>>)
    BY <1>2, ExecutedIsEach
  <2>2. QED
    BY <2>1, EachEmpty
<1>4. ASSUME NEW calls \in Seq(L), NEW c \in L
      PROVE  /\ Append(calls, c) \in Seq(L)
             /\ Executed(Append(calls, c))
                  = IF Stmts(c) = <<>> THEN Executed(calls) ELSE Append(Executed(calls), Stmts(c))
  <2>1. Executed(calls) = Each(executedOf, calls)
    BY ExecutedIsEach
  <2>2. executedOf[c] = IF Stmts(c) = <<>> THEN <<>> ELSE <<Stmts(c)>>
    BY ExecutedIsEach
  <2>3. \A d \in Seq(L) : Executed(d) = Each(executedOf, d)
    BY ExecutedIsEach
  <2> HIDE DEF L
  <2>4. AddsOne(L, executedOf, calls, c)
    BY <1>1, EachAppendOne
  <2>5. Append(calls, c) \in Seq(L)
    OBVIOUS
  <2>6. QED
    BY <1>2, <2>1, <2>2, <2>3, <2>4, <2>5 DEF AddsOne
<1>5. QED
  BY <1>3, <1>4

\* How many lines the first k pieces have.
Before(ps, k) == Len(Text(First(ps, k)))

\* The line that is read at a place within the piece k + 1, and what has been read after it.
LEMMA PlaceInText ==
  ASSUME NEW ps \in Seq(AllPieces), NEW k \in Nat, k + 1 \in 1..Len(ps)
  PROVE  /\ ps[k + 1] \in AllPieces
         /\ \A j \in 1..Len(ps[k + 1].lines) :
              /\ Before(ps, k) + j \in 1..Len(Text(ps))
              /\ Text(ps)[Before(ps, k) + j] = ps[k + 1].lines[j]
         /\ Before(ps, k + 1) = Before(ps, k) + Len(ps[k + 1].lines)
         /\ Before(ps, k) \in Nat
<1>1. k \in 0..Len(ps) /\ k + 1 \in 0..Len(ps) /\ ps[k + 1] \in AllPieces
  OBVIOUS
<1>2. First(ps, k) \in Seq(AllPieces) /\ First(ps, k + 1) \in Seq(AllPieces)
  BY <1>1, FirstIsPart
<1>3. /\ Text(First(ps, k)) = Each(linesOf, First(ps, k))
      /\ Text(First(ps, k + 1)) = Each(linesOf, First(ps, k + 1))
      /\ Text(ps) = Each(linesOf, ps)
      /\ linesOf[ps[k + 1]] = ps[k + 1].lines
  BY <1>1, <1>2, TextIsEach
<1>4. linesOf \in [AllPieces -> Seq(AllLines)]
  BY TextIsEach
<1>5. Each(linesOf, First(ps, k + 1)) = Each(linesOf, First(ps, k)) \o linesOf[ps[k + 1]]
  BY <1>4, EachNext
<1>6. Each(linesOf, First(ps, k)) \in Seq(AllLines)
  BY <1>2, <1>4, EachType
<1>7. Before(ps, k) \in Nat
  BY <1>3, <1>6 DEF Before
<1>8. Before(ps, k + 1) = Before(ps, k) + Len(ps[k + 1].lines)
  <2> DEFINE a == Each(linesOf, First(ps, k))
             x == linesOf[ps[k + 1]]
  <2>1. a \in Seq(AllLines) /\ x \in Seq(AllLines)
    BY <1>1, <1>4, <1>6
  <2> HIDE DEF a, x
  <2>2. Len(a \o x) = Len(a) + Len(x)
    BY <2>1
  <2>3. QED
    BY <1>3, <1>5, <2>2 DEF Before, a, x
<1>9. ASSUME NEW j \in 1..Len(ps[k + 1].lines)
      PROVE  /\ Before(ps, k) + j \in 1..Len(Text(ps))
             /\ Text(ps)[Before(ps, k) + j] = ps[k + 1].lines[j]
  <2>1. j \in 1..Len(linesOf[ps[k + 1]])
    BY <1>3
  <2>2. /\ Len(Each(linesOf, First(ps, k))) + j \in 1..Len(Each(linesOf, ps))
        /\ Each(linesOf, ps)[Len(Each(linesOf, First(ps, k))) + j] = linesOf[ps[k + 1]][j]
    BY <1>4, <2>1, EachAt, SMTT(20)
  <2>3. QED
    BY <1>3, <2>2 DEF Before
<1>10. QED
  BY <1>1, <1>7, <1>8, <1>9

\* The statements of the first k pieces.
LEMMA StatementsAfter ==
  ASSUME NEW ps \in Seq(AllPieces), NEW k \in Nat, k + 1 \in 1..Len(ps)
  PROVE  Statements(First(ps, k + 1)) =
           IF ps[k + 1].stmt = NoStmt THEN Statements(First(ps, k))
           ELSE Append(Statements(First(ps, k)), Statement(ps[k + 1]))
<1> DEFINE L == Seq(AllLines)
           f == First(ps, k)
           p == ps[k + 1]
<1>1. k \in 0..Len(ps) /\ k + 1 \in 0..Len(ps) /\ p \in AllPieces
  OBVIOUS
<1>2. f \in Seq(AllPieces) /\ First(ps, k + 1) \in Seq(AllPieces) /\ First(ps, k + 1) = Append(f, p)
  BY <1>1, FirstIsPart, FirstNext
<1>3. statementOf \in [AllPieces -> Seq(L)]
  BY StatementTyped
<1>4. /\ Statements(f) = Each(statementOf, f)
      /\ Statements(Append(f, p)) = Each(statementOf, Append(f, p))
      /\ statementOf[p] = IF p.stmt = NoStmt THEN <<>> ELSE <<Statement(p)>>
  BY <1>1, <1>2, StatementTyped
<1>5. p.stmt # NoStmt => Statement(p) \in L
  <2>1. p.stmt # NoStmt => statementOf[p] = <<Statement(p)>> /\ statementOf[p] \in Seq(L)
    BY <1>1, <1>3, <1>4
  <2> DEFINE q == Statement(p)
  <2> HIDE DEF L, q
  <2>2. <<q>> \in Seq(L) => q \in L
    BY Len(<<q>>) = 1, <<q>>[1] = q
  <2>3. QED
    BY <2>1, <2>2 DEF q
<1> HIDE DEF L, f, p
<1>6. AddsOne(L, statementOf, f, p)
  BY <1>1, <1>2, <1>3, EachAppendOne
<1>7. QED
  BY <1>2, <1>4, <1>5, <1>6 DEF AddsOne, f, p

LEMMA WholeText ==
  ASSUME NEW ps \in Seq(AllPieces)
  PROVE  /\ First(ps, 0) = <<>> /\ First(ps, Len(ps)) = ps
         /\ Before(ps, 0) = 0 /\ Statements(First(ps, 0)) = <<>>
         /\ Before(ps, Len(ps)) = Len(Text(ps)) /\ Len(Text(ps)) \in Nat
         /\ \A k \in 0..Len(ps) :
              IsPrefix(Statements(First(ps, k)), Statements(ps))
<1>1. 0 \in 0..Len(ps) /\ Len(ps) \in 0..Len(ps) /\ <<>> \in Seq(AllPieces)
  OBVIOUS
<1>2. First(ps, 0) = <<>> /\ First(ps, Len(ps)) = ps
  BY <1>1, FirstIsPart
<1>3. Text(<<>>) = <<>> /\ Statements(<<>>) = <<>>
  BY <1>1, TextIsEach, StatementTyped, EachEmpty
<1>4. Len(Text(ps)) \in Nat
  BY TextIsEach, EachType
<1>5. Before(ps, 0) = 0 /\ Before(ps, Len(ps)) = Len(Text(ps))
  BY <1>2, <1>3 DEF Before
<1>6. ASSUME NEW k \in 0..Len(ps)
      PROVE  IsPrefix(Statements(First(ps, k)), Statements(ps))
  <2> DEFINE L == Seq(AllLines)
  <2>1. statementOf \in [AllPieces -> Seq(L)]
    BY StatementTyped
  <2>2. First(ps, k) \in Seq(AllPieces)
    BY FirstIsPart
  <2>3. /\ Statements(First(ps, k)) = Each(statementOf, First(ps, k))
        /\ Statements(ps) = Each(statementOf, ps)
    BY <2>2, StatementTyped
  <2> HIDE DEF L
  <2>4. /\ Each(statementOf, First(ps, k)) \in Seq(L) /\ Each(statementOf, ps) \in Seq(L)
        /\ Begins(L, Each(statementOf, First(ps, k)), Each(statementOf, ps))
    BY <2>1, EachBegins
  <2> DEFINE a == Each(statementOf, First(ps, k))
             b == Each(statementOf, ps)
  <2> HIDE DEF a, b
  <2>5. PICK r \in Seq(L) : b = a \o r
    BY <2>4 DEF Begins, a, b
  <2>6. a \in Seq(L)
    BY <2>4 DEF a
  <2>7. /\ Len(a) \in Nat /\ Len(b) \in Nat /\ Len(a) <= Len(b)
        /\ \A i \in 1..Len(a) : b[i] = a[i]
    BY <2>5, <2>6, ConcatAt
  <2>8. SubSeq(a, 1, Len(a)) = SubSeq(b, 1, Len(a))
    BY <2>7
  <2>9. QED
    BY <2>3, <2>7, <2>8 DEF IsPrefix, a, b
<1>7. QED
  BY <1>2, <1>3, <1>4, <1>5, <1>6

---------------------------------------------------------------------------
(* The inductive invariant. *)

PiecesOf(f) == Pieces(backup[f].schema, backup[f].opts)

\* The lines of a piece between the first and the n-th.
Body(p, n) == SubSeq(p.lines, 2, n)

\* n lines of the piece p have been read, and it is not done yet: its statement is complete
\* and about to be executed, or its first line of two has been read, or it is between its
\* delimiters.
Complete(p, n) ==
  /\ n = Len(p.lines) /\ p.stmt # NoStmt
  /\ phase = "exec" /\ delimiter = Default /\ Stmts(current) = Statement(p)
Halfway(p, n) ==
  /\ n = 1 /\ Len(p.lines) = 2
  /\ phase = "read" /\ delimiter = Default /\ Stmts(current) = <<p.lines[1]>>
Within(p, n) ==
  /\ n \in 1..4 /\ Len(p.lines) = 5 /\ delimiter = ";;"
  /\ \/ phase = "read" /\ Stmts(current) = Body(p, n)
     \/ phase = "exec" /\ n = 1 /\ Stmts(current) = <<>>
InPiece(p, n) == Complete(p, n) \/ Halfway(p, n) \/ Within(p, n)

\* Of the pieces ps of the file the first k are done, and the one after may have begun.
Place(ps, k) ==
  \/ phase = "read" /\ pos = Before(ps, k) /\ delimiter = Default /\ Stmts(current) = <<>>
  \/ k < Len(ps) /\ InPiece(ps[k + 1], pos - Before(ps, k))
  \/ /\ k = Len(ps) /\ pos = Before(ps, k)
     /\ phase = "commit" \/ (phase = "leftover" /\ Stmts(current) = <<>>)

\* What the first n pieces of the file f create is there.
IsThere(s, f) == \E l \in landed : l.op = s.op /\ l.obj = s.obj /\ l.file = f
Restored(ps, n, f) == \A i \in 1..n : ps[i].stmt.op \in Landing => IsThere(ps[i].stmt, f)

\* No file has a USE in front.
Suppressed(r) == \A f \in 1..Len(r.files) : r.files[f].opts.suppressUse

\* Each file has a USE in front, and no other USE below a comment unless it is of the schema
\* to restore into.
Targeted(r) ==
  \A f \in 1..Len(r.files) :
    LET schema == r.files[f].schema  opts == r.files[f].opts IN
    /\ ~opts.suppressUse
    /\ \/ opts.compact
       \/ schema.views = <<>>
       \/ schema.db \notin DOMAIN r.map
       \/ r.map[schema.db] = schema.db

\* The schema that is selected after the first k pieces.
Target == Mapped(backup[file].schema.db)
SelectedAt(ps, k) ==
  /\ Suppressed(restore) => \A i \in 1..k : ps[i].stmt.op \notin InSchema
  /\ Targeted(restore) => \A i \in 1..k : ps[i].stmt.op = "use" => selected = Target

Scanned(ps, k) ==
  /\ Place(ps, k)
  /\ Executed(sent) = Statements(First(ps, k))
  /\ Restored(ps, k, file)
  /\ SelectedAt(ps, k)
  /\ Fresh(ps, k) /\ phase \in {"read", "exec"} => Stmts(current) = current

Going == {"read", "exec", "leftover", "commit"}

TypedInv ==
  /\ TypeOK
  /\ restore \in Restores
  /\ current \in Seq(AllLines)
  /\ sent \in Seq(Seq(AllLines))

ScanInv ==
  phase \in Going =>
    /\ file <= Len(backup)
    /\ \E ps \in {PiecesOf(file)} : \E k \in 0..Len(ps) : Scanned(ps, k)

FilesInv ==
  /\ \A f \in 1..(file - 1) : \E ps \in {PiecesOf(f)} : Restored(ps, Len(ps), f)
  /\ phase = "ok" => file = Len(backup) + 1

TargetInv ==
  /\ Suppressed(restore) => selected = NoSchema /\ landed = {}
  /\ Targeted(restore) => LandsInTarget

Inv == TypedInv /\ ScanInv /\ FilesInv /\ TargetInv

LEMMA TheFile ==
  ASSUME restore \in Restores, file \in 1..Len(backup)
  PROVE  /\ Proper(backup[file].schema)
         /\ PiecesOf(file) \in Seq(AllPieces)
         /\ Lines(file) = Text(PiecesOf(file))
         /\ WrittenIn[backup][file] = Statements(PiecesOf(file))
<1>1. backup \in Backups
  BY DEF backup, Backups
<1>2. /\ TextOf[backup] = [f \in 1..Len(backup) |-> Text(Pieces(backup[f].schema, backup[f].opts))]
      /\ WrittenIn[backup] = [f \in 1..Len(backup) |-> Written(backup[f].schema, backup[f].opts)]
  BY <1>1 DEF TextOf, WrittenIn
<1>3. Lines(file) = Text(PiecesOf(file)) /\ WrittenIn[backup][file] = Statements(PiecesOf(file))
  BY <1>2 DEF Lines, PiecesOf, Written
<1>4. QED
  BY <1>3, FilesTyped DEF backup, PiecesOf

\* A piece without a statement changes neither what is there nor what is selected.
LEMMA PastNothing ==
  ASSUME NEW ps \in Seq(AllPieces), NEW k \in Nat, k + 1 \in 1..Len(ps), NEW f,
         ps[k + 1].stmt = NoStmt
  PROVE  /\ Restored(ps, k, f) => Restored(ps, k + 1, f)
         /\ SelectedAt(ps, k) => SelectedAt(ps, k + 1)
         /\ ps[k + 1] = Gap /\ Fresh(ps, k + 1) => Fresh(ps, k)
         /\ ps[k + 1] = Comment => ~Fresh(ps, k + 1)
<1>1. ps[k + 1].stmt.op \notin Landing /\ ps[k + 1].stmt.op \notin InSchema /\ ps[k + 1].stmt.op # "use"
  BY SaidHasOp DEF Landing, InSchema
<1>2. \A i \in 1..(k + 1) : i \in 1..k \/ i = k + 1
  OBVIOUS
<1>3. Restored(ps, k, f) => Restored(ps, k + 1, f)
  BY <1>1, <1>2 DEF Restored
<1>4. SelectedAt(ps, k) => SelectedAt(ps, k + 1)
  BY <1>1, <1>2 DEF SelectedAt
<1>5. ASSUME ps[k + 1] = Gap, Fresh(ps, k + 1) PROVE Fresh(ps, k)
  <2>1. SUFFICES ASSUME NEW j \in 1..k, ps[j] = Comment
                 PROVE  \E i \in (j + 1)..k : ps[i].stmt # NoStmt
    BY DEF Fresh
  <2>2. PICK i \in (j + 1)..(k + 1) : ps[i].stmt # NoStmt
    BY <1>5, <2>1 DEF Fresh
  <2>3. i \in (j + 1)..k
    BY <2>2
  <2>4. QED
    BY <2>2, <2>3
<1>6. ASSUME ps[k + 1] = Comment PROVE ~Fresh(ps, k + 1)
  <2>1. k + 1 \in 1..(k + 1) /\ ~\E i \in ((k + 1) + 1)..(k + 1) : TRUE
    OBVIOUS
  <2>2. QED
    BY <1>6, <2>1 DEF Fresh
<1>7. QED
  BY <1>3, <1>4, <1>5, <1>6

\* What a step that leaves the server alone keeps.
LEMMA KeptByReading ==
  ASSUME NEW ps, NEW k, UNCHANGED <<restore, file, sent>>, UNCHANGED server
  PROVE  /\ (Executed(sent) = Statements(First(ps, k)))' = (Executed(sent) = Statements(First(ps, k)))
         /\ Restored(ps, k, file)' = Restored(ps, k, file)
         /\ SelectedAt(ps, k)' = SelectedAt(ps, k)
         /\ \A f : PiecesOf(f)' = PiecesOf(f)
         /\ backup' = backup
BY DEF server, Restored, IsThere, SelectedAt, Target, Mapped, PiecesOf, backup

\* One turn of the loop takes the line: blank, text or DELIMITER.
Takes(line) == SkipBlank(line) \/ TakeText(line) \/ TakeDelimiter(line)

\* A line of text of the statement s is added to current.
LEMMA TextTaken ==
  ASSUME current \in Seq(AllLines), NEW s \in Said, NEW line,
         line = OpenLine(s) \/ line = ShutLine(s), Takes(line)
  PROVE  /\ delimiter' = delimiter
         /\ phase' = IF line = ShutLine(s) /\ delimiter = ";" THEN "exec" ELSE "read"
         /\ Stmts(current') = Append(Stmts(current), line)
         /\ Stmts(current) = current => Stmts(current') = current'
<1>1. /\ line.of = s /\ line.kind \in {"open", "shut"}
      /\ line.kind = "shut" <=> line = ShutLine(s)
  BY LineFields
<1>2. line \in AllLines /\ s # NoStmt
  BY SaidHasOp DEF AllLines
<1>3. TakeText(line)
  BY <1>1 DEF Takes, SkipBlank, TakeDelimiter
<1>4. /\ current' = Append(current, line) /\ delimiter' = delimiter
      /\ phase' = IF line = ShutLine(s) /\ delimiter = ";" THEN "exec" ELSE "read"
  BY <1>1, <1>3 DEF TakeText, Default
<1>5. Stmts(Append(current, line)) = Append(Stmts(current), line)
  BY <1>1, <1>2, StmtsNext
<1>6. QED
  BY <1>4, <1>5

\* Between two statements nothing is taken but blanks and comments.
LEMMA NothingTaken ==
  ASSUME current \in Seq(AllLines), NEW p, p = Gap \/ p = Comment, phase = "read",
         Takes(p.lines[1])
  PROVE  /\ phase' = "read" /\ delimiter' = delimiter
         /\ Stmts(current') = Stmts(current)
         /\ p = Gap => current' = current
<1>1. CASE p = Gap
  <2>1. p.lines[1].kind = "blank"
    BY <1>1, PieceLines, LineFields
  <2>2. SkipBlank(p.lines[1])
    BY <2>1 DEF Takes, TakeText, TakeDelimiter
  <2>3. QED
    BY <2>2 DEF SkipBlank
<1>2. CASE p = Comment
  <2>1. p.lines[1] = CommentLine /\ CommentLine.kind = "open" /\ CommentLine.of = NoStmt /\ p # Gap
    BY <1>2, PieceLines, LineFields
  <2>2. TakeText(CommentLine)
    BY <2>1 DEF Takes, SkipBlank, TakeDelimiter
  <2>3. phase' = "read" /\ delimiter' = delimiter /\ current' = Append(current, CommentLine)
    BY <2>1, <2>2 DEF TakeText
  <2>4. CommentLine \in AllLines
    BY DEF AllLines
  <2>5. Stmts(Append(current, CommentLine)) = Stmts(current)
    BY <2>1, <2>4, StmtsNext
  <2>6. QED
    BY <2>1, <2>3, <2>5
<1>3. QED
  BY <1>1, <1>2

\* Short sequences, one member after the other.
LEMMA Tuples ==
  ASSUME NEW x, NEW y, NEW z
  PROVE  /\ <<x>> = Append(<<>>, x)
         /\ <<x, y>> = Append(<<x>>, y)
         /\ <<x, y, z>> = Append(<<x, y>>, z)
<1>1. <<x>> = Append(<<>>, x)
  OBVIOUS
<1>2. <<x, y>> = Append(<<x>>, y)
  OBVIOUS
<1>3. <<x, y, z>> = Append(<<x, y>>, z)
  OBVIOUS
<1>4. QED
  BY <1>1, <1>2, <1>3

\* The lines between the two DELIMITERs.
LEMMA MiddleLines ==
  ASSUME NEW D, NEW ls \in Seq(D), Len(ls) = 5
  PROVE  /\ SubSeq(ls, 2, 1) = <<>>
         /\ \A n \in 1..3 : Append(SubSeq(ls, 2, n), ls[n + 1]) = SubSeq(ls, 2, n + 1)
         /\ SubSeq(ls, 2, 4) = <<ls[2], ls[3], ls[4]>>
<1> DEFINE s(n) == SubSeq(ls, 2, n)
<1>1. s(1) = <<>>
  OBVIOUS
<1>2. ASSUME NEW n \in 1..3
      PROVE  Append(s(n), ls[n + 1]) = s(n + 1)
  OBVIOUS
<1>3. s(4) = <<ls[2], ls[3], ls[4]>>
  <2> DEFINE x == ls[2]  y == ls[3]  z == ls[4]
  <2>1. /\ Append(s(1), ls[1 + 1]) = s(1 + 1)
        /\ Append(s(2), ls[2 + 1]) = s(2 + 1)
        /\ Append(s(3), ls[3 + 1]) = s(3 + 1)
    BY <1>2
  <2>2. 1 + 1 = 2 /\ 2 + 1 = 3 /\ 3 + 1 = 4
    OBVIOUS
  <2>3. Append(s(1), x) = s(2) /\ Append(s(2), y) = s(3) /\ Append(s(3), z) = s(4)
    BY <2>1, <2>2, Zenon
  <2>4. <<x>> = Append(<<>>, x) /\ <<x, y>> = Append(<<x>>, y) /\ <<x, y, z>> = Append(<<x, y>>, z)
    BY Tuples
  <2> HIDE DEF s, x, y, z
  <2>5. s(4) = <<x, y, z>>
    BY ONLY <1>1, <2>3, <2>4, Zenon
  <2>6. QED
    BY ONLY <2>5, Zenon DEF x, y, z
<1>4. QED
  BY <1>1, <1>2, <1>3

\* The next line of a statement on one line, on two lines, between delimiters.
LEMMA OneLineTaken ==
  ASSUME current \in Seq(AllLines), NEW s \in Said, NEW p, p = OneLine(s),
         delimiter = Default, Stmts(current) = <<>>, Takes(p.lines[1])
  PROVE  /\ InPiece(p, 1)'
         /\ Stmts(current) = current => Stmts(current') = current'
<1> DEFINE y == ShutLine(s)
<1>1. /\ Len(p.lines) = 1 /\ p.lines[1] = y /\ p.stmt # NoStmt
      /\ Statement(p) = <<y>>
  BY PieceLines, StatementLines, SaidHasOp, ZenonT(40)
<1>2. /\ delimiter' = ";" /\ phase' = "exec"
      /\ Stmts(current') = Append(<<>>, y)
      /\ Stmts(current) = current => Stmts(current') = current'
  BY <1>1, TextTaken DEF Default
<1>3. <<y>> = Append(<<>>, y)
  BY Tuples
<1> HIDE DEF y
<1>4. Stmts(current') = Statement(p)
  BY ONLY <1>1, <1>2, <1>3, Zenon
<1>5. InPiece(p, 1)'
  BY <1>1, <1>2, <1>4 DEF InPiece, Complete, Default
<1>6. QED
  BY <1>2, <1>5

LEMMA TwoLinesTaken ==
  ASSUME current \in Seq(AllLines), NEW s \in Said, NEW p, p = TwoLines(s), NEW n \in Nat,
         delimiter = Default, Takes(p.lines[n + 1]),
         (n = 0 /\ Stmts(current) = <<>>) \/ (n = 1 /\ Stmts(current) = <<p.lines[1]>>)
  PROVE  /\ InPiece(p, n + 1)'
         /\ Stmts(current) = current => Stmts(current') = current'
<1> DEFINE x == OpenLine(s)
           y == ShutLine(s)
<1>1. /\ Len(p.lines) = 2 /\ p.lines[1] = x /\ p.lines[2] = y /\ p.stmt # NoStmt
      /\ Statement(p) = <<x, y>>
  BY PieceLines, StatementLines, SaidHasOp, ZenonT(40)
<1>2. x # y
  BY LineFields
<1>3. <<x>> = Append(<<>>, x) /\ <<x, y>> = Append(<<x>>, y)
  BY Tuples
<1>4. CASE n = 0 /\ Stmts(current) = <<>>
  <2>1. n + 1 = 1 /\ p.lines[n + 1] = x
    BY <1>1, <1>4
  <2>2. /\ delimiter' = ";" /\ phase' = "read"
        /\ Stmts(current') = Append(<<>>, x)
        /\ Stmts(current) = current => Stmts(current') = current'
    BY <1>2, <1>4, <2>1, TextTaken DEF Default
  <2> HIDE DEF x, y
  <2>3. Stmts(current') = <<p.lines[1]>>
    BY ONLY <1>1, <1>3, <2>2, Zenon
  <2>4. InPiece(p, n + 1)'
    BY <1>1, <2>1, <2>2, <2>3 DEF InPiece, Halfway, Default
  <2>5. QED
    BY <2>2, <2>4
<1>5. CASE n = 1 /\ Stmts(current) = <<p.lines[1]>>
  <2>1. n + 1 = 2 /\ p.lines[n + 1] = y
    BY <1>1, <1>5
  <2>2. /\ delimiter' = ";" /\ phase' = "exec"
        /\ Stmts(current') = Append(<<x>>, y)
        /\ Stmts(current) = current => Stmts(current') = current'
    BY <1>1, <1>5, <2>1, TextTaken DEF Default
  <2> HIDE DEF x, y
  <2>3. Stmts(current') = Statement(p)
    BY ONLY <1>1, <1>3, <2>2, Zenon
  <2>4. InPiece(p, n + 1)'
    BY <1>1, <2>1, <2>2, <2>3 DEF InPiece, Complete, Default
  <2>5. QED
    BY <2>2, <2>4
<1>6. QED
  BY <1>4, <1>5

\* What is between delimiters: the first DELIMITER, the body, the last DELIMITER.
LEMMA DelimitedLines ==
  ASSUME NEW s \in Said, NEW p, p = Delimited(s)
  PROVE  /\ Len(p.lines) = 5 /\ p.stmt # NoStmt
         /\ p.lines[1] = DelimiterLine(";;") /\ p.lines[5] = DelimiterLine(";")
         /\ \A m \in 1..3 : p.lines[m + 1] = OpenLine(s) \/ p.lines[m + 1] = ShutLine(s)
         /\ Body(p, 1) = <<>>
         /\ \A m \in 1..3 :
              Append(Body(p, m), p.lines[m + 1]) = Body(p, m + 1)
         /\ Body(p, 4) = Statement(p) /\ Statement(p) # <<>>
<1> DEFINE x == OpenLine(s)
           y == ShutLine(s)
           ls == p.lines
           part(m) == SubSeq(ls, 2, m)
<1>1. /\ Len(ls) = 5 /\ ls[1] = DelimiterLine(";;") /\ ls[5] = DelimiterLine(";")
      /\ ls[2] = x /\ ls[3] = y /\ ls[4] = y
      /\ p.stmt # NoStmt /\ Statement(p) = <<x, y, y>>
  BY PieceLines, StatementLines, SaidHasOp, ZenonT(40)
<1>2. p \in AllPieces
  BY DEF AllPieces
<1>3. ls \in Seq(AllLines)
  BY <1>2, LinesTyped
<1>4. /\ part(1) = <<>>
      /\ \A m \in 1..3 : Append(part(m), ls[m + 1]) = part(m + 1)
      /\ part(4) = <<ls[2], ls[3], ls[4]>>
  BY <1>1, <1>3, MiddleLines
<1>5. \A m \in 1..3 : ls[m + 1] = x \/ ls[m + 1] = y
  <2> HIDE DEF x, y, ls
  <2>1. \A m \in 1..3 : m + 1 = 2 \/ m + 1 = 3 \/ m + 1 = 4
    OBVIOUS
  <2>2. QED
    BY ONLY <1>1, <2>1, Zenon
<1>6. Statement(p) # <<>>
  <2> HIDE DEF x, y
  <2>1. <<x, y, y>> # <<>>
    OBVIOUS
  <2>2. QED
    BY ONLY <1>1, <2>1, Zenon
<1>7. part(4) = Statement(p)
  <2> HIDE DEF x, y, ls, part
  <2>1. QED
    BY ONLY <1>1, <1>4, Zenon
<1>8. QED
  BY <1>1, <1>4, <1>5, <1>6, <1>7 DEF Body

LEMMA DelimitedOpened ==
  ASSUME NEW s \in Said, NEW p, p = Delimited(s), phase = "read",
         Stmts(current) = <<>>, Takes(p.lines[1])
  PROVE  /\ InPiece(p, 1)'
         /\ Stmts(current) = current => Stmts(current') = current'
<1> DEFINE z == DelimiterLine(";;")
<1>1. z.kind = "delimiter" /\ z.to = ";;"
  BY LineFields
<1>2. Len(p.lines) = 5 /\ p.lines[1] = z /\ Body(p, 1) = <<>>
  BY DelimitedLines
<1> HIDE DEF z
<1>3. TakeDelimiter(z)
  BY <1>1, <1>2 DEF Takes, SkipBlank, TakeText
<1>4. delimiter' = ";;" /\ current' = current /\ phase' \in {"read", "exec"}
  BY <1>1, <1>3 DEF TakeDelimiter
<1>5. Stmts(current') = Body(p, 1) /\ Stmts(current') = <<>>
  BY <1>2, <1>4
<1>6. Within(p, 1)'
  <2>1. 1 \in 1..4
    OBVIOUS
  <2>2. QED
    BY ONLY <1>2, <1>4, <1>5, <2>1 DEF Within
<1>7. QED
  BY <1>4, <1>6 DEF InPiece

LEMMA BodyTaken ==
  ASSUME current \in Seq(AllLines), NEW s \in Said, NEW p, p = Delimited(s), NEW n \in 1..3,
         delimiter = ";;", Stmts(current) = Body(p, n), Takes(p.lines[n + 1])
  PROVE  /\ InPiece(p, n + 1)'
         /\ Stmts(current) = current => Stmts(current') = current'
<1>1. /\ Len(p.lines) = 5
      /\ p.lines[n + 1] = OpenLine(s) \/ p.lines[n + 1] = ShutLine(s)
      /\ Append(Body(p, n), p.lines[n + 1]) = Body(p, n + 1)
  BY DelimitedLines
<1>2. /\ delimiter' = ";;" /\ phase' = "read"
      /\ Stmts(current') = Append(Stmts(current), p.lines[n + 1])
      /\ Stmts(current) = current => Stmts(current') = current'
  BY <1>1, TextTaken
<1>3. n + 1 \in 1..4
  BY ONLY n \in 1..3
<1>4. Stmts(current') = Body(p, n + 1)
  BY <1>1, <1>2
<1>5. InPiece(p, n + 1)'
  BY <1>1, <1>2, <1>3, <1>4 DEF InPiece, Within
<1>6. QED
  BY <1>2, <1>5

LEMMA DelimitedShut ==
  ASSUME NEW s \in Said, NEW p, p = Delimited(s),
         Stmts(current) = Body(p, 4), Takes(p.lines[5])
  PROVE  /\ InPiece(p, 5)'
         /\ Stmts(current) = current => Stmts(current') = current'
<1> DEFINE u == DelimiterLine(";")
<1>1. u.kind = "delimiter" /\ u.to = ";"
  BY LineFields
<1>2. /\ Len(p.lines) = 5 /\ p.lines[5] = u /\ p.stmt # NoStmt
      /\ Body(p, 4) = Statement(p) /\ Statement(p) # <<>>
  BY DelimitedLines
<1> HIDE DEF u
<1>3. TakeDelimiter(u)
  BY <1>1, <1>2 DEF Takes, SkipBlank, TakeText
<1>4. current # <<>>
  BY <1>2, StmtsNext
<1>5. delimiter' = ";" /\ current' = current /\ phase' = "exec"
  BY <1>1, <1>3, <1>4 DEF TakeDelimiter
<1>6. Stmts(current') = Statement(p)
  BY <1>2, <1>5
<1>7. InPiece(p, 5)'
  BY <1>2, <1>5, <1>6 DEF InPiece, Complete, Default
<1>8. QED
  BY <1>5, <1>7

LEMMA PieceTaken ==
  ASSUME current \in Seq(AllLines), phase = "read", NEW p \in AllPieces, p.stmt # NoStmt,
         NEW n \in Nat, n + 1 \in 1..Len(p.lines), Takes(p.lines[n + 1]),
         (n = 0 /\ delimiter = Default /\ Stmts(current) = <<>>) \/ InPiece(p, n)
  PROVE  /\ InPiece(p, n + 1)'
         /\ Stmts(current) = current => Stmts(current') = current'
<1>1. ASSUME NEW s \in Said, p = OneLine(s)
      PROVE  InPiece(p, n + 1)' /\ (Stmts(current) = current => Stmts(current') = current')
  <2>1. Len(p.lines) = 1
    BY <1>1, PieceLines
  <2>2. n = 0 /\ n + 1 = 1
    BY <2>1
  <2>3. delimiter = Default /\ Stmts(current) = <<>>
    BY <2>1, <2>2 DEF InPiece, Complete, Halfway, Within
  <2>4. QED
    BY <1>1, <2>2, <2>3, OneLineTaken
<1>2. ASSUME NEW s \in Said, p = TwoLines(s)
      PROVE  InPiece(p, n + 1)' /\ (Stmts(current) = current => Stmts(current') = current')
  <2>1. Len(p.lines) = 2
    BY <1>2, PieceLines
  <2>2. /\ delimiter = Default
        /\ (n = 0 /\ Stmts(current) = <<>>) \/ (n = 1 /\ Stmts(current) = <<p.lines[1]>>)
    BY <2>1 DEF InPiece, Complete, Halfway, Within
  <2>3. QED
    BY <1>2, <2>2, TwoLinesTaken
<1>3. ASSUME NEW s \in Said, p = Delimited(s)
      PROVE  InPiece(p, n + 1)' /\ (Stmts(current) = current => Stmts(current') = current')
  <2>1. Len(p.lines) = 5
    BY <1>3, PieceLines
  <2>2. CASE n = 0 /\ delimiter = Default /\ Stmts(current) = <<>>
    <3>1. n + 1 = 1
      BY ONLY <2>2
    <3>2. QED
      BY <1>3, <2>2, <3>1, DelimitedOpened
  <2>3. CASE InPiece(p, n)
    <3>1. n \in 1..4 /\ delimiter = ";;" /\ Stmts(current) = Body(p, n)
      <4>1. Within(p, n)
        BY ONLY <2>1, <2>3, phase = "read" DEF InPiece, Complete, Halfway
      <4>2. QED
        BY ONLY <4>1, phase = "read" DEF Within
    <3>3. CASE n \in 1..3
      BY <1>3, <3>1, <3>3, BodyTaken
    <3>4. CASE n = 4
      <4>1. n + 1 = 5
        BY ONLY <3>4
      <4>2. QED
        BY <1>3, <3>1, <3>4, <4>1, DelimitedShut
    <3>5. n \in 1..3 \/ n = 4
      <4>1. \A m \in 1..4 : m \in 1..3 \/ m = 4
        BY ONLY TRUE
      <4>2. QED
        BY ONLY <3>1, <4>1, Zenon
    <3>6. QED
      BY <3>3, <3>4, <3>5
  <2>4. QED
    BY <2>2, <2>3
<1>4. p # Gap /\ p # Comment
  BY PieceLines
<1>5. QED
  BY <1>1, <1>2, <1>3, <1>4, PieceKinds

---------------------------------------------------------------------------
(* The steps. *)

\* Which pieces are not statements.
LEMMA PieceStmt ==
  ASSUME NEW p \in AllPieces
  PROVE  /\ p.stmt = NoStmt => (p = Gap \/ p = Comment) /\ Len(p.lines) = 1
         /\ p.stmt # NoStmt => p # Gap /\ p # Comment /\ p.stmt \in Said
         /\ Len(p.lines) \in {1, 2, 5}
         /\ Len(p.lines) # 1 => p.stmt # NoStmt
<1>1. ASSUME p = Gap \/ p = Comment
      PROVE  p.stmt = NoStmt /\ Len(p.lines) = 1
  BY <1>1, PieceLines
<1>2. ASSUME NEW s \in Said, p = OneLine(s) \/ p = TwoLines(s) \/ p = Delimited(s)
      PROVE  p.stmt = s /\ s # NoStmt
  BY <1>2, PieceLines, SaidHasOp
<1>3. (p = Gap \/ p = Comment)
      \/ \E s \in Said : p = OneLine(s) \/ p = TwoLines(s) \/ p = Delimited(s)
  BY PieceKinds
<1>4. Len(p.lines) \in {1, 2, 5}
  BY LinesTyped
<1>5. QED
  BY <1>1, <1>2, <1>3, <1>4, Zenon

\* Within a piece there is a line to come.
LEMMA LineToCome ==
  ASSUME NEW p \in AllPieces, NEW m, phase = "read", InPiece(p, m)
  PROVE  m \in Nat /\ m + 1 \in 1..Len(p.lines) /\ p.stmt # NoStmt
<1>1. Halfway(p, m) \/ Within(p, m)
  BY DEF InPiece, Complete
<1>2. (m = 1 /\ Len(p.lines) = 2) \/ (m \in 1..4 /\ Len(p.lines) = 5)
  BY <1>1 DEF Halfway, Within
<1>3. /\ 1 \in Nat /\ 1 + 1 \in 1..2 /\ \A x \in 1..4 : x \in Nat /\ x + 1 \in 1..5
      /\ 2 # 1 /\ 5 # 1
  OBVIOUS
<1>4. Len(p.lines) # 1 => p.stmt # NoStmt
  BY PieceStmt
<1>5. QED
  BY ONLY <1>2, <1>3, <1>4, Zenon

\* A line that is read.
LEMMA ReadScans ==
  ASSUME TypedInv, file \in 1..Len(backup), Read,
         NEW ps, ps = PiecesOf(file), NEW k \in 0..Len(ps), Scanned(ps, k)
  PROVE  \E j \in 0..Len(ps) : Scanned(ps, j)'
<1>1. ps \in Seq(AllPieces) /\ Lines(file) = Text(ps)
  BY TheFile DEF TypedInv
<1>2. Len(ps) \in Nat /\ k \in Nat
  BY <1>1
<1>3. /\ phase = "read" /\ pos < Len(Text(ps)) /\ pos' = pos + 1
      /\ Takes(Text(ps)[pos + 1])
      /\ UNCHANGED <<restore, file, sent>> /\ UNCHANGED server
  BY <1>1 DEF Read, Takes
<1>4. /\ current \in Seq(AllLines)
      /\ Executed(sent) = Statements(First(ps, k))
      /\ Restored(ps, k, file) /\ SelectedAt(ps, k)
      /\ Fresh(ps, k) => Stmts(current) = current
  BY <1>3 DEF TypedInv, Scanned
<1>0. pos \in Nat
  <2>1. pos \in 0..Len(Text(ps))
    BY <1>1, <1>3 DEF TypedInv, TypeOK
  <2>2. Len(Text(ps)) \in Nat
    BY <1>1, WholeText
  <2>3. QED
    BY ONLY <2>1, <2>2
<1>5. k # Len(ps)
  <2>1. SUFFICES ASSUME k = Len(ps) PROVE FALSE
    OBVIOUS
  <2>2. pos = Before(ps, Len(ps))
    BY <1>2, <1>3, <2>1 DEF Scanned, Place
  <2>3. Before(ps, Len(ps)) = Len(Text(ps)) /\ Len(Text(ps)) \in Nat
    BY <1>1, WholeText
  <2>4. QED
    BY <1>3, <2>2, <2>3
<1>6. k + 1 \in 1..Len(ps) /\ k + 1 \in 0..Len(ps)
  BY ONLY <1>2, <1>5, k \in 0..Len(ps)
<1> DEFINE p == ps[k + 1]
           b == Before(ps, k)
<1>7. /\ p \in AllPieces /\ b \in Nat
      /\ \A j \in 1..Len(p.lines) : Text(ps)[b + j] = p.lines[j]
      /\ Before(ps, k + 1) = b + Len(p.lines)
  BY <1>1, <1>2, <1>6, PlaceInText
<1>8. ASSUME NEW j \in {k, k + 1}
      PROVE  /\ (Executed(sent) = Statements(First(ps, j)))' = (Executed(sent) = Statements(First(ps, j)))
             /\ Restored(ps, j, file)' = Restored(ps, j, file)
             /\ SelectedAt(ps, j)' = SelectedAt(ps, j)
  BY <1>3, KeptByReading
<1>9. CASE pos = b /\ delimiter = Default /\ Stmts(current) = <<>> /\ p.stmt = NoStmt
  <2>1. (p = Gap \/ p = Comment) /\ Len(p.lines) = 1
    BY <1>7, <1>9, PieceStmt
  <2>2. Text(ps)[pos + 1] = p.lines[1]
    BY <1>7, <1>9, <2>1
  <2>3. /\ phase' = "read" /\ delimiter' = Default /\ Stmts(current') = <<>>
        /\ p = Gap => current' = current
    BY <1>3, <1>4, <1>9, <2>1, <2>2, NothingTaken
  <2>4. pos' = Before(ps, k + 1)
    BY <1>3, <1>7, <1>9, <2>1
  <2>5. Place(ps, k + 1)'
    BY <2>3, <2>4 DEF Place
  <2>6. Executed(sent) = Statements(First(ps, k + 1))
    BY <1>1, <1>2, <1>4, <1>6, <1>9, StatementsAfter
  <2>7. /\ Restored(ps, k + 1, file) /\ SelectedAt(ps, k + 1)
        /\ p = Gap /\ Fresh(ps, k + 1) => Fresh(ps, k)
        /\ p = Comment => ~Fresh(ps, k + 1)
    BY <1>1, <1>2, <1>4, <1>6, <1>9, PastNothing
  <2>8. Fresh(ps, k + 1) => Stmts(current') = current'
    BY <1>4, <2>1, <2>3, <2>7
  <2>9. /\ Restored(ps, k + 1, file)' /\ SelectedAt(ps, k + 1)'
        /\ (Executed(sent) = Statements(First(ps, k + 1)))'
    BY <1>8, <2>6, <2>7
  <2>10. Scanned(ps, k + 1)'
    BY <2>5, <2>8, <2>9 DEF Scanned
  <2>11. QED
    BY <1>6, <2>10
<1>10. ASSUME NEW n \in Nat, n + 1 \in 1..Len(p.lines), pos = b + n, p.stmt # NoStmt,
              (n = 0 /\ delimiter = Default /\ Stmts(current) = <<>>) \/ InPiece(p, n)
       PROVE  Scanned(ps, k)'
  <2>1. pos + 1 = b + (n + 1)
    BY <1>7, <1>10
  <2>2. Takes(p.lines[n + 1])
    BY <1>3, <1>7, <1>10, <2>1
  <2>3. /\ InPiece(p, n + 1)'
        /\ Stmts(current) = current => Stmts(current') = current'
    <3> HIDE DEF p, b
    <3>1. QED
      BY <1>3, <1>4, <1>7, <1>10, <2>2, PieceTaken
  <2>4. pos' - b = n + 1
    BY <1>3, <1>7, <2>1
  <2>5. InPiece(p, pos - b)'
    <3> HIDE DEF p, b
    <3>1. QED
      BY <2>3, <2>4
  <2>6. Place(ps, k)'
    BY <1>6, <2>5 DEF Place
  <2>7. /\ Restored(ps, k, file)' /\ SelectedAt(ps, k)'
        /\ (Executed(sent) = Statements(First(ps, k)))'
    BY <1>4, <1>8
  <2>8. QED
    BY <1>4, <2>3, <2>6, <2>7 DEF Scanned
<1>11. CASE pos = b /\ delimiter = Default /\ Stmts(current) = <<>> /\ p.stmt # NoStmt
  <2>1. 0 + 1 \in 1..Len(p.lines) /\ pos = b + 0
    <3>1. Len(p.lines) \in {1, 2, 5}
      BY <1>7, PieceStmt
    <3>2. (\A x \in {1, 2, 5} : 0 + 1 \in 1..x) /\ (\A x \in Nat : x + 0 = x)
      OBVIOUS
    <3> HIDE DEF p, b
    <3>3. QED
      BY ONLY <1>7, <1>11, <3>1, <3>2, Zenon
  <2>2. QED
    BY <1>10, <1>11, <2>1
<1>12. CASE InPiece(p, pos - b)
  <2> DEFINE m == pos - b
  <2>1. m \in Nat /\ m + 1 \in 1..Len(p.lines) /\ p.stmt # NoStmt
    BY <1>3, <1>7, <1>12, LineToCome
  <2>2. pos = b + m
    <3> HIDE DEF p, b
    <3>1. QED
      BY ONLY <1>0, <1>3, <1>7
  <2>3. QED
    BY <1>10, <1>12, <2>1, <2>2
<1>13. QED
  BY <1>3, <1>5, <1>9, <1>11, <1>12 DEF Scanned, Place

\* The statement of a piece, and what it is about.
LEMMA PieceStatement ==
  ASSUME NEW p \in AllPieces, p.stmt # NoStmt
  PROVE  /\ Statement(p) # <<>> /\ Statement(p)[1].of = p.stmt
         /\ \A s : p = OneLine(s) => Len(Statement(p)) = 1
         /\ Len(p.lines) = 5 => Body(p, 1) = <<>>
<1>1. ASSUME NEW s \in Said, p = OneLine(s)
      PROVE  /\ Statement(p) # <<>> /\ Statement(p)[1].of = p.stmt
             /\ Len(Statement(p)) = 1 /\ Len(p.lines) = 1
  <2> DEFINE t == <<ShutLine(s)>>
  <2>1. Statement(p) = t /\ p.stmt = s /\ Len(p.lines) = 1
    BY <1>1, StatementLines, PieceLines
  <2>2. t # <<>> /\ Len(t) = 1 /\ t[1] = ShutLine(s)
    OBVIOUS
  <2> HIDE DEF t
  <2>3. QED
    BY <2>1, <2>2, LineFields, Zenon
<1>2. ASSUME NEW s \in Said, p = TwoLines(s)
      PROVE  /\ Statement(p) # <<>> /\ Statement(p)[1].of = p.stmt
             /\ Len(p.lines) = 2
  <2> DEFINE t == <<OpenLine(s), ShutLine(s)>>
  <2>1. Statement(p) = t /\ p.stmt = s /\ Len(p.lines) = 2
    BY <1>2, StatementLines, PieceLines
  <2>2. t # <<>> /\ t[1] = OpenLine(s)
    OBVIOUS
  <2> HIDE DEF t
  <2>3. QED
    BY <2>1, <2>2, LineFields, Zenon
<1>3. ASSUME NEW s \in Said, p = Delimited(s)
      PROVE  /\ Statement(p) # <<>> /\ Statement(p)[1].of = p.stmt
             /\ Body(p, 1) = <<>> /\ Len(p.lines) = 5
  <2> DEFINE t == <<OpenLine(s), ShutLine(s), ShutLine(s)>>
  <2>1. Statement(p) = t /\ p.stmt = s
    BY <1>3, StatementLines, PieceLines
  <2>2. t # <<>> /\ t[1] = OpenLine(s)
    OBVIOUS
  <2>3. Body(p, 1) = <<>> /\ Len(p.lines) = 5
    BY <1>3, DelimitedLines
  <2> HIDE DEF t
  <2>4. QED
    BY <2>1, <2>2, <2>3, LineFields, Zenon
<1>4. p # Gap /\ p # Comment
  BY PieceLines
<1>5. \/ \E s \in Said : p = OneLine(s)
      \/ \E s \in Said : p = TwoLines(s)
      \/ \E s \in Said : p = Delimited(s)
  BY <1>4, PieceKinds
<1>6. \A s : p = OneLine(s) => Len(p.lines) = 1
  BY PieceLines, ZenonT(40)
<1>7. 2 # 1 /\ 5 # 1 /\ 5 # 2
  OBVIOUS
<1>8. QED
  BY <1>1, <1>2, <1>3, <1>5, <1>6, <1>7, Zenon

\* The USEs of a file are of its schema, on one line.
LEMMA UsePiece ==
  ASSUME restore \in Restores, file \in 1..Len(backup), NEW ps, ps = PiecesOf(file),
         NEW i \in 1..Len(ps), ps[i].stmt.op = "use"
  PROVE  ps[i] = OneLine(Stmt("use", backup[file].schema.db))
         /\ ps[i].stmt.obj = backup[file].schema.db
<1> DEFINE schema == backup[file].schema
           opts == backup[file].opts
<1>1. Proper(schema)
  BY TheFile
<1>2. ps \in Seq(PieceSet(schema, opts))
  BY <1>1, PiecesTyped DEF PiecesOf
<1> DEFINE p == ps[i]
<1>3. p \in PieceSet(schema, opts)
  BY <1>2
<1> HIDE DEF schema, opts
<1>4. p # Gap /\ p # Comment
  BY SaidHasOp, PieceLines
<1>5. ASSUME NEW s \in Doubles(schema), p = TwoLines(s)
      PROVE  FALSE
  <2>1. p.stmt = s
    BY <1>5, PieceLines
  <2>2. s.op # "use"
    BY DEF Doubles, Stmt
  <2>3. QED
    BY <2>1, <2>2
<1>6. ASSUME NEW s \in Wrapped(schema, opts), p = Delimited(s)
      PROVE  FALSE
  <2>1. p.stmt = s
    BY <1>6, PieceLines
  <2>2. (\E name : s = Created(name)) \/ (\E name : s = Stmt("routine", name))
    BY DEF Wrapped
  <2>3. \A name : Created(name).op = "trigger" /\ Stmt("routine", name).op = "routine"
    BY DEF Created, Stmt
  <2>4. s.op # "use"
    BY <2>2, <2>3
  <2>5. QED
    BY <2>1, <2>4
<1>7. PICK s \in Singles(schema) : p = OneLine(s)
  BY <1>3, <1>4, <1>5, <1>6 DEF PieceSet
<1>8. p.stmt = s
  BY <1>7 DEF OneLine
<1>9. s = Stmt("use", schema.db)
  BY <1>8 DEF Singles, Stmt, Setting
<1>10. s.obj = schema.db
  BY <1>9 DEF Stmt
<1>11. QED
  BY <1>7, <1>8, <1>9, <1>10 DEF schema

\* What is there stays there.
LEMMA RestoredKept ==
  ASSUME landed \subseteq landed', NEW ps, NEW n, NEW f, Restored(ps, n, f)
  PROVE  Restored(ps, n, f)'
BY DEF Restored, IsThere

LEMMA ExecKeeps ==
  ASSUME Exec
  PROVE  landed \subseteq landed'
BY DEF Exec, Effect, server

\* A statement has the three fields.
LEMMA SaidRecords ==
  ASSUME NEW s \in Said
  PROVE  \E op, obj, timing : s = [op |-> op, obj |-> obj, timing |-> timing]
<1>1. PICK r \in Restores :
        \E f \in 1..Len(r.files) : s \in SaidIn(r.files[f].schema, r.files[f].opts)
  BY DEF Said
<1>0. PICK f \in 1..Len(r.files) : s \in SaidIn(r.files[f].schema, r.files[f].opts)
  BY <1>1
<1> DEFINE schema == r.files[f].schema
           opts == r.files[f].opts
<1>2. s \in Singles(schema) \/ s \in Doubles(schema) \/ s \in Wrapped(schema, opts)
  BY <1>0 DEF SaidIn
<1> HIDE DEF schema, opts
<1>3. (\E op, obj : s = Stmt(op, obj)) \/ \E name : s = Created(name)
  <2>1. CASE s \in Singles(schema)
    BY <2>1 DEF Singles, Setting
  <2>2. CASE s \in Doubles(schema)
    BY <2>2 DEF Doubles
  <2>3. CASE s \in Wrapped(schema, opts)
    BY <2>3 DEF Wrapped
  <2>4. QED
    BY <1>2, <2>1, <2>2, <2>3
<1>4. \A name : Created(name) = [op |-> "trigger", obj |-> name, timing |-> "AFTER"]
  BY DEF Created, Stmt
<1>5. \A op, obj : Stmt(op, obj) = [op |-> op, obj |-> obj, timing |-> "none"]
  BY DEF Stmt
<1>6. QED
  BY <1>3, <1>4, <1>5, Zenon

\* What the server is sent for the statement of a piece: it differs in the schema of a CREATE
\* DATABASE or USE only, and the USE is of the schema to restore into.
LEMMA WhatRuns ==
  ASSUME TypedInv, file \in 1..Len(backup), Exec, phase = "exec",
         NEW ps, ps = PiecesOf(file), NEW k \in Nat, k + 1 \in 1..Len(ps), Scanned(ps, k),
         Stmts(current) = Statement(ps[k + 1]), ps[k + 1].stmt # NoStmt
  PROVE  \E s :
           /\ Accepts(s) /\ Effect(s) /\ s.op = ps[k + 1].stmt.op
           /\ s.op \notin {"create", "use"} => s = ps[k + 1].stmt
           /\ Targeted(restore) /\ s.op = "use" => s.obj = Target
<1> DEFINE p == ps[k + 1]
           t == p.stmt
           s == Rewritten(current)
           schema == backup[file].schema
           opts == backup[file].opts
           db == schema.db
<1>1. /\ ps \in Seq(AllPieces) /\ Proper(schema)
      /\ ps = Pieces(schema, opts)
  BY TheFile DEF TypedInv, PiecesOf
<1>2. p \in AllPieces
  BY <1>1
<1>3. t \in Said
  BY <1>2, PieceStmt
<1>4. /\ Statement(p) # <<>> /\ Statement(p)[1].of = t
      /\ \A x : p = OneLine(x) => Len(Statement(p)) = 1
  BY <1>2, PieceStatement
<1>5. Accepts(s) /\ Effect(s)
  BY <1>4 DEF Exec
<1> HIDE DEF p, t
<1>6. s = IF Len(current) = 1 /\ t.op \in {"create", "use"} THEN [t EXCEPT !.obj = Mapped(@)] ELSE t
  BY <1>4 DEF Rewritten, p
<1> HIDE DEF s
<1>7. PICK op, obj, timing : t = [op |-> op, obj |-> obj, timing |-> timing]
  BY <1>3, SaidRecords
<1>8. /\ [t EXCEPT !.obj = Mapped(@)].op = t.op
      /\ [t EXCEPT !.obj = Mapped(@)].obj = Mapped(t.obj)
  BY <1>7
<1>9. s.op = t.op /\ (s.op \notin {"create", "use"} => s = t)
  BY <1>6, <1>8
<1>10. ASSUME Targeted(restore), s.op = "use"
       PROVE  s.obj = Target
  <2>1. p = OneLine(Stmt("use", db)) /\ t.obj = db
    BY <1>9, <1>10, UsePiece DEF TypedInv, p, t
  <2>2. Target = Mapped(db)
    BY DEF Target
  <2>3. /\ ~opts.suppressUse
        /\ \/ opts.compact \/ schema.views = <<>>
           \/ db \notin DOMAIN restore.map
           \/ restore.map[db] = db
    BY <1>10 DEF Targeted, backup
  <2>4. CASE opts.compact \/ schema.views = <<>>
    <3>1. FreshUses(ps)
      BY <1>1, <2>3, <2>4, PiecesOrder
    <3>2. Fresh(ps, k)
      BY <1>9, <1>10, <3>1 DEF FreshUses, p, t
    <3>3. Stmts(current) = current
      BY <3>2 DEF Scanned
    <3>4. Len(current) = 1
      BY <1>4, <2>1, <3>3 DEF p
    <3>5. QED
      BY <1>6, <1>8, <1>9, <1>10, <2>1, <2>2, <3>4
  <2>5. CASE db \notin DOMAIN restore.map \/ restore.map[db] = db
    <3>1. Mapped(db) = db
      BY <2>5 DEF Mapped
    <3>2. QED
      BY <1>6, <1>8, <2>1, <2>2, <3>1
  <2>6. QED
    BY <2>3, <2>4, <2>5
<1>11. QED
  BY <1>5, <1>9, <1>10 DEF p, t

\* What an executed statement does to the server: what it creates is there, in the schema to
\* restore into if each file has a USE in front, and nothing is if none has.
LEMMA StatementLands ==
  ASSUME TypedInv, TargetInv, file \in 1..Len(backup), Exec, phase = "exec",
         NEW ps, ps = PiecesOf(file), NEW k \in Nat, k + 1 \in 1..Len(ps), Scanned(ps, k),
         Stmts(current) = Statement(ps[k + 1]), ps[k + 1].stmt # NoStmt
  PROVE  /\ Restored(ps, k + 1, file)'
         /\ SelectedAt(ps, k + 1)'
         /\ TargetInv'
<1> DEFINE p == ps[k + 1]
           t == p.stmt
<1>1. PICK s :
        /\ Accepts(s) /\ Effect(s) /\ s.op = t.op
        /\ s.op \notin {"create", "use"} => s = t
        /\ Targeted(restore) /\ s.op = "use" => s.obj = Target
  BY WhatRuns
<1>2. /\ UNCHANGED <<restore, file>> /\ backup' = backup /\ Target' = Target
      /\ ps' = ps
  BY DEF Exec, backup, Target, Mapped
<1>3. /\ ps \in Seq(AllPieces)
      /\ ps = Pieces(backup[file].schema, backup[file].opts) /\ Proper(backup[file].schema)
  BY TheFile DEF TypedInv, PiecesOf
<1>4. \A i \in 1..(k + 1) : i \in 1..k \/ i = k + 1
  OBVIOUS
<1>5. Restored(ps, k, file) /\ SelectedAt(ps, k)
  BY DEF Scanned
<1>6. \A i \in 1..k : i \in 1..Len(ps)
  BY <1>3
<1> HIDE DEF p, t
<1>7. Restored(ps, k + 1, file)'
  <2>1. Restored(ps, k, file)'
    BY <1>2, <1>5, ExecKeeps, RestoredKept
  <2>2. t.op \in Landing => IsThere(t, file)'
    <3>1. SUFFICES ASSUME t.op \in Landing PROVE IsThere(t, file)'
      OBVIOUS
    <3>2. s = t /\ s.op \in {"table", "trigger", "routine", "view"}
      BY <1>1, <3>1 DEF Landing
    <3> DEFINE l == [op |-> s.op, obj |-> s.obj, timing |-> s.timing, db |-> selected, file |-> file]
    <3>3. l \in landed'
      BY <1>1, <3>2 DEF Effect
    <3>4. l.op = t.op /\ l.obj = t.obj /\ l.file = file
      BY <3>2
    <3> HIDE DEF l
    <3>5. QED
      BY <1>2, <3>3, <3>4 DEF IsThere
  <2>3. QED
    BY <1>4, <2>1, <2>2 DEF Restored, p, t
<1>8. CASE Suppressed(restore)
  <2>1. selected = NoSchema /\ landed = {}
    BY <1>8 DEF TargetInv
  <2>2. \A i \in 1..k : ps[i].stmt.op \notin InSchema
    BY <1>5, <1>8 DEF SelectedAt
  <2>3. t.op \notin InSchema
    BY <1>1, <2>1 DEF Accepts
  <2>4. t.op # "use"
    <3>1. LateUses(ps)
      BY <1>3, <1>8, PiecesOrder DEF Suppressed, backup
    <3>2. SUFFICES ASSUME t.op = "use" PROVE FALSE
      OBVIOUS
    <3>3. PICK i \in 1..((k + 1) - 1) : ps[i].stmt.op \in InSchema
      BY <3>1, <3>2 DEF LateUses, p, t
    <3>4. i \in 1..k
      OBVIOUS
    <3>5. QED
      BY <2>2, <3>3, <3>4
  <2>5. selected' = NoSchema /\ landed' = {}
    BY <1>1, <2>1, <2>3, <2>4 DEF Effect, InSchema
  <2>6. \A i \in 1..(k + 1) : ps[i].stmt.op \notin InSchema
    BY <1>4, <2>2, <2>3 DEF p, t
  <2>7. ~Targeted(restore) \/ LandsInTarget'
    BY <2>5 DEF LandsInTarget
  <2>8. TargetInv'
    BY <1>2, <2>5, <2>7 DEF TargetInv
  <2>9. ~Targeted(restore)
    BY <1>8 DEF Suppressed, Targeted, backup
  <2>10. SelectedAt(ps, k + 1)'
    BY <1>2, <2>6, <2>9 DEF SelectedAt
  <2>11. QED
    BY <1>7, <2>8, <2>10
<1>9. CASE Targeted(restore)
  <2>1. LandsInTarget /\ \A i \in 1..k : ps[i].stmt.op = "use" => selected = Target
    BY <1>5, <1>9 DEF TargetInv, SelectedAt
  <2>2. ~backup[file].opts.suppressUse
    BY <1>9 DEF Targeted, backup
  <2>3. ~Suppressed(restore)
    BY <2>2 DEF Suppressed, backup
  <2>4. \A i \in 1..(k + 1) : ps[i].stmt.op = "use" => selected' = Target
    BY <1>1, <1>4, <1>9, <2>1 DEF Effect, p, t
  <2>5. SelectedAt(ps, k + 1)'
    BY <1>2, <2>3, <2>4 DEF SelectedAt
  <2>6. ASSUME s.op \in Landing
        PROVE  selected = Target
    <3>1. Opened(ps)
      BY <1>3, <2>2, PiecesOrder
    <3>2. PICK h \in 1..Len(ps) : ps[h].stmt.op = "use" /\ \A i \in 1..h : ps[i].stmt.op \notin Landing
      BY <3>1 DEF Opened
    <3>3. k + 1 \notin 1..h
      BY <1>1, <2>6, <3>2 DEF p, t
    <3>4. h \in 1..k
      BY <3>3
    <3>5. QED
      BY <2>1, <3>2, <3>4
  <2>7. LandsInTarget'
    <3>1. SUFFICES ASSUME NEW l \in landed'
                   PROVE  l.db = Mapped(backup[l.file].schema.db)
      BY <1>2 DEF LandsInTarget, Mapped
    <3>2. CASE l \in landed
      BY <2>1, <3>2 DEF LandsInTarget
    <3>3. CASE l \notin landed
      <4>1. s.op \in Landing /\ l.db = selected /\ l.file = file
        BY <1>1, <3>1, <3>3 DEF Effect, Landing
      <4>2. QED
        BY <2>6, <4>1 DEF Target
    <3>4. QED
      BY <3>2, <3>3
  <2>8. QED
    BY <1>2, <1>7, <2>3, <2>5, <2>7 DEF TargetInv
<1>10. CASE ~Suppressed(restore) /\ ~Targeted(restore)
  BY <1>2, <1>7, <1>10 DEF TargetInv, SelectedAt
<1>11. QED
  BY <1>8, <1>9, <1>10

\* A comment by itself, or nothing at all, leaves the server as it is.
LEMMA NothingRuns ==
  ASSUME TypedInv, TargetInv, Exec, Stmts(current) = <<>>,
         NEW ps, NEW k, Executed(sent) = Statements(First(ps, k)),
         Restored(ps, k, file), SelectedAt(ps, k)
  PROVE  /\ UNCHANGED server
         /\ TargetInv'
         /\ (Executed(sent) = Statements(First(ps, k)))'
         /\ Restored(ps, k, file)' /\ SelectedAt(ps, k)'
<1>1. UNCHANGED server /\ UNCHANGED <<restore, file>> /\ sent' = Append(sent, current)
  BY DEF Exec
<1>2. Executed(sent') = Executed(sent)
  BY <1>1, ExecutedNext DEF TypedInv
<1>3. TargetInv'
  BY <1>1 DEF TargetInv, server, LandsInTarget, Mapped, backup
<1>4. Restored(ps, k, file)' /\ SelectedAt(ps, k)'
  BY <1>1 DEF server, Restored, IsThere, SelectedAt, Target, Mapped, backup
<1>5. QED
  BY <1>1, <1>2, <1>3, <1>4

\* The calls of tx.Exec.
LEMMA ExecScans ==
  ASSUME TypedInv, TargetInv, file \in 1..Len(backup), Exec,
         NEW ps, ps = PiecesOf(file), NEW k \in 0..Len(ps), Scanned(ps, k)
  PROVE  /\ \E j \in 0..Len(ps) : Scanned(ps, j)'
         /\ TargetInv'
<1>1. ps \in Seq(AllPieces)
  BY TheFile DEF TypedInv
<1>2. Len(ps) \in Nat /\ k \in Nat
  BY <1>1
<1>3. /\ phase \in {"exec", "leftover"} /\ UNCHANGED <<restore, file, pos, delimiter>>
      /\ phase' = IF phase = "exec" THEN "read" ELSE "commit"
      /\ sent' = Append(sent, current) /\ current' = <<>>
  BY DEF Exec
<1>4. Stmts(current') = <<>> /\ Stmts(current') = current'
  BY <1>3, StmtsNext
<1>5. /\ Executed(sent) = Statements(First(ps, k))
      /\ Restored(ps, k, file) /\ SelectedAt(ps, k)
  BY DEF Scanned
<1> DEFINE p == ps[k + 1]
           b == Before(ps, k)
<1>6. CASE phase = "leftover"
  <2>1. k = Len(ps) /\ pos = b /\ Stmts(current) = <<>>
    BY <1>6 DEF Scanned, Place, InPiece, Complete, Halfway, Within
  <2>2. /\ TargetInv'
        /\ (Executed(sent) = Statements(First(ps, k)))'
        /\ Restored(ps, k, file)' /\ SelectedAt(ps, k)'
    BY <1>5, <2>1, NothingRuns
  <2>3. phase' = "commit" /\ pos' = b
    BY <1>3, <1>6, <2>1
  <2>4. Place(ps, k)'
    BY <2>1, <2>3 DEF Place
  <2>5. Scanned(ps, k)'
    BY <1>4, <2>2, <2>4 DEF Scanned
  <2>6. QED
    BY <2>2, <2>5
<1>7. CASE phase = "exec"
  <2>1. k < Len(ps) /\ InPiece(p, pos - b)
    BY <1>7 DEF Scanned, Place
  <2>2. k + 1 \in 1..Len(ps) /\ k + 1 \in 0..Len(ps)
    BY ONLY <1>2, <2>1
  <2>3. p \in AllPieces /\ b \in Nat /\ Before(ps, k + 1) = b + Len(p.lines)
    BY <1>1, <1>2, <2>2, PlaceInText
  <2>4. Complete(p, pos - b) \/ Within(p, pos - b)
    BY <1>7, <2>1 DEF InPiece, Halfway
  <2>5. CASE Within(p, pos - b)
    <3>1. Len(p.lines) = 5 /\ pos - b = 1 /\ delimiter = ";;" /\ Stmts(current) = <<>>
      BY <1>7, <2>5 DEF Within
    <3>2. p.stmt # NoStmt
      <4>1. 5 # 1
        OBVIOUS
      <4> HIDE DEF p, b
      <4>2. QED
        BY ONLY <2>3, <3>1, <4>1, PieceStmt, Zenon
    <3>3. Body(p, 1) = <<>>
      BY <2>3, <3>1, <3>2, PieceStatement
    <3>4. /\ TargetInv'
          /\ (Executed(sent) = Statements(First(ps, k)))'
          /\ Restored(ps, k, file)' /\ SelectedAt(ps, k)'
      BY <1>5, <3>1, NothingRuns
    <3> HIDE DEF p, b
    <3>5. Within(p, pos - b)'
      <4>1. phase' = "read" /\ delimiter' = ";;" /\ Stmts(current') = Body(p, 1) /\ pos' = pos
        BY <1>3, <1>4, <1>7, <3>1, <3>3
      <4>2. 1 \in 1..4
        OBVIOUS
      <4>3. Within(p, 1)'
        BY ONLY <3>1, <4>1, <4>2 DEF Within
      <4>4. QED
        BY <3>1, <4>1, <4>3
    <3>6. Place(ps, k)'
      BY <2>1, <3>5 DEF Place, InPiece, p, b
    <3>7. Scanned(ps, k)'
      BY <1>4, <3>4, <3>6 DEF Scanned
    <3>8. QED
      BY <3>4, <3>7
  <2>6. CASE Complete(p, pos - b)
    <3>1. /\ pos - b = Len(p.lines) /\ delimiter = Default
          /\ Stmts(current) = Statement(p) /\ p.stmt # NoStmt
      BY <2>6 DEF Complete
    <3>2. pos' = Before(ps, k + 1)
      <4>1. pos \in Nat
        <5>1. Lines(file) = Text(ps)
          BY TheFile DEF TypedInv
        <5>2. Len(Text(ps)) \in Nat
          BY <1>1, WholeText
        <5>3. pos \in 0..Len(Text(ps))
          BY <1>7, <5>1 DEF TypedInv, TypeOK
        <5>4. QED
          BY ONLY <5>2, <5>3
      <4> HIDE DEF p, b
      <4>2. Len(p.lines) \in Nat
        BY ONLY <2>3, PieceStmt
      <4>3. QED
        BY ONLY <1>3, <2>3, <3>1, <4>1, <4>2
    <3>3. /\ Restored(ps, k + 1, file)' /\ SelectedAt(ps, k + 1)' /\ TargetInv'
      BY <1>2, <1>7, <2>2, <3>1, StatementLands
    <3>4. (Executed(sent) = Statements(First(ps, k + 1)))'
      <4>1. Statement(p) # <<>>
        BY <2>3, <3>1, PieceStatement
      <4>2. Executed(sent') = Append(Executed(sent), Statement(p))
        BY <1>3, <3>1, <4>1, ExecutedNext DEF TypedInv
      <4>3. Statements(First(ps, k + 1)) = Append(Statements(First(ps, k)), Statement(p))
        BY <1>1, <1>2, <2>2, <3>1, StatementsAfter
      <4>4. QED
        BY <1>5, <4>2, <4>3
    <3>5. Place(ps, k + 1)'
      BY <1>3, <1>4, <1>7, <3>1, <3>2 DEF Place
    <3>6. Scanned(ps, k + 1)'
      BY <1>4, <3>3, <3>4, <3>5 DEF Scanned
    <3>7. QED
      BY <2>2, <3>3, <3>6
  <2>7. QED
    BY <2>4, <2>5, <2>6
<1>8. QED
  BY <1>3, <1>6, <1>7

\* The end of the file.
LEMMA EndScans ==
  ASSUME TypedInv, file \in 1..Len(backup), EndOfFile,
         NEW ps, ps = PiecesOf(file), NEW k \in 0..Len(ps), Scanned(ps, k)
  PROVE  Scanned(ps, k)'
<1>1. ps \in Seq(AllPieces) /\ Lines(file) = Text(ps)
  BY TheFile DEF TypedInv
<1>2. Len(ps) \in Nat /\ k \in Nat
  BY <1>1
<1>3. /\ phase = "read" /\ pos = Len(Text(ps))
      /\ phase' = IF current = <<>> THEN "commit" ELSE "leftover"
      /\ UNCHANGED <<restore, file, pos, delimiter, current, sent>> /\ UNCHANGED server
  BY <1>1 DEF EndOfFile
<1> DEFINE p == ps[k + 1]
           b == Before(ps, k)
<1>4. k = Len(ps)
  <2>1. SUFFICES ASSUME k # Len(ps) PROVE FALSE
    OBVIOUS
  <2>2. k + 1 \in 1..Len(ps)
    BY ONLY <1>2, <2>1, k \in 0..Len(ps)
  <2>3. /\ p \in AllPieces /\ b \in Nat
        /\ \A j \in 1..Len(p.lines) : b + j \in 1..Len(Text(ps))
    BY <1>1, <1>2, <2>2, PlaceInText
  <2>4. Len(p.lines) \in {1, 2, 5}
    BY <2>3, PieceStmt
  <2>5. \E n \in Nat : n + 1 \in 1..Len(p.lines) /\ pos - b = n
    <3>1. CASE pos = b
      <4>1. b - b = 0
        BY ONLY <2>3
      <4>2. \A x \in {1, 2, 5} : 0 + 1 \in 1..x
        OBVIOUS
      <4> HIDE DEF p, b
      <4>3. 0 \in Nat /\ 0 + 1 \in 1..Len(p.lines) /\ pos - b = 0
        BY ONLY <2>4, <3>1, <4>1, <4>2
      <4>4. QED
        BY <4>3
    <3>2. CASE InPiece(p, pos - b)
      BY <1>3, <2>3, <3>2, LineToCome
    <3>3. QED
      BY <1>3, <2>1, <3>1, <3>2 DEF Scanned, Place
  <2>6. PICK n \in Nat : n + 1 \in 1..Len(p.lines) /\ pos - b = n
    BY <2>5
  <2>7. b + (n + 1) <= Len(Text(ps)) /\ Len(Text(ps)) \in Nat
    <3>1. Len(Text(ps)) \in Nat
      BY <1>1, WholeText
    <3>2. b + (n + 1) \in 1..Len(Text(ps))
      BY <2>3, <2>6
    <3> HIDE DEF b
    <3>3. QED
      BY ONLY <3>1, <3>2
  <2> HIDE DEF p, b
  <2>8. QED
    BY ONLY <1>3, <2>3, <2>6, <2>7
<1>5. pos = b /\ Stmts(current) = <<>>
  BY <1>2, <1>3, <1>4 DEF Scanned, Place
<1>6. Place(ps, k)'
  BY <1>3, <1>4, <1>5 DEF Place
<1>7. /\ (Executed(sent) = Statements(First(ps, k)))'
      /\ Restored(ps, k, file)' /\ SelectedAt(ps, k)'
  BY <1>3, KeptByReading DEF Scanned
<1>8. phase' \notin {"read", "exec"}
  BY <1>3
<1>9. QED
  BY <1>6, <1>7, <1>8 DEF Scanned

\* The beginning of a file.
LEMMA BeginScans ==
  ASSUME TypedInv, file \in 1..Len(backup), Begin,
         NEW ps, ps = PiecesOf(file)
  PROVE  0 \in 0..Len(ps) /\ Scanned(ps, 0)'
<1>1. ps \in Seq(AllPieces)
  BY TheFile DEF TypedInv
<1>2. /\ phase' = "read" /\ pos' = 0 /\ delimiter' = Default /\ current' = <<>> /\ sent' = <<>>
  <2>1. ~(file > Len(backup))
    OBVIOUS
  <2>2. QED
    BY <2>1 DEF Begin
<1>3. Stmts(current') = <<>> /\ Executed(sent') = <<>>
  BY <1>2, StmtsNext, ExecutedNext
<1>4. Before(ps, 0) = 0 /\ Statements(First(ps, 0)) = <<>>
  BY <1>1, WholeText
<1>5. Place(ps, 0)'
  BY <1>2, <1>3, <1>4 DEF Place
<1>6. Restored(ps, 0, file)' /\ SelectedAt(ps, 0)'
  BY DEF Restored, SelectedAt
<1>7. Scanned(ps, 0)'
  BY <1>2, <1>3, <1>4, <1>5, <1>6 DEF Scanned
<1>8. QED
  BY <1>1, <1>7

\* The types.
LEMMA TextTyped ==
  ASSUME restore \in Restores, file \in 1..Len(backup)
  PROVE  /\ Len(Lines(file)) \in Nat
         /\ \A i \in 1..Len(Lines(file)) : Lines(file)[i] \in AllLines
<1> DEFINE ps == PiecesOf(file)
<1>1. ps \in Seq(AllPieces) /\ Lines(file) = Text(ps)
  BY TheFile
<1> HIDE DEF ps
<1>2. Text(ps) \in Seq(AllLines)
  BY <1>1, TextIsEach, EachType
<1>3. QED
  BY <1>1, <1>2

LEMMA BackupTyped ==
  ASSUME restore \in Restores
  PROVE  Len(backup) \in Nat
<1>1. IsSeq(backup)
  BY RestoresAssumption DEF backup
<1>2. QED
  BY <1>1 DEF IsSeq

LEMMA InitTyped == Init => TypedInv
<1> SUFFICES ASSUME Init PROVE TypedInv
  OBVIOUS
<1>1. restore \in Restores /\ Len(backup) \in Nat
  BY BackupTyped DEF Init
<1>2. file \in 1..(Len(backup) + 1)
  BY <1>1 DEF Init
<1>3. current \in Seq(AllLines) /\ sent \in Seq(Seq(AllLines))
  BY DEF Init
<1>4. TypeOK
  BY <1>2 DEF Init, TypeOK, Default
<1>5. QED
  BY <1>1, <1>3, <1>4 DEF TypedInv

LEMMA TypedKept == TypedInv /\ ScanInv /\ [Next]_vars => TypedInv'
<1> SUFFICES ASSUME TypedInv, ScanInv, [Next]_vars
             PROVE  TypedInv'
  OBVIOUS
<1>1. /\ restore \in Restores /\ Len(backup) \in Nat
      /\ file \in 1..(Len(backup) + 1)
      /\ delimiter \in {";", ";;"} /\ faulty \in BOOLEAN
      /\ phase \in {"begin", "read", "exec", "leftover", "commit", "ok", "error"}
      /\ phase \in {"exec", "leftover"} => current # <<>>
      /\ selected \in schemas \cup {NoSchema}
      /\ current \in Seq(AllLines) /\ sent \in Seq(Seq(AllLines))
  BY BackupTyped DEF TypedInv, TypeOK
<1>0. Len(backup) \in Nat /\ file \in 1..(Len(backup) + 1)
  BY <1>1
<1>2. phase \in Going =>
        /\ file \in 1..Len(backup) /\ Len(Lines(file)) \in Nat /\ pos \in 0..Len(Lines(file))
        /\ \A i \in 1..Len(Lines(file)) : Lines(file)[i] \in AllLines
  <2>1. SUFFICES ASSUME phase \in Going
                 PROVE  /\ file \in 1..Len(backup) /\ Len(Lines(file)) \in Nat
                        /\ pos \in 0..Len(Lines(file))
                        /\ \A i \in 1..Len(Lines(file)) : Lines(file)[i] \in AllLines
    OBVIOUS
  <2>2. file <= Len(backup)
    BY <2>1 DEF ScanInv
  <2>3. file \in 1..Len(backup)
    BY ONLY <1>0, <2>2
  <2>4. pos \in 0..Len(Lines(file))
    BY <2>1 DEF TypedInv, TypeOK, Going
  <2>5. QED
    BY <1>1, <2>3, <2>4, TextTyped
<1>3. CASE Begin
  <2>1. CASE file > Len(backup)
    <3>1. /\ phase' = "ok"
          /\ UNCHANGED <<restore, file, pos, delimiter, current, sent, faulty>> /\ UNCHANGED server
      BY <1>3, <2>1 DEF Begin
    <3>2. QED
      BY <1>1, <3>1 DEF TypedInv, TypeOK, server, backup
  <2>2. CASE ~(file > Len(backup))
    <3>1. /\ phase' = "read" /\ pos' = 0 /\ delimiter' = Default /\ current' = <<>> /\ sent' = <<>>
          /\ UNCHANGED <<restore, file, faulty>> /\ UNCHANGED server
      BY <1>3, <2>2 DEF Begin
    <3>2. file \in 1..Len(backup)
      BY ONLY <1>0, <2>2
    <3>3. Len(Lines(file)) \in Nat
      BY <1>1, <3>2, TextTyped
    <3>4. Lines(file)' = Lines(file) /\ backup' = backup
      BY <3>1 DEF Lines, backup
    <3>5. pos' \in 0..Len(Lines(file)')
      BY <3>1, <3>3, <3>4
    <3>6. current' \in Seq(AllLines) /\ sent' \in Seq(Seq(AllLines))
      BY <3>1
    <3>7. QED
      BY <1>1, <3>1, <3>4, <3>5, <3>6 DEF TypedInv, TypeOK, server, Default
  <2>3. QED
    BY <2>1, <2>2
<1>4. CASE Read
  <2> DEFINE line == Lines(file)[pos + 1]
  <2>1. /\ phase = "read" /\ pos < Len(Lines(file)) /\ pos' = pos + 1
        /\ SkipBlank(line) \/ TakeText(line) \/ TakeDelimiter(line)
        /\ UNCHANGED <<restore, file, sent, faulty>> /\ UNCHANGED server
    BY <1>4 DEF Read
  <2>2. /\ pos + 1 \in 1..Len(Lines(file)) /\ pos + 1 \in 0..Len(Lines(file))
        /\ line \in AllLines
    BY <1>2, <2>1 DEF Going
  <2>3. Lines(file)' = Lines(file) /\ backup' = backup
    BY <2>1 DEF Lines, backup
  <2> HIDE DEF line
  <2>4. /\ delimiter' \in {";", ";;"} /\ phase' \in {"read", "exec"}
        /\ current' \in Seq(AllLines)
        /\ phase' = "exec" => current' # <<>>
    <3>1. CASE SkipBlank(line)
      BY <1>1, <2>1, <3>1 DEF SkipBlank
    <3>2. CASE TakeText(line)
      <4>1. Append(current, line) \in Seq(AllLines) /\ Append(current, line) # <<>>
        <5> DEFINE D == AllLines
        <5>1. current \in Seq(D) /\ line \in D
          BY <1>1, <2>2
        <5> HIDE DEF D
        <5> DEFINE a == Append(current, line)
        <5>2. a \in Seq(D) /\ Len(a) = Len(current) + 1 /\ Len(current) \in Nat
          BY ONLY <5>1
        <5> HIDE DEF a
        <5>3. a # <<>>
          BY ONLY <5>2
        <5>4. QED
          BY <5>2, <5>3 DEF D, a
      <4>2. QED
        BY <1>1, <3>2, <4>1 DEF TakeText
    <3>3. CASE TakeDelimiter(line)
      <4>1. line.kind = "delimiter"
        BY <3>3 DEF TakeDelimiter
      <4>2. line.to \in {";", ";;"}
        BY <2>2, <4>1, LineFields, ZenonT(40) DEF AllLines
      <4>3. QED
        BY <1>1, <3>3, <4>2 DEF TakeDelimiter
    <3>4. QED
      BY <2>1, <3>1, <3>2, <3>3
  <2>5. TypeOK'
    BY <1>1, <2>1, <2>2, <2>3, <2>4 DEF TypeOK, server
  <2>6. QED
    BY <1>1, <2>1, <2>4, <2>5 DEF TypedInv
<1>5. CASE EndOfFile
  <2>1. /\ phase = "read" /\ phase' = IF current = <<>> THEN "commit" ELSE "leftover"
        /\ UNCHANGED <<restore, file, pos, delimiter, current, sent, faulty>> /\ UNCHANGED server
    BY <1>5 DEF EndOfFile
  <2>2. Lines(file)' = Lines(file) /\ backup' = backup
    BY <2>1 DEF Lines, backup
  <2>3. QED
    BY <1>1, <1>2, <2>1, <2>2 DEF TypedInv, TypeOK, server, Going
<1>6. CASE Exec
  <2>1. /\ phase \in {"exec", "leftover"}
        /\ UNCHANGED server \/ \E s : Accepts(s) /\ Effect(s)
        /\ sent' = Append(sent, current) /\ current' = <<>>
        /\ phase' = IF phase = "exec" THEN "read" ELSE "commit"
        /\ UNCHANGED <<restore, file, pos, delimiter, faulty>>
    BY <1>6 DEF Exec
  <2>2. Lines(file)' = Lines(file) /\ backup' = backup
    BY <2>1 DEF Lines, backup
  <2>3. selected' \in schemas' \cup {NoSchema}
    <3>1. CASE UNCHANGED server
      BY <1>1, <3>1 DEF server
    <3>2. ASSUME NEW s, Accepts(s), Effect(s) PROVE selected' \in schemas' \cup {NoSchema}
      BY <1>1, <3>2 DEF Accepts, Effect
    <3>3. QED
      BY <2>1, <3>1, <3>2
  <2>4. sent' \in Seq(Seq(AllLines)) /\ current' \in Seq(AllLines)
    <3>1. Append(sent, current) \in Seq(Seq(AllLines)) /\ <<>> \in Seq(AllLines)
      <4>1. Append(sent, current) \in Seq(Seq(AllLines))
        BY ONLY <1>1, ExecutedNext
      <4>2. <<>> \in Seq(AllLines)
        OBVIOUS
      <4>3. QED
        BY ONLY <4>1, <4>2
    <3>2. QED
      BY ONLY <2>1, <3>1, Zenon
  <2>5. TypeOK'
    BY <1>1, <1>2, <2>1, <2>2, <2>3 DEF TypeOK, Going
  <2>6. QED
    BY <1>1, <2>1, <2>4, <2>5 DEF TypedInv
<1>7. CASE Refused \/ Fault
  <2>1. /\ phase' = "error" /\ faulty' \in BOOLEAN
        /\ UNCHANGED <<restore, file, pos, delimiter, current, sent>> /\ UNCHANGED server
    BY <1>1, <1>7 DEF Refused, Fault
  <2>2. QED
    BY <1>1, <2>1 DEF TypedInv, TypeOK, server, backup
<1>8. CASE Commit
  <2>1. /\ phase = "commit" /\ file' = file + 1 /\ phase' = "begin"
        /\ UNCHANGED <<restore, pos, delimiter, current, sent, faulty>> /\ UNCHANGED server
    BY <1>8 DEF Commit
  <2>2. file \in 1..Len(backup) /\ backup' = backup
    BY <1>2, <2>1 DEF Going, backup
  <2>3. file' \in 1..(Len(backup') + 1)
    <3>1. file + 1 \in 1..(Len(backup) + 1)
      BY ONLY <1>0, <2>2
    <3>2. QED
      BY <2>1, <2>2, <3>1
  <2>4. QED
    BY <1>1, <2>1, <2>3 DEF TypedInv, TypeOK, server
<1>9. CASE Returned \/ UNCHANGED vars
  <2>1. UNCHANGED vars
    BY <1>9 DEF Returned
  <2>2. QED
    BY <2>1 DEF vars, TypedInv, TypeOK, Lines, backup
<1>10. QED
  BY <1>3, <1>4, <1>5, <1>6, <1>7, <1>8, <1>9 DEF Next, Step

LEMMA InitInv == Init => Inv
<1> SUFFICES ASSUME Init PROVE Inv
  OBVIOUS
<1>1. TypedInv
  BY InitTyped
<1>2. ScanInv
  BY DEF Init, ScanInv, Going
<1>3. FilesInv
  BY DEF Init, FilesInv
<1>4. TargetInv
  BY DEF Init, TargetInv, LandsInTarget
<1>5. QED
  BY <1>1, <1>2, <1>3, <1>4 DEF Inv

\* A step that goes on with a file goes on with its pieces.
LEMMA ScanKept ==
  ASSUME TypedInv, ScanInv, TargetInv, Begin \/ Read \/ EndOfFile \/ Exec, phase' # "ok"
  PROVE  ScanInv' /\ (Exec => TargetInv')
<1>1. restore \in Restores /\ file \in 1..(Len(backup) + 1) /\ Len(backup) \in Nat
  BY BackupTyped DEF TypedInv, TypeOK
<1>2. file \in 1..Len(backup)
  <2>1. file <= Len(backup)
    <3>1. CASE Begin
      <4>1. ~(file > Len(backup))
        BY <3>1 DEF Begin
      <4>2. QED
        BY ONLY <1>1, <4>1
    <3>2. CASE Read \/ EndOfFile \/ Exec
      BY <3>2 DEF Read, EndOfFile, Exec, ScanInv, Going
    <3>3. QED
      BY <3>1, <3>2
  <2>2. QED
    BY ONLY <1>1, <2>1
<1>3. PICK ps : ps = PiecesOf(file)
  OBVIOUS
<1>4. UNCHANGED <<restore, file>>
  BY DEF Begin, Read, EndOfFile, Exec
<1>5. file' <= Len(backup') /\ ps = PiecesOf(file)'
  BY <1>2, <1>3, <1>4 DEF backup, PiecesOf
<1>6. SUFFICES (\E k \in 0..Len(ps) : Scanned(ps, k)') /\ (Exec => TargetInv')
  BY <1>5 DEF ScanInv
<1>7. CASE Begin
  <2>1. ~Exec
    BY <1>7 DEF Begin, Exec
  <2>2. QED
    BY <1>2, <1>3, <1>7, <2>1, BeginScans
<1>8. CASE Read \/ EndOfFile \/ Exec
  <2>1. PICK k \in 0..Len(ps) : Scanned(ps, k)
    BY <1>3, <1>8 DEF Read, EndOfFile, Exec, ScanInv, Going
  <2>2. CASE Read
    <3>1. ~Exec
      BY <2>2 DEF Read, Exec
    <3>2. QED
      BY <1>2, <1>3, <2>1, <2>2, <3>1, ReadScans
  <2>3. CASE EndOfFile
    <3>1. ~Exec
      BY <2>3 DEF EndOfFile, Exec
    <3>2. QED
      BY <1>2, <1>3, <2>1, <2>3, <3>1, EndScans
  <2>4. CASE Exec
    BY <1>2, <1>3, <2>1, <2>4, ExecScans
  <2>5. QED
    BY <1>8, <2>2, <2>3, <2>4
<1>9. QED
  BY <1>7, <1>8

LEMMA InvKept == Inv /\ [Next]_vars => Inv'
<1> SUFFICES ASSUME Inv, [Next]_vars PROVE Inv'
  OBVIOUS
<1>1. TypedInv /\ ScanInv /\ FilesInv /\ TargetInv
  BY DEF Inv
<1>2. TypedInv'
  BY <1>1, TypedKept
<1>3. restore \in Restores /\ file \in 1..(Len(backup) + 1) /\ Len(backup) \in Nat
  BY <1>1, BackupTyped DEF TypedInv, TypeOK
<1>4. ASSUME UNCHANGED server, UNCHANGED restore
      PROVE  TargetInv'
  BY <1>1, <1>4 DEF TargetInv, server, LandsInTarget, Mapped, backup
<1>5. ASSUME landed \subseteq landed', UNCHANGED <<restore, file>>, phase' # "ok"
      PROVE  FilesInv'
  <2>1. SUFFICES ASSUME NEW f \in 1..(file - 1), NEW ps, ps = PiecesOf(f), Restored(ps, Len(ps), f)
                 PROVE  ps = PiecesOf(f)' /\ Restored(ps, Len(ps), f)'
    BY <1>1, <1>5 DEF FilesInv
  <2>2. ps = PiecesOf(f)'
    BY <1>5, <2>1 DEF PiecesOf, backup
  <2>3. Restored(ps, Len(ps), f)'
    BY <1>5, <2>1, RestoredKept
  <2>4. QED
    BY <2>2, <2>3
<1>6. CASE Begin \/ Read \/ EndOfFile \/ Exec
  <2>1. UNCHANGED <<restore, file>>
    BY <1>6 DEF Begin, Read, EndOfFile, Exec
  <2>2. landed \subseteq landed' /\ (Exec \/ UNCHANGED server)
    BY <1>6, ExecKeeps DEF Begin, Read, EndOfFile, server
  <2>3. CASE phase' # "ok"
    <3>1. ScanInv' /\ (Exec => TargetInv')
      BY <1>1, <1>6, <2>3, ScanKept
    <3>2. FilesInv'
      BY <1>5, <2>1, <2>2, <2>3
    <3>3. TargetInv'
      BY <1>4, <2>1, <2>2, <3>1
    <3>4. QED
      BY <1>2, <3>1, <3>2, <3>3 DEF Inv
  <2>4. CASE phase' = "ok"
    <3>1. /\ file > Len(backup)
          /\ UNCHANGED <<restore, file>> /\ UNCHANGED server
      BY <1>6, <2>4 DEF Begin, Read, EndOfFile, Exec, SkipBlank, TakeText, TakeDelimiter
    <3>2. ScanInv'
      BY <2>4 DEF ScanInv, Going
    <3>3. file = Len(backup) + 1
      BY ONLY <1>3, <3>1
    <3>4. file' = Len(backup') + 1
      BY <3>1, <3>3 DEF backup
    <3>5. FilesInv'
      <4>1. SUFFICES ASSUME NEW f \in 1..(file - 1), NEW ps, ps = PiecesOf(f), Restored(ps, Len(ps), f)
                     PROVE  ps = PiecesOf(f)' /\ Restored(ps, Len(ps), f)'
        BY <1>1, <3>1, <3>4 DEF FilesInv
      <4>2. ps = PiecesOf(f)'
        BY <3>1, <4>1 DEF PiecesOf, backup
      <4>3. Restored(ps, Len(ps), f)'
        BY <2>2, <4>1, RestoredKept
      <4>4. QED
        BY <4>2, <4>3
    <3>6. TargetInv'
      BY <1>4, <3>1
    <3>7. QED
      BY <1>2, <3>2, <3>5, <3>6 DEF Inv
  <2>5. QED
    BY <2>3, <2>4
<1>7. CASE Refused \/ Fault
  <2>1. phase' = "error" /\ UNCHANGED <<restore, file>> /\ UNCHANGED server
    BY <1>7 DEF Refused, Fault
  <2>2. landed \subseteq landed'
    BY <2>1 DEF server
  <2>3. ScanInv'
    BY <2>1 DEF ScanInv, Going
  <2>4. FilesInv' /\ TargetInv'
    BY <1>4, <1>5, <2>1, <2>2
  <2>5. QED
    BY <1>2, <2>3, <2>4 DEF Inv
<1>8. CASE Commit
  <2>1. phase = "commit" /\ phase' = "begin" /\ file' = file + 1 /\ UNCHANGED restore /\ UNCHANGED server
    BY <1>8 DEF Commit
  <2>2. PICK ps : ps = PiecesOf(file)
    OBVIOUS
  <2>3. PICK k \in 0..Len(ps) : Scanned(ps, k)
    BY <1>1, <2>1, <2>2 DEF ScanInv, Going
  <2>4. k = Len(ps) /\ Restored(ps, Len(ps), file)
    BY <2>1, <2>3 DEF Scanned, Place, InPiece, Complete, Halfway, Within
  <2>5. ScanInv'
    BY <2>1 DEF ScanInv, Going
  <2>6. FilesInv'
    <3>1. landed \subseteq landed'
      BY <2>1 DEF server
    <3>2. \A f : PiecesOf(f)' = PiecesOf(f)
      BY <2>1 DEF PiecesOf, backup
    <3>3. SUFFICES ASSUME NEW f \in 1..(file' - 1)
                   PROVE  \E q \in {PiecesOf(f)} : Restored(q, Len(q), f)'
      BY <2>1, <3>2 DEF FilesInv
    <3>4. f \in 1..(file - 1) \/ f = file
      BY <1>3, <2>1
    <3>5. CASE f = file
      <4>1. Restored(ps, Len(ps), f)
        BY <2>4, <3>5
      <4>2. Restored(ps, Len(ps), f)'
        BY <3>1, <4>1, RestoredKept
      <4>3. QED
        BY <2>2, <3>5, <4>2
    <3>6. CASE f \in 1..(file - 1)
      <4>1. PICK q \in {PiecesOf(f)} : Restored(q, Len(q), f)
        BY <1>1, <3>6 DEF FilesInv
      <4>2. Restored(q, Len(q), f)'
        BY <3>1, <4>1, RestoredKept
      <4>3. QED
        BY <4>1, <4>2
    <3>7. QED
      BY <3>4, <3>5, <3>6
  <2>7. TargetInv'
    BY <1>4, <2>1
  <2>8. QED
    BY <1>2, <2>5, <2>6, <2>7 DEF Inv
<1>9. CASE Returned \/ UNCHANGED vars
  <2>1. UNCHANGED vars
    BY <1>9 DEF Returned
  <2>2. UNCHANGED <<restore, file, pos, delimiter, current, phase, sent>> /\ UNCHANGED server
    BY <2>1 DEF vars, server
  <2>3. TargetInv'
    BY <1>4, <2>2
  <2>4. ScanInv'
    <3>1. SUFFICES ASSUME phase' \in Going PROVE ScanInv'
      BY DEF ScanInv
    <3>2. file <= Len(backup)
      BY <1>1, <2>2, <3>1 DEF ScanInv
    <3>3. PICK ps : ps = PiecesOf(file)
      OBVIOUS
    <3>4. PICK k \in 0..Len(ps) : Scanned(ps, k)
      BY <1>1, <2>2, <3>1, <3>3 DEF ScanInv
    <3>5. ps = PiecesOf(file)' /\ file' <= Len(backup')
      BY <2>2, <3>2, <3>3 DEF PiecesOf, backup
    <3>6. /\ (Executed(sent) = Statements(First(ps, k)))'
          /\ Restored(ps, k, file)' /\ SelectedAt(ps, k)'
      BY <2>2, <3>4, KeptByReading DEF Scanned
    <3>7. Place(ps, k)'
      BY <2>2, <3>4 DEF Scanned, Place, InPiece, Complete, Halfway, Within
    <3>8. Fresh(ps, k) /\ phase' \in {"read", "exec"} => Stmts(current') = current'
      BY <2>2, <3>4 DEF Scanned
    <3>9. Scanned(ps, k)'
      BY <3>6, <3>7, <3>8 DEF Scanned
    <3>10. QED
      BY <3>5, <3>9 DEF ScanInv
  <2>5. FilesInv'
    <3>1. \A f : PiecesOf(f)' = PiecesOf(f)
      BY <2>2 DEF PiecesOf, backup
    <3>2. \A q, f : Restored(q, Len(q), f)' = Restored(q, Len(q), f)
      BY <2>2 DEF Restored, IsThere, server
    <3>3. QED
      BY <1>1, <2>2, <3>1, <3>2 DEF FilesInv, backup
  <2>6. QED
    BY <1>2, <2>3, <2>4, <2>5 DEF Inv
<1>10. QED
  BY <1>6, <1>7, <1>8, <1>9 DEF Next, Step

\* The invariant holds in every state.
THEOREM Invariance == Spec => []Inv
<1>1. QED
  BY InitInv, InvKept, PTL DEF Spec

---------------------------------------------------------------------------
(* What follows from it. *)

\* Each variable has its type, and nothing empty is about to be executed.
THEOREM TypeCorrect == Spec => []TypeOK
<1>1. Inv => TypeOK
  BY DEF Inv, TypedInv
<1>2. QED
  BY <1>1, Invariance, PTL

\* However the dump is cut into lines, what the server is sent are its statements, one by one
\* and in order, and all of them when the file is committed (restore.go:34-113).
THEOREM StatementsSentAsWritten == Spec => []SentAsWritten
<1>1. ASSUME Inv PROVE SentAsWritten
  <2>1. TypedInv /\ ScanInv
    BY <1>1 DEF Inv
  <2>2. SUFFICES ASSUME phase \in Going
                 PROVE  /\ IsPrefix(Executed(sent), WrittenIn[backup][file])
                        /\ phase = "commit" => Executed(sent) = WrittenIn[backup][file]
    BY DEF SentAsWritten, Going
  <2>3. restore \in Restores /\ file \in 1..Len(backup)
    <3>1. restore \in Restores /\ file \in 1..(Len(backup) + 1) /\ Len(backup) \in Nat
      BY <2>1, BackupTyped DEF TypedInv, TypeOK
    <3>2. file <= Len(backup)
      BY <2>1, <2>2 DEF ScanInv
    <3>3. QED
      BY ONLY <3>1, <3>2
  <2>4. PICK ps : ps = PiecesOf(file)
    OBVIOUS
  <2>5. PICK k \in 0..Len(ps) : Scanned(ps, k)
    BY <2>1, <2>2, <2>4 DEF ScanInv
  <2>6. ps \in Seq(AllPieces) /\ WrittenIn[backup][file] = Statements(ps)
    BY <2>3, <2>4, TheFile
  <2>7. Executed(sent) = Statements(First(ps, k))
    BY <2>5 DEF Scanned
  <2>8. IsPrefix(Statements(First(ps, k)), Statements(ps)) /\ First(ps, Len(ps)) = ps
    BY <2>6, WholeText
  <2>9. phase = "commit" => k = Len(ps)
    BY <2>5 DEF Scanned, Place, InPiece, Complete, Halfway, Within
  <2>10. QED
    BY <2>6, <2>7, <2>8, <2>9
<1>2. QED
  BY <1>1, Invariance, PTL

\* When Restore answers nil, every object of every file has been created (restore.go:25-119).
THEOREM OkRestoresEverything == Spec => []OkMeansRestored
<1>1. ASSUME Inv PROVE OkMeansRestored
  <2>1. TypedInv /\ FilesInv
    BY <1>1 DEF Inv
  <2>2. SUFFICES ASSUME phase = "ok", NEW f \in 1..Len(backup), NEW x \in Objects(backup[f])
                 PROVE  \E l \in landed : l.op = x.op /\ l.obj = x.obj /\ l.file = f
    BY DEF OkMeansRestored
  <2>3. restore \in Restores /\ Len(backup) \in Nat
    BY <2>1, BackupTyped DEF TypedInv
  <2>4. f \in 1..(file - 1)
    BY <2>1, <2>2, <2>3 DEF FilesInv
  <2>5. PICK ps \in {PiecesOf(f)} : Restored(ps, Len(ps), f)
    BY <2>1, <2>4 DEF FilesInv
  <2>6. Proper(backup[f].schema)
    BY <2>3, FilesTyped DEF backup
  <2>7. PICK i \in 1..Len(ps) : /\ ps[i].stmt.op = x.op /\ ps[i].stmt.obj = x.obj
                                /\ x.op \in Landing
    BY <2>5, <2>6, ObjectHasPiece DEF PiecesOf, Landing
  <2>8. IsThere(ps[i].stmt, f)
    BY <2>5, <2>7 DEF Restored
  <2>9. QED
    BY <2>7, <2>8 DEF IsThere
<1>2. QED
  BY <1>1, Invariance, PTL

\* What is created is created in the schema that its file is restored into, if in each restore
\* no file has a USE in front, or each file has one and no USE is overlooked by the rewriting:
\* a full dump has comments above the USEs of its views, and there the schema must be its own.
THEOREM CreatedInTarget ==
  ASSUME \A r \in Restores : Suppressed(r) \/ Targeted(r)
  PROVE  Spec => []LandsInTarget
<1>1. ASSUME Inv PROVE LandsInTarget
  <2>1. TargetInv /\ restore \in Restores
    BY <1>1 DEF Inv, TypedInv
  <2>2. CASE Suppressed(restore)
    BY <2>1, <2>2 DEF TargetInv, LandsInTarget
  <2>3. CASE Targeted(restore)
    BY <2>1, <2>3 DEF TargetInv
  <2>4. QED
    BY <2>1, <2>2, <2>3
<1>2. QED
  BY <1>1, Invariance, PTL

=============================================================================
